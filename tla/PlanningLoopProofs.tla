-------------------------- MODULE PlanningLoopProofs --------------------------
(***************************************************************************)
(* What PlanningLoop promises, for any number of requests and operators,   *)
(* any templates, works, settings and bounds.  A request and the operators *)
(* meet in the instances only: ProcessInv types those, and Kept says that  *)
(* an instance never loses its content or an event.  RequestInv is what a  *)
(* request knows at each of its steps: how many executions the planner has *)
(* been told of, that an assessment is that of the last execution under    *)
(* the instance the request holds, and that a plan still in the loop asks  *)
(* to be revised.                                                          *)
(***************************************************************************)
EXTENDS PlanningLoop, FiniteSetTheorems, SequenceTheorems, WellFoundedInduction, TLAPS

(* Types *)

Template == [version : Nat, content : Content]
InstanceRow ==
    [version : Nat, content : Content, status : {"active", "awaiting_gate"} \cup Terminal,
     started : Nat, concerns : SUBSET {"never_validated", "abandonment", "overrides"},
     trace : Seq(Event \X (Step \cup Deviation \cup {"operator"}))]
Errand ==
    [op : {"revise", "evolve", "start"}, version : Nat, content : Content, started : Nat]

\* A version and content that some row of the collection has.
OnRecord(version, content) ==
    \E j \in DOMAIN templates : templates[j].version = version /\ templates[j].content = content

\* The i-th row has a version of at most i: one is added for each.
TemplatesTyped ==
    /\ templates \in Seq(Template)
    /\ Len(templates) \in 1 .. MaxRows
    /\ \A i \in DOMAIN templates : templates[i].version \in 1 .. i

InstancesTyped ==
    /\ instances \in Seq(InstanceRow)
    /\ \A i \in Instance : OnRecord(instances[i].version, instances[i].content)
    /\ \E latest \in Nat : \A i \in Instance : instances[i].started <= latest

DeskTyped ==
    /\ DOMAIN desk = Operator
    /\ \A o \in Operator :
        \/ desk[o] = Idle
        \/ desk[o] \in Errand /\ OnRecord(desk[o].version, desk[o].content)

ProcessInv == TemplatesTyped /\ InstancesTyped /\ DeskTyped

\* No instance is lost, nor its content, nor an event of it.
Kept ==
    \A i \in Instance :
        /\ i \in DOMAIN instances'
        /\ instances'[i].content = instances[i].content
        /\ \A k \in DOMAIN instances[i].trace :
              /\ k \in DOMAIN instances'[i].trace
              /\ instances'[i].trace[k] = instances[i].trace[k]

PlanRow == {p \in [rev : Nat, parent : Nat, decision : Decision, special : BOOLEAN] : p.parent < p.rev}
SavedRow == {s \in [rev : Nat, parent : Nat, by : {"request", "operator"}] : s.parent < s.rev}
AskRow == [run : Nat, missing : SUBSET Outcome]
Execution == [brought : Works, specialist : BOOLEAN]
Result == [specialist : BOOLEAN, gate : BOOLEAN, warned : BOOLEAN]
Place ==
    {"idle", "keep", "framed", "execute", "keepRevision", "run", "await", "ran", "revise",
     "proposed", "gate", "specialist", "done", "failed"}

Types ==
    /\ setting \in Setting
    /\ pc \in [Request -> Place]
    /\ DOMAIN proc = Request /\ DOMAIN ctl = Request /\ DOMAIN aim = Request
    /\ list \in [Request -> Seq(PlanRow)]
    /\ saved \in [Request -> SUBSET SavedRow]
    /\ \A r \in Request : \E last \in Nat : \A s \in saved[r] : s.rev <= last
    /\ works \in [Request -> Seq(Execution)]
    /\ told \in [Request -> Nat]
    /\ DOMAIN valid = Request /\ \A r \in Request : valid[r].missing \subseteq Outcome
    /\ asked \in [Request -> Seq(AskRow)]
    /\ result \in [Request -> Result]
    /\ DOMAIN trigger = Request
    /\ outside \in [Request -> Nat]

(* What a request knows *)

Fresh == {"idle", "keep", "framed", "execute"}

\* The instances it holds exist.
Held(r) ==
    /\ {proc[r], ctl[r], aim[r]} \subseteq {0} \cup Instance
    /\ pc[r] = "await" => aim[r] # 0
    /\ pc[r] \in Fresh \cup {"keepRevision"} => ctl[r] = 0

\* Executions, and how many of them the planner has been told of.
Counted(r) ==
    /\ pc[r] \in Fresh => works[r] = <<>> /\ asked[r] = <<>>
    /\ pc[r] \in {"run", "proposed", "gate"} => Len(asked[r]) = Len(works[r])
    /\ pc[r] \in {"await", "ran", "revise"} => Len(works[r]) = Len(asked[r]) + 1
    /\ Len(asked[r]) <= Len(works[r])
    /\ told[r] <= Len(works[r])
    /\ pc[r] = "revise" => told[r] = Len(works[r])

\* An assessment that is going to be used is of the last execution.
Assessed(r) ==
    pc[r] \in {"revise", "proposed", "gate"} /\ ctl[r] # 0 =>
        valid[r] = Assess(ctl[r], works[r][Len(works[r])].brought)

\* A plan in the loop asks for a revision; one at the gate has been held back.
Planned(r) ==
    /\ pc[r] \notin {"idle", "done"} => list[r] # <<>>
    /\ pc[r] \in {"keep", "framed", "execute", "run", "await", "ran", "revise"} =>
           Now(r).decision = "revise"
    /\ pc[r] \in {"proposed", "gate"} => Len(list[r]) > 1
    /\ pc[r] = "gate" => Now(r).decision \in {"stable", "complete"} /\ ShouldGate(r)
    /\ pc[r] \notin {"specialist", "done"} => ~result[r].gate

\* DriftHoldsBack, from the end of the loop.
Drifted(r) ==
    LET w == works[r][Len(works[r])].brought
        c == instances[ctl[r]].content
    IN  /\ c.onDrift \in {"gate", "reanchor_then_gate"}
        /\ Drifting(w, c)
        /\ \E o \in Outcome : w.floor[o] = "unmet"

Raised(i) ==
    <<"gate.reached", "outcomes:drift">> \in {instances[i].trace[k] : k \in DOMAIN instances[i].trace}

\* The event is there because of the gate, not the gate because of the event: that may
\* be of another request.
Settled(r) ==
    pc[r] \in {"specialist", "done"} =>
        /\ result[r].gate <=>
               /\ ctl[r] # 0
               /\ Len(list[r]) > 1
               /\ Now(r).decision \in {"stable", "complete"}
               /\ Drifted(r)
        /\ result[r].gate => Raised(ctl[r])

\* What the planner was told of the k-th execution.
Missing(w, i) ==
    IF i = 0 THEN {}
    ELSE IF /\ Drifting(w, instances[i].content)
            /\ instances[i].content.onDrift \in {"reanchor", "reanchor_then_gate"}
         THEN NotMet(w) ELSE {}

Answered(r) ==
    \A k \in DOMAIN asked[r] :
        asked[r][k].run = k /\ asked[r][k].missing = Missing(works[r][k].brought, ctl[r])

\* A specialist's result is never forgotten, and the call after the loop is the last act.
Heeded(r) ==
    /\ \A k \in DOMAIN works[r] : works[r][k].specialist => result[r].specialist
    /\ trigger[r] => pc[r] = "done" /\ ~result[r].specialist

RequestInv(r) ==
    Held(r) /\ Counted(r) /\ Assessed(r) /\ Planned(r) /\ Settled(r) /\ Answered(r) /\ Heeded(r)

Inv == ProcessInv /\ Types /\ \A r \in Request : RequestInv(r)


(* What is chosen exists *)

\* A set of naturals that is not empty has a least member.
LEMMA LeastExists ==
  ASSUME NEW T \in SUBSET Nat, T # {}
  PROVE  \E m \in T : \A n \in T : m <= n
  <1> DEFINE Less == OpToRel(<, Nat)
  <1>1. IsWellFoundedOn(Less, Nat)
    BY NatLessThanWellFounded
  <1>2. \A x, y \in Nat : y < x => <<y, x>> \in Less
    BY DEF OpToRel
  <1> HIDE DEF Less
  <1>3. PICK m \in T : \A n \in T : <<n, m>> \notin Less
    BY <1>1, WFMin
  <1>4. ASSUME NEW n \in T
        PROVE  m <= n
    <2>1. n \in Nat /\ m \in Nat
      OBVIOUS
    <2>2. ~ (n < m)
      BY <1>2, <1>3, <2>1
    <2>3. QED
      BY <2>1, <2>2
  <1>5. QED
    BY <1>4

\* A bounded one has a greatest.
LEMMA GreatestExists ==
  ASSUME NEW T \in SUBSET Nat, T # {}, NEW b \in Nat, \A n \in T : n <= b
  PROVE  \E m \in T : \A n \in T : n <= m
  <1> DEFINE S == {b - n : n \in T}
  <1>1. S \in SUBSET Nat /\ S # {}
    <2>1. \A n \in T : n \in Nat /\ b - n \in Nat
      OBVIOUS
    <2>2. QED
      BY <2>1
  <1>2. PICK s \in S : \A n \in S : s <= n
    <2> HIDE DEF S
    <2>1. QED
      BY <1>1, LeastExists
  <1>3. PICK m \in T : s = b - m
    BY <1>2
  <1>4. ASSUME NEW n \in T
        PROVE  n <= m
    <2>1. s <= b - n /\ n \in Nat /\ m \in Nat
      BY <1>2
    <2>2. QED
      BY <1>3, <2>1
  <1>5. QED
    BY <1>4

\* A version of the collection has a first row.
LEMMA RowOfIsThere ==
  ASSUME TemplatesTyped, NEW i \in DOMAIN templates
  PROVE  RowOf(templates[i].version) \in DOMAIN templates
  <1> DEFINE v == templates[i].version
             S == {j \in DOMAIN templates : templates[j].version = v}
  <1>1. S \in SUBSET Nat /\ i \in S
    BY DEF TemplatesTyped
  <1>2. PICK m \in S : \A n \in S : m <= n
    <2> HIDE DEF S
    <2>1. QED
      BY <1>1, LeastExists
  <1>3. QED
    BY <1>2 DEF RowOf

\* A template has a latest version.
LEMMA LatestIsThere ==
  ASSUME TemplatesTyped
  PROVE  Latest \in DOMAIN templates
  <1> DEFINE V == {templates[j].version : j \in DOMAIN templates}
  <1>1. DOMAIN templates = 1 .. Len(templates) /\ Len(templates) \in Nat \ {0}
    BY DEF TemplatesTyped
  <1>2. \A j \in DOMAIN templates : templates[j].version \in 1 .. Len(templates)
    BY <1>1 DEF TemplatesTyped
  <1>3. V \in SUBSET Nat /\ V # {} /\ \A n \in V : n <= Len(templates)
    BY <1>1, <1>2
  <1>4. PICK v \in V : \A n \in V : n <= v
    <2> HIDE DEF V
    <2>1. QED
      BY <1>1, <1>3, GreatestExists
  <1> DEFINE S == {j \in DOMAIN templates : templates[j].version = v}
  <1>5. S \in SUBSET Nat /\ S # {}
    BY <1>1, <1>4
  <1>6. PICK m \in S : \A n \in S : m <= n
    <2> HIDE DEF S
    <2>1. QED
      BY <1>5, LeastExists
  <1>7. ASSUME NEW j \in DOMAIN templates
        PROVE  \/ templates[j].version < templates[m].version
               \/ templates[j].version = templates[m].version /\ m <= j
    <2>1. templates[m].version = v /\ templates[j].version \in Nat /\ v \in Nat
      BY <1>2, <1>4, <1>6
    <2>2. templates[j].version <= v
      BY <1>4
    <2>3. templates[j].version = v => m <= j
      BY <1>6
    <2>4. QED
      BY <2>1, <2>2, <2>3
  <1>8. QED
    BY <1>6, <1>7 DEF Latest

\* The active instance is one of the instances.
LEMMA ActiveIsThere ==
  ASSUME InstancesTyped
  PROVE  Active \in {0} \cup Instance
  <1>1. CASE Live = {}
    BY <1>1 DEF Active
  <1>2. CASE Live # {}
    <2> DEFINE S == {instances[i].started : i \in Live}
    <2>1. Live \subseteq Instance
      BY DEF Live
    <2>2. PICK latest \in Nat : \A i \in Instance : instances[i].started <= latest
      BY DEF InstancesTyped
    <2>3. \A i \in Instance : instances[i].started \in Nat
      <3>1. ASSUME NEW i \in Instance
            PROVE  instances[i] \in InstanceRow
        BY DEF InstancesTyped, Instance
      <3>2. QED
        BY <3>1 DEF InstanceRow
    <2>4. S \in SUBSET Nat /\ S # {} /\ \A n \in S : n <= latest
      BY <1>2, <2>1, <2>2, <2>3
    <2>5. PICK s \in S : \A n \in S : n <= s
      <3> HIDE DEF S
      <3>1. QED
        BY <2>4, GreatestExists
    <2>6. PICK i \in Live : s = instances[i].started
      BY <2>5
    <2>7. \A j \in Live : instances[j].started <= instances[i].started
      BY <2>5, <2>6
    <2>8. Active \in Live
      BY <1>2, <2>6, <2>7 DEF Active
    <2>9. QED
      BY <2>1, <2>8
  <1>3. QED
    BY <1>1, <1>2

\* A request with saved rows has a latest one.
LEMMA LatestRowIsThere ==
  ASSUME Types, NEW r \in Request, saved[r] # {}
  PROVE  LatestRow(r) \in saved[r]
  <1> DEFINE S == {s.rev : s \in saved[r]}
  <1>1. PICK last \in Nat : \A s \in saved[r] : s.rev <= last
    BY DEF Types
  <1>2. saved[r] \subseteq SavedRow /\ \A s \in SavedRow : s.rev \in Nat
    BY DEF Types, SavedRow
  <1>3. S \in SUBSET Nat /\ S # {} /\ \A n \in S : n <= last
    BY <1>1, <1>2
  <1>4. PICK n \in S : \A m \in S : m <= n
    <2> HIDE DEF S
    <2>1. QED
      BY <1>3, GreatestExists
  <1>5. PICK s \in saved[r] : n = s.rev
    BY <1>4
  <1>6. \A other \in saved[r] : other.rev <= s.rev
    BY <1>4, <1>5
  <1>7. QED
    BY <1>5, <1>6 DEF LatestRow

(* Processes *)

\* What a row of an instance holds.
LEMMA InstanceFields ==
  ASSUME InstancesTyped, NEW i \in Instance
  PROVE  /\ instances[i] \in InstanceRow
         /\ instances[i].started \in Nat
         /\ instances[i].trace \in Seq(Event \X (Step \cup Deviation \cup {"operator"}))
  <1>1. instances[i] \in InstanceRow
    BY DEF InstancesTyped, Instance
  <1>2. QED
    BY <1>1 DEF InstanceRow

\* Recording an event takes nothing away.
LEMMA RecordKeeps ==
  ASSUME InstancesTyped, NEW i \in Instance,
         NEW event \in Event, NEW detail \in Step \cup Deviation \cup {"operator"},
         NEW status \in {"active", "awaiting_gate"} \cup Terminal,
         Record(i, event, detail, status), UNCHANGED templates
  PROVE  /\ InstancesTyped' /\ Kept
         /\ Instance' = Instance
         /\ \E k \in DOMAIN instances'[i].trace : instances'[i].trace[k] = <<event, detail>>
  <1> DEFINE Entry == Event \X (Step \cup Deviation \cup {"operator"})
             before == instances[i].trace
             after == Append(before, <<event, detail>>)
             new == [instances[i] EXCEPT !.trace = after, !.status = status]
  <1>1. instances' = [instances EXCEPT ![i] = new]
    BY DEF Record
  <1>2. instances \in Seq(InstanceRow) /\ i \in 1 .. Len(instances) /\ instances[i] \in InstanceRow
    BY InstanceFields DEF InstancesTyped, Instance
  <1>3. before \in Seq(Entry) /\ <<event, detail>> \in Entry
    BY InstanceFields
  <1>4. /\ after \in Seq(Entry) /\ Len(after) = Len(before) + 1
        /\ \A k \in 1 .. Len(before) : after[k] = before[k]
        /\ after[Len(before) + 1] = <<event, detail>>
        /\ DOMAIN before = 1 .. Len(before) /\ DOMAIN after = 1 .. Len(after)
        /\ Len(before) \in Nat
    <2> HIDE DEF Entry, before
    <2>1. QED
      BY <1>3, AppendProperties, LenProperties
  <1>5. /\ new \in InstanceRow
        /\ new.version = instances[i].version /\ new.content = instances[i].content
        /\ new.started = instances[i].started /\ new.trace = after
    <2> HIDE DEF after
    <2>1. QED
      BY <1>2, <1>4 DEF InstanceRow
  <1> HIDE DEF new, after, before, Entry
  <1>6. /\ instances' \in Seq(InstanceRow) /\ DOMAIN instances' = DOMAIN instances
        /\ instances'[i] = new
        /\ \A j \in DOMAIN instances : j # i => instances'[j] = instances[j]
    BY <1>1, <1>2, <1>5
  <1>7. \A j \in Instance : /\ instances'[j].version = instances[j].version
                            /\ instances'[j].content = instances[j].content
                            /\ instances'[j].started = instances[j].started
    BY <1>5, <1>6 DEF Instance
  <1>8. InstancesTyped'
    <2>1. \A j \in Instance' : OnRecord(instances[j].version, instances[j].content)'
      BY <1>6, <1>7 DEF InstancesTyped, Instance, OnRecord
    <2>2. \E latest \in Nat : \A j \in Instance' : instances'[j].started <= latest
      BY <1>6, <1>7 DEF InstancesTyped, Instance
    <2>3. QED
      BY <1>6, <2>1, <2>2 DEF InstancesTyped, Instance
  <1>9. Kept
    <2>1. ASSUME NEW k \in DOMAIN before
          PROVE  k \in DOMAIN after /\ after[k] = before[k]
      BY <1>4
    <2>2. \A j \in Instance : \A k \in DOMAIN instances[j].trace :
            /\ k \in DOMAIN instances'[j].trace
            /\ instances'[j].trace[k] = instances[j].trace[k]
      <3>1. TAKE j \in Instance
      <3>2. CASE j = i
        BY <1>5, <1>6, <2>1, <3>2 DEF before
      <3>3. CASE j # i
        BY <1>6, <3>3 DEF Instance
      <3>4. QED
        BY <3>2, <3>3
    <2>3. QED
      BY <1>6, <1>7, <2>2 DEF Kept, Instance
  <1>10. \E k \in DOMAIN instances'[i].trace : instances'[i].trace[k] = <<event, detail>>
    <2>1. Len(before) + 1 \in DOMAIN after
      BY <1>4
    <2>2. QED
      BY <1>4, <1>5, <1>6, <2>1
  <1>11. QED
    BY <1>6, <1>8, <1>9, <1>10 DEF Instance

\* What nobody does to instances keeps them.
LEMMA NothingKept ==
  ASSUME InstancesTyped, UNCHANGED instances
  PROVE  Kept
  BY DEF Kept, Instance

\* What is on record stays on record.
LEMMA ReadKeeps ==
  ASSUME ProcessInv, NEW o \in Operator, NEW op \in {"revise", "evolve", "start"}, Read(o, op)
  PROVE  ProcessInv' /\ Kept
  <1>1. PICK row \in IF op = "start" THEN {RowOf(templates[i].version) : i \in DOMAIN templates}
                     ELSE {Latest} :
          desk' = [desk EXCEPT ![o] =
                    [op |-> op, version |-> templates[row].version,
                     content |-> templates[row].content,
                     started |-> Cardinality(Instance)
                                 + Cardinality({p \in Operator : desk[p].op = "start"})]]
    BY DEF Read
  <1>2. row \in DOMAIN templates
    BY RowOfIsThere, LatestIsThere DEF ProcessInv
  <1>3. Cardinality(Instance) + Cardinality({p \in Operator : desk[p].op = "start"}) \in Nat
    <2>1. IsFiniteSet(Instance)
      <3>1. Instance = 1 .. Len(instances) /\ Len(instances) \in Nat
        BY DEF ProcessInv, InstancesTyped, Instance
      <3>2. QED
        BY <3>1, FS_Interval
    <2>2. IsFiniteSet({p \in Operator : desk[p].op = "start"})
      BY ProcessAssumption, FS_Subset
    <2>3. QED
      BY <2>1, <2>2, FS_CardinalityType
  <1>4. desk'[o] \in Errand
    <2> DEFINE started == Cardinality(Instance)
                          + Cardinality({p \in Operator : desk[p].op = "start"})
    <2>1. templates[row] \in Template
      BY <1>2 DEF ProcessInv, TemplatesTyped
    <2>2. desk'[o] = [op |-> op, version |-> templates[row].version,
                      content |-> templates[row].content, started |-> started]
      BY <1>1 DEF ProcessInv, DeskTyped
    <2> HIDE DEF started
    <2>3. QED
      BY <1>3, <2>1, <2>2 DEF Errand, Template, started
  <1>5. desk'[o].version = templates[row].version /\ desk'[o].content = templates[row].content
    BY <1>1 DEF ProcessInv, DeskTyped
  <1>6. UNCHANGED <<templates, instances>>
    BY DEF Read
  <1>7. TemplatesTyped' /\ InstancesTyped' /\ Kept
    BY <1>6, NothingKept DEF ProcessInv, TemplatesTyped, InstancesTyped, OnRecord, Instance
  <1>8. OnRecord(desk[o].version, desk[o].content)'
    BY <1>2, <1>5, <1>6 DEF OnRecord
  <1>9. \A p \in Operator \ {o} : desk'[p] = desk[p]
    BY <1>1
  <1>10. DeskTyped'
    <2>1. DOMAIN desk' = Operator
      BY <1>1 DEF ProcessInv, DeskTyped
    <2>2. ASSUME NEW p \in Operator, p # o
          PROVE  \/ desk'[p] = Idle
                 \/ desk'[p] \in Errand /\ OnRecord(desk[p].version, desk[p].content)'
      BY <1>6, <1>9, <2>2 DEF ProcessInv, DeskTyped, OnRecord
    <2>3. QED
      BY <1>4, <1>8, <2>1, <2>2 DEF DeskTyped
  <1>11. QED
    BY <1>7, <1>10 DEF ProcessInv

\* An operator with an errand holds what is on record.
LEMMA ErrandIsTyped ==
  ASSUME DeskTyped, NEW o \in Operator, desk[o].op # "idle"
  PROVE  /\ desk[o] \in Errand
         /\ \E j \in DOMAIN templates : templates[j].version = desk[o].version
                                        /\ templates[j].content = desk[o].content
         /\ desk[o].version \in Nat /\ desk[o].content \in Content /\ desk[o].started \in Nat
  <1>1. desk[o] # Idle
    BY DEF Idle
  <1>2. desk[o] \in Errand /\ OnRecord(desk[o].version, desk[o].content)
    BY <1>1 DEF DeskTyped
  <1>3. QED
    BY <1>2 DEF Errand, OnRecord

\* A revision appends a version and takes no row away.
LEMMA ReviseKeeps ==
  ASSUME ProcessInv, NEW o \in Operator, Revise(o)
  PROVE  ProcessInv' /\ Kept
  <1>1. PICK c \in IF desk[o].op = "revise" THEN Revised(desk[o].content)
                   ELSE Evolved(desk[o].content) :
          templates' = Append(templates, [version |-> desk[o].version + 1, content |-> c])
    BY DEF Revise
  <1>2. c \in Content
    BY <1>1 DEF Revised, Evolved
  <1>3. PICK j \in DOMAIN templates : templates[j].version = desk[o].version
    BY ErrandIsTyped DEF ProcessInv, Revise
  <1> DEFINE new == [version |-> desk[o].version + 1, content |-> c]
             n == Len(templates)
  <1>4. desk[o].version \in 1 .. n /\ n \in Nat /\ n < MaxRows
    BY <1>3 DEF ProcessInv, TemplatesTyped, Revise
  <1>5. new \in Template /\ new.version \in 1 .. n + 1
    BY <1>2, <1>4 DEF Template
  <1>6. templates \in Seq(Template) /\ DOMAIN templates = 1 .. n
    BY DEF ProcessInv, TemplatesTyped
  <1> HIDE DEF new
  <1>7. /\ templates' \in Seq(Template) /\ Len(templates') = n + 1
        /\ DOMAIN templates' = 1 .. n + 1
        /\ \A i \in 1 .. n : templates'[i] = templates[i]
        /\ templates'[n + 1] = new
    BY <1>1, <1>5, <1>6, AppendProperties DEF new
  <1> HIDE DEF n
  <1>8. TemplatesTyped'
    <2>1. \A i \in 1 .. n : templates'[i].version \in 1 .. i
      BY <1>6, <1>7 DEF ProcessInv, TemplatesTyped
    <2>2. \A i \in DOMAIN templates' : templates'[i].version \in 1 .. i
      BY <1>4, <1>5, <1>7, <2>1
    <2>3. Len(templates') \in 1 .. MaxRows
      BY <1>4, <1>7, ProcessAssumption
    <2>4. QED
      BY <1>7, <2>2, <2>3 DEF TemplatesTyped
  <1>9. \A version, content : OnRecord(version, content) => OnRecord(version, content)'
    <2>1. \A i \in DOMAIN templates : i \in DOMAIN templates' /\ templates'[i] = templates[i]
      BY <1>4, <1>6, <1>7
    <2>2. QED
      BY <2>1 DEF OnRecord
  <1>10. UNCHANGED instances /\ desk' = [desk EXCEPT ![o] = Idle]
    BY DEF Revise
  <1>11. InstancesTyped' /\ Kept
    BY <1>9, <1>10, NothingKept DEF ProcessInv, InstancesTyped, Instance
  <1>12. DeskTyped'
    BY <1>9, <1>10 DEF ProcessInv, DeskTyped
  <1>13. QED
    BY <1>8, <1>11, <1>12 DEF ProcessInv

\* A new instance runs under a version and content that are on record.
LEMMA StartKeeps ==
  ASSUME ProcessInv, NEW o \in Operator, Start(o)
  PROVE  ProcessInv' /\ Kept
  <1> DEFINE new == NewInstance(desk[o].version, desk[o].content, desk[o].started,
                                Concerns(desk[o].version))
             n == Len(instances)
  <1>1. instances' = Append(instances, new) /\ UNCHANGED templates /\ desk' = [desk EXCEPT ![o] = Idle]
    BY DEF Start
  <1>2. /\ desk[o].version \in Nat /\ desk[o].content \in Content /\ desk[o].started \in Nat
        /\ OnRecord(desk[o].version, desk[o].content)
    BY ErrandIsTyped DEF ProcessInv, Start, OnRecord
  <1>3. Concerns(desk[o].version) \subseteq {"never_validated", "abandonment", "overrides"}
    BY DEF Concerns
  <1>4. new \in InstanceRow /\ new.version = desk[o].version /\ new.content = desk[o].content
        /\ new.started = desk[o].started
    <2> DEFINE concerns == Concerns(desk[o].version)
    <2> HIDE DEF concerns
    <2>1. <<>> \in Seq(Event \X (Step \cup Deviation \cup {"operator"}))
      OBVIOUS
    <2>2. concerns \in SUBSET {"never_validated", "abandonment", "overrides"}
      BY <1>3 DEF concerns
    <2>3. NewInstance(desk[o].version, desk[o].content, desk[o].started, concerns) \in InstanceRow
      BY <1>2, <2>1, <2>2 DEF NewInstance, InstanceRow
    <2>4. QED
      BY <2>3 DEF NewInstance, concerns
  <1> HIDE DEF new
  <1>5. instances \in Seq(InstanceRow) /\ n \in Nat /\ DOMAIN instances = 1 .. n
    BY DEF ProcessInv, InstancesTyped
  <1>6. /\ instances' \in Seq(InstanceRow) /\ DOMAIN instances' = 1 .. n + 1
        /\ \A i \in 1 .. n : instances'[i] = instances[i]
        /\ instances'[n + 1] = new
    BY <1>1, <1>4, <1>5, AppendProperties
  <1> HIDE DEF n
  <1>7. ASSUME NEW i \in 1 .. n + 1, i # n + 1
        PROVE  i \in 1 .. n
    BY <1>5, <1>7
  <1>8. \A i \in Instance' : OnRecord(instances[i].version, instances[i].content)'
    <2>1. TAKE i \in Instance'
    <2>2. CASE i = n + 1
      BY <1>1, <1>2, <1>4, <1>6, <2>2 DEF OnRecord
    <2>3. CASE i # n + 1
      BY <1>1, <1>5, <1>6, <1>7, <2>1, <2>3 DEF OnRecord, ProcessInv, InstancesTyped, Instance
    <2>4. QED
      BY <2>2, <2>3
  <1>9. \E latest \in Nat : \A i \in Instance' : instances'[i].started <= latest
    <2>1. PICK latest \in Nat : \A i \in Instance : instances[i].started <= latest
      BY DEF ProcessInv, InstancesTyped
    <2> DEFINE later == latest + desk[o].started
    <2>2. later \in Nat /\ latest <= later /\ desk[o].started <= later
      BY <1>2, <2>1
    <2> HIDE DEF later
    <2>3. ASSUME NEW i \in Instance'
          PROVE  instances'[i].started <= later
      <3>1. i \in 1 .. n + 1
        BY <1>6 DEF Instance
      <3>2. CASE i = n + 1
        BY <1>4, <1>6, <2>2, <3>2
      <3>3. CASE i # n + 1
        <4>1. i \in Instance /\ instances'[i] = instances[i]
          BY <1>5, <1>6, <1>7, <3>1, <3>3 DEF Instance
        <4>2. instances[i].started <= latest /\ instances[i].started \in Nat
          BY <2>1, <4>1, InstanceFields DEF ProcessInv
        <4>3. QED
          BY <2>1, <2>2, <4>1, <4>2
      <3>4. QED
        BY <3>2, <3>3
    <2>4. QED
      BY <2>2, <2>3
  <1>10. InstancesTyped'
    BY <1>6, <1>8, <1>9 DEF InstancesTyped
  <1>11. Kept
    BY <1>5, <1>6 DEF Kept, Instance
  <1>12. TemplatesTyped' /\ DeskTyped'
    BY <1>1 DEF ProcessInv, TemplatesTyped, DeskTyped, OnRecord
  <1>13. QED
    BY <1>10, <1>11, <1>12 DEF ProcessInv

\* A decision adds an event to its instance and nothing else.
LEMMA DecideKeeps ==
  ASSUME ProcessInv, NEW i \in Instance, Decide(i)
  PROVE  ProcessInv' /\ Kept
  <1>1. UNCHANGED <<templates, desk>>
    BY DEF Decide
  <1>2. \E event \in Event, detail \in Step \cup Deviation \cup {"operator"},
            status \in {"active", "awaiting_gate"} \cup Terminal :
          Record(i, event, detail, status)
    <2>1. CASE \E s \in Step, v \in {"gate.approved", "gate.rejected"} : ResolveGate(i, s, v)
      BY <2>1 DEF ResolveGate, Event
    <2>2. CASE \E d \in Deviation : FlagDeviation(i, d)
      BY <2>2 DEF FlagDeviation, Event
    <2>3. CASE \E v \in {"deviation.approved", "deviation.rejected"} : ResolveDeviation(i, v)
      BY <2>3 DEF ResolveDeviation, Event
    <2>4. CASE RecordOverride(i) \/ CompleteInstance(i) \/ AbandonInstance(i)
      BY <2>4 DEF RecordOverride, CompleteInstance, AbandonInstance, Event, Terminal
    <2>5. QED
      BY <2>1, <2>2, <2>3, <2>4 DEF Decide
  <1>3. InstancesTyped' /\ Kept
    BY <1>1, <1>2, RecordKeeps DEF ProcessInv
  <1>4. TemplatesTyped' /\ DeskTyped'
    BY <1>1 DEF ProcessInv, TemplatesTyped, DeskTyped, OnRecord
  <1>5. QED
    BY <1>3, <1>4 DEF ProcessInv

\* Whatever operators do, the types of processes hold and no instance loses anything.
LEMMA ProcessStep ==
  ASSUME ProcessInv, ProcessNext
  PROVE  ProcessInv' /\ Kept
  <1>1. CASE \E o \in Operator, op \in {"revise", "evolve", "start"} : Read(o, op)
    BY <1>1, ReadKeeps
  <1>2. CASE \E o \in Operator : Revise(o)
    BY <1>2, ReviseKeeps
  <1>3. CASE \E o \in Operator : Start(o)
    BY <1>3, StartKeeps
  <1>4. CASE \E i \in Instance : Decide(i)
    BY <1>4, DecideKeeps
  <1>5. QED
    BY <1>1, <1>2, <1>3, <1>4 DEF ProcessNext

\* A gate that a request reaches is recorded, whatever the status of the instance.
LEMMA GateKeeps ==
  ASSUME ProcessInv, NEW i \in Instance, NEW step \in Step, ReachGate(i, step),
         UNCHANGED <<templates, desk>>
  PROVE  /\ ProcessInv' /\ Kept
         /\ \E k \in DOMAIN instances'[i].trace :
               instances'[i].trace[k] = <<"gate.reached", step>>
  <1>1. /\ InstancesTyped' /\ Kept
        /\ \E k \in DOMAIN instances'[i].trace :
              instances'[i].trace[k] = <<"gate.reached", step>>
    BY RecordKeeps DEF ProcessInv, ReachGate, Event
  <1>2. TemplatesTyped' /\ DeskTyped'
    BY DEF ProcessInv, TemplatesTyped, DeskTyped, OnRecord
  <1>3. QED
    BY <1>1, <1>2 DEF ProcessInv

\* The template begins with one version.
LEMMA ProcessStart ==
  ASSUME ProcessInit
  PROVE  ProcessInv
  <1>1. PICK c \in Content :
          /\ templates = <<[version |-> 1, content |-> c]>>
          /\ instances \in {<<>>, <<NewInstance(1, c, 0, {})>>}
          /\ desk = [o \in Operator |-> Idle]
    BY DEF ProcessInit
  <1>2. TemplatesTyped
    <2>1. [version |-> 1, content |-> c] \in Template
      BY DEF Template
    <2>2. QED
      BY <1>1, <2>1, ProcessAssumption DEF TemplatesTyped
  <1>3. NewInstance(1, c, 0, {}) \in InstanceRow
    <2>1. <<>> \in Seq(Event \X (Step \cup Deviation \cup {"operator"}))
      OBVIOUS
    <2>2. QED
      BY <2>1 DEF NewInstance, InstanceRow
  <1>4. InstancesTyped
    <2>1. CASE instances = <<>>
      BY <2>1 DEF InstancesTyped, Instance
    <2>2. CASE instances = <<NewInstance(1, c, 0, {})>>
      <3> DEFINE new == NewInstance(1, c, 0, {})
      <3>1. new.version = 1 /\ new.content = c /\ new.started = 0
        BY DEF NewInstance
      <3> HIDE DEF new
      <3>2. instances = <<new>>
        BY <2>2 DEF new
      <3>3. DOMAIN instances = {1} /\ instances[1] = new
        BY <3>2
      <3>4. instances \in Seq(InstanceRow)
        BY <1>3, <3>2 DEF new
      <3>5. OnRecord(1, c)
        BY <1>1 DEF OnRecord
      <3>6. \A i \in Instance : instances[i].started <= 0
        BY <3>1, <3>3 DEF Instance
      <3>7. QED
        BY <3>1, <3>3, <3>4, <3>5, <3>6 DEF InstancesTyped, Instance
    <2>3. QED
      BY <1>1, <2>1, <2>2
  <1>5. DeskTyped
    BY <1>1 DEF DeskTyped
  <1>6. QED
    BY <1>2, <1>4, <1>5 DEF ProcessInv

(* Requests beside each other *)

\* What a request has itself stays as it is.
Same(r) ==
    /\ pc'[r] = pc[r] /\ proc'[r] = proc[r] /\ ctl'[r] = ctl[r] /\ aim'[r] = aim[r]
    /\ list'[r] = list[r] /\ works'[r] = works[r] /\ told'[r] = told[r] /\ valid'[r] = valid[r]
    /\ asked'[r] = asked[r] /\ result'[r] = result[r] /\ trigger'[r] = trigger[r]

\* What others do to instances does not touch what a request knows.
LEMMA HeldStays ==
  ASSUME NEW r, Held(r), Kept, proc'[r] = proc[r], ctl'[r] = ctl[r], aim'[r] = aim[r]
  PROVE  {proc'[r], ctl'[r], aim'[r]} \subseteq {0} \cup Instance'
  BY DEF Held, Kept, Instance

\* The content that a request is assessed under stays.
LEMMA ContentStays ==
  ASSUME NEW r, Held(r), Kept, ctl[r] # 0
  PROVE  /\ ctl[r] \in Instance /\ ctl[r] \in DOMAIN instances'
         /\ instances'[ctl[r]].content = instances[ctl[r]].content
  BY DEF Held, Kept

\* So do the answers to what the planner was asked.
LEMMA AnsweredStays ==
  ASSUME NEW r, Held(r), Kept, Answered(r), ctl'[r] = ctl[r],
         asked'[r] = asked[r],
         \A k \in DOMAIN asked[r] : works'[r][k].brought = works[r][k].brought
  PROVE  Answered(r)'
  <1>1. ASSUME NEW k \in DOMAIN asked[r]
        PROVE  asked[r][k].missing
                 = IF ctl[r] = 0 THEN {}
                   ELSE IF /\ Drifting(works'[r][k].brought, instances'[ctl[r]].content)
                           /\ instances'[ctl[r]].content.onDrift \in {"reanchor", "reanchor_then_gate"}
                        THEN NotMet(works'[r][k].brought) ELSE {}
    <2>1. asked[r][k].missing = Missing(works[r][k].brought, ctl[r])
      BY DEF Answered
    <2>2. CASE ctl[r] = 0
      BY <2>1, <2>2 DEF Missing
    <2>3. CASE ctl[r] # 0
      BY <2>1, <2>3, ContentStays DEF Missing
    <2>4. QED
      BY <2>2, <2>3
  <1>2. QED
    BY <1>1 DEF Answered, Missing

\* A request keeps what it knows while others act.
LEMMA OthersKeep ==
  ASSUME NEW r \in Request, RequestInv(r), Kept, Same(r)
  PROVE  RequestInv(r)'
  <1>1. Held(r)'
    BY HeldStays DEF RequestInv, Same, Held
  <1>2. Counted(r)' /\ Heeded(r)'
    BY DEF RequestInv, Same, Counted, Heeded
  <1>3. Assessed(r)'
    <2>1. SUFFICES ASSUME pc[r] \in {"revise", "proposed", "gate"}, ctl[r] # 0
                   PROVE  valid'[r] = Assess(ctl[r], works[r][Len(works[r])].brought)'
      BY DEF Assessed, Same
    <2>2. valid[r] = Assess(ctl[r], works[r][Len(works[r])].brought)
      BY <2>1 DEF RequestInv, Assessed
    <2>3. instances'[ctl[r]].content = instances[ctl[r]].content
      BY <2>1, ContentStays DEF RequestInv
    <2>4. QED
      BY <2>2, <2>3 DEF Assess, Same
  <1>4. Planned(r)'
    <2>1. pc[r] = "gate" => ShouldGate(r)'
      BY ContentStays DEF RequestInv, Planned, ShouldGate, Same
    <2>2. QED
      BY <2>1 DEF RequestInv, Planned, Same, Now
  <1>5. Settled(r)'
    <2>1. SUFFICES ASSUME pc[r] \in {"specialist", "done"}
                   PROVE  Settled(r)'
      BY DEF Settled, Same
    <2>2. ctl[r] # 0 => (Drifted(r)' <=> Drifted(r))
      BY ContentStays DEF RequestInv, Drifted, Same
    <2>3. ctl[r] # 0 /\ Raised(ctl[r]) => Raised(ctl[r])'
      BY ContentStays DEF RequestInv, Same, Raised, Kept
    <2>4. QED
      BY <2>1, <2>2, <2>3 DEF RequestInv, Settled, Same, Now
  <1>6. Answered(r)'
    BY AnsweredStays DEF RequestInv, Same
  <1>7. QED
    BY <1>1, <1>2, <1>3, <1>4, <1>5, <1>6 DEF RequestInv

\* A step of one request is a matter of what that request knows.
LEMMA RequestKeeps ==
  ASSUME Inv, NEW r \in Request, ProcessInv', Kept, Types', RequestInv(r)',
         \A q \in Request \ {r} : Same(q)
  PROVE  Inv'
  <1>1. ASSUME NEW q \in Request, q # r
        PROVE  RequestInv(q)'
    BY <1>1, OthersKeep DEF Inv
  <1>2. \A q \in Request : RequestInv(q)'
    BY <1>1
  <1>3. QED
    BY <1>2 DEF Inv

\* A step of a request that does not touch processes.
LEMMA ProcessStays ==
  ASSUME Inv, UNCHANGED <<templates, instances, desk>>
  PROVE  ProcessInv' /\ Kept
  <1>1. Kept
    BY NothingKept DEF Inv, ProcessInv
  <1>2. ProcessInv'
    BY DEF Inv, ProcessInv, TemplatesTyped, InstancesTyped, DeskTyped, OnRecord, Instance
  <1>3. QED
    BY <1>1, <1>2

\* The plan at hand, its revision and its parent.
LEMMA NowIsTyped ==
  ASSUME Types, NEW r \in Request, list[r] # <<>>
  PROVE  /\ Now(r) \in PlanRow /\ Len(list[r]) \in Nat \ {0}
         /\ Now(r).rev \in Nat /\ Now(r).parent \in Nat /\ Now(r).parent < Now(r).rev
         /\ Now(r).decision \in Decision /\ Now(r).special \in BOOLEAN
  <1>1. list[r] \in Seq(PlanRow)
    BY DEF Types
  <1>2. Len(list[r]) \in Nat \ {0} /\ Now(r) \in PlanRow
    BY <1>1, EmptySeq, LenProperties DEF Now
  <1>3. QED
    BY <1>2 DEF PlanRow

\* Saving a plan keeps the rows typed and bounded, and of the result but the warning.
LEMMA SaveKeeps ==
  ASSUME Types, NEW r \in Request, list[r] # <<>>, Save(r, Now(r))
  PROVE  /\ saved' \in [Request -> SUBSET SavedRow]
         /\ \A q \in Request : \E last \in Nat : \A s \in saved'[q] : s.rev <= last
         /\ result' \in [Request -> Result]
         /\ result'[r].specialist = result[r].specialist /\ result'[r].gate = result[r].gate
         /\ \A q \in Request \ {r} : result'[q] = result[q]
  <1> DEFINE new == Row(Now(r).rev, Now(r).parent, "request")
  <1>1. new \in SavedRow /\ new.rev = Now(r).rev /\ new.rev \in Nat
    BY NowIsTyped DEF Row, SavedRow
  <1> HIDE DEF new
  <1>2. CASE saved' = [saved EXCEPT ![r] = @ \cup {new}] /\ UNCHANGED result
    <2>1. saved' \in [Request -> SUBSET SavedRow]
      BY <1>1, <1>2 DEF Types
    <2>2. ASSUME NEW q \in Request
          PROVE  \E last \in Nat : \A s \in saved'[q] : s.rev <= last
      <3>1. PICK last \in Nat : \A s \in saved[q] : s.rev <= last
        BY DEF Types
      <3>2. CASE q = r
        <4> DEFINE later == last + new.rev
        <4>1. later \in Nat /\ last <= later /\ new.rev <= later
          BY <1>1
        <4>2. \A s \in saved[q] : s.rev \in Nat
          BY DEF Types, SavedRow
        <4> HIDE DEF later
        <4>3. \A s \in saved[q] : s.rev <= later
          BY <3>1, <4>1, <4>2
        <4>4. saved'[q] = saved[q] \cup {new}
          BY <1>2, <3>2 DEF Types
        <4>5. QED
          BY <4>1, <4>3, <4>4
      <3>3. CASE q # r
        BY <1>2, <3>1, <3>3 DEF Types
      <3>4. QED
        BY <3>2, <3>3
    <2>3. QED
      BY <1>2, <2>1, <2>2 DEF Types
  <1>3. CASE result' = [result EXCEPT ![r].warned = TRUE] /\ UNCHANGED saved
    <2>1. result[r] \in Result
      BY DEF Types
    <2>2. [result[r] EXCEPT !.warned = TRUE] \in Result
      BY <2>1 DEF Result
    <2>3. result' = [result EXCEPT ![r] = [result[r] EXCEPT !.warned = TRUE]]
      BY <1>3 DEF Types
    <2>4. result' \in [Request -> Result]
      BY <2>2, <2>3 DEF Types
    <2>5. result'[r] = [result[r] EXCEPT !.warned = TRUE]
      BY <2>3 DEF Types
    <2>6. QED
      BY <1>3, <2>1, <2>3, <2>4, <2>5 DEF Types, Result
  <1>4. QED
    BY <1>2, <1>3 DEF Save, new

(* The steps of a request *)

\* A request begins with a plan that asks to be executed, or ends at once.
LEMMA OpenKeeps ==
  ASSUME Inv, NEW r \in Request, Open(r)
  PROVE  Inv'
  <1>1. /\ pc[r] = "idle" /\ Types /\ RequestInv(r)
        /\ UNCHANGED <<processVars, setting, ctl, aim, saved, works, told, valid, asked, result,
                       trigger, outside>>
    BY DEF Open, Inv
  <1>2. ProcessInv' /\ Kept
    BY <1>1, ProcessStays DEF processVars
  <1>3. CASE setting.enabled
    <2>1. PICK special \in {FALSE} \cup {May("special")} :
            list' = [list EXCEPT ![r] = <<Plan(1, 0, "revise", special)>>]
      BY <1>3 DEF Open
    <2>2. proc' = [proc EXCEPT ![r] = Active] /\ pc' = [pc EXCEPT ![r] = "keep"]
      BY <1>3 DEF Open, Goto
    <2> DEFINE plan == Plan(1, 0, "revise", special)
    <2>3. plan \in PlanRow /\ plan.decision = "revise"
      <3>1. May("special") \in BOOLEAN
        BY DEF May
      <3>2. special \in BOOLEAN
        BY <2>1, <3>1
      <3>3. QED
        BY <3>2 DEF Plan, PlanRow, Decision
    <2> HIDE DEF plan
    <2>4. <<plan>> \in Seq(PlanRow) /\ Len(<<plan>>) = 1 /\ <<plan>>[1] = plan /\ <<plan>> # <<>>
      BY <2>3
    <2>5. list' = [list EXCEPT ![r] = <<plan>>]
      BY <2>1 DEF plan
    <2>6. Types'
      BY <1>1, <2>2, <2>4, <2>5 DEF Types, Place
    <2>7. \A q \in Request \ {r} : Same(q)
      BY <1>1, <2>2, <2>5 DEF Same, Types
    <2>8. pc'[r] = "keep" /\ list'[r] = <<plan>> /\ proc'[r] = Active
      BY <1>1, <2>2, <2>5 DEF Types
    <2>9. RequestInv(r)'
      <3>1. Held(r)'
        BY <1>1, <2>8, ActiveIsThere DEF RequestInv, Held, Fresh, Inv, ProcessInv, processVars, Instance
      <3>2. Counted(r)' /\ Assessed(r)' /\ Settled(r)'
        BY <1>1, <2>8 DEF RequestInv, Counted, Assessed, Settled, Fresh
      <3>3. Planned(r)'
        BY <1>1, <2>3, <2>4, <2>8 DEF RequestInv, Planned, Now
      <3>4. Answered(r)'
        BY <1>1, <1>2, AnsweredStays DEF RequestInv
      <3>5. Heeded(r)'
        BY <1>1, <2>8 DEF RequestInv, Heeded
      <3>6. QED
        BY <3>1, <3>2, <3>3, <3>4, <3>5 DEF RequestInv
    <2>10. QED
      BY <1>2, <2>6, <2>7, <2>9, RequestKeeps
  <1>4. CASE ~setting.enabled
    <2>1. pc' = [pc EXCEPT ![r] = "done"] /\ UNCHANGED <<proc, list>>
      BY <1>4 DEF Open, Goto
    <2>2. Types'
      BY <1>1, <2>1 DEF Types, Place
    <2>3. \A q \in Request \ {r} : Same(q)
      BY <1>1, <2>1 DEF Same, Types
    <2>4. pc'[r] = "done"
      BY <1>1, <2>1 DEF Types
    <2>5. RequestInv(r)'
      <3>1. Held(r)'
        BY <1>1, <2>1, <2>4 DEF RequestInv, Held, Fresh, processVars, Instance
      <3>2. Counted(r)' /\ Assessed(r)' /\ Planned(r)' /\ Heeded(r)'
        BY <1>1, <2>1, <2>4 DEF RequestInv, Counted, Assessed, Planned, Heeded, Fresh
      <3>3. Settled(r)'
        BY <1>1, <2>1, <2>4 DEF RequestInv, Held, Planned, Settled, Fresh
      <3>4. Answered(r)'
        BY <1>1, <1>2, AnsweredStays DEF RequestInv
      <3>5. QED
        BY <3>1, <3>2, <3>3, <3>4 DEF RequestInv
    <2>6. QED
      BY <1>2, <2>2, <2>3, <2>5, RequestKeeps
  <1>5. QED
    BY <1>3, <1>4

\* The plan is saved and takes its way.
LEMMA KeepKeeps ==
  ASSUME Inv, NEW r \in Request, Keep(r)
  PROVE  Inv'
  <1>1. /\ pc[r] = "keep" /\ Types /\ RequestInv(r) /\ list[r] # <<>> /\ Save(r, Now(r))
        /\ UNCHANGED <<processVars, setting, proc, ctl, aim, list, works, told, valid, asked,
                       trigger, outside>>
    BY DEF Keep, Inv, RequestInv, Planned
  <1>2. ProcessInv' /\ Kept
    BY <1>1, ProcessStays DEF processVars
  <1>3. PICK to \in {"failed", "framed", "run", "execute"} : pc' = [pc EXCEPT ![r] = to]
    BY DEF Keep, Goto
  <1>4. Types'
    BY <1>1, <1>3, SaveKeeps DEF Types, Place
  <1>5. \A q \in Request \ {r} : Same(q)
    BY <1>1, <1>3, SaveKeeps DEF Same, Types
  <1>6. pc'[r] = to
    BY <1>1, <1>3 DEF Types
  <1>7. result'[r].specialist = result[r].specialist /\ result'[r].gate = result[r].gate
    BY <1>1, SaveKeeps
  <1>8. RequestInv(r)'
    <2>1. Held(r)'
      BY <1>1, <1>3, <1>6 DEF RequestInv, Held, Fresh, processVars, Instance
    <2>2. Counted(r)' /\ Assessed(r)' /\ Settled(r)'
      BY <1>1, <1>3, <1>6 DEF RequestInv, Counted, Assessed, Settled, Fresh
    <2>3. Planned(r)'
      BY <1>1, <1>3, <1>6, <1>7 DEF RequestInv, Planned, Now
    <2>4. Answered(r)'
      BY <1>1, <1>2, AnsweredStays DEF RequestInv
    <2>5. Heeded(r)'
      BY <1>1, <1>6, <1>7 DEF RequestInv, Heeded
    <2>6. QED
      BY <2>1, <2>2, <2>3, <2>4, <2>5 DEF RequestInv
  <1>9. QED
    BY <1>2, <1>4, <1>5, <1>8, RequestKeeps

\* A crystallised plan is not executed.
LEMMA FramedKeeps ==
  ASSUME Inv, NEW r \in Request, Framed(r)
  PROVE  Inv'
  <1>1. /\ pc[r] = "framed" /\ Types /\ RequestInv(r)
        /\ pc' = [pc EXCEPT ![r] = "specialist"]
        /\ UNCHANGED <<processVars, setting, proc, ctl, aim, list, saved, works, told, valid,
                       asked, result, trigger, outside>>
    BY DEF Framed, Goto, Inv
  <1>2. ProcessInv' /\ Kept
    BY <1>1, ProcessStays DEF processVars
  <1>3. Types' /\ pc'[r] = "specialist"
    BY <1>1 DEF Types, Place
  <1>4. \A q \in Request \ {r} : Same(q)
    BY <1>1 DEF Same, Types
  <1>5. RequestInv(r)'
    <2>1. Held(r)'
      BY <1>1, <1>3 DEF RequestInv, Held, Fresh, processVars, Instance
    <2>2. Counted(r)' /\ Assessed(r)' /\ Planned(r)' /\ Heeded(r)'
      BY <1>1, <1>3 DEF RequestInv, Counted, Assessed, Planned, Heeded, Fresh
    <2>3. Settled(r)'
      BY <1>1, <1>3 DEF RequestInv, Held, Planned, Settled, Fresh
    <2>4. Answered(r)'
      BY <1>1, <1>2, AnsweredStays DEF RequestInv
    <2>5. QED
      BY <2>1, <2>2, <2>3, <2>4 DEF RequestInv
  <1>6. QED
    BY <1>2, <1>3, <1>4, <1>5, RequestKeeps

\* Without the interpreter there is no controller, and no gate.
LEMMA KeepRevisionKeeps ==
  ASSUME Inv, NEW r \in Request, KeepRevision(r)
  PROVE  Inv'
  <1>1. /\ pc[r] = "keepRevision" /\ Types /\ RequestInv(r) /\ list[r] # <<>> /\ Save(r, Now(r))
        /\ pc' = [pc EXCEPT ![r] = "specialist"]
        /\ UNCHANGED <<processVars, setting, proc, ctl, aim, list, works, told, valid, asked,
                       trigger, outside>>
    BY DEF KeepRevision, Goto, Inv, RequestInv, Planned
  <1>2. ProcessInv' /\ Kept
    BY <1>1, ProcessStays DEF processVars
  <1>3. Types' /\ pc'[r] = "specialist"
    BY <1>1, SaveKeeps DEF Types, Place
  <1>4. \A q \in Request \ {r} : Same(q)
    BY <1>1, SaveKeeps DEF Same, Types
  <1>5. result'[r].specialist = result[r].specialist /\ result'[r].gate = result[r].gate
    BY <1>1, SaveKeeps
  <1>6. RequestInv(r)'
    <2>1. Held(r)'
      BY <1>1, <1>3 DEF RequestInv, Held, Fresh, processVars, Instance
    <2>2. Counted(r)' /\ Assessed(r)' /\ Planned(r)' /\ Heeded(r)'
      BY <1>1, <1>3, <1>5 DEF RequestInv, Counted, Assessed, Planned, Heeded, Fresh
    <2>3. Settled(r)'
      BY <1>1, <1>3, <1>5 DEF RequestInv, Held, Planned, Settled
    <2>4. Answered(r)'
      BY <1>1, <1>2, AnsweredStays DEF RequestInv
    <2>5. QED
      BY <2>1, <2>2, <2>3, <2>4 DEF RequestInv
  <1>7. QED
    BY <1>2, <1>3, <1>4, <1>6, RequestKeeps

\* One execution and one question about it, in which nothing is re-anchored.
LEMMA ExecuteKeeps ==
  ASSUME Inv, NEW r \in Request, Execute(r)
  PROVE  Inv'
  <1>1. /\ pc[r] = "execute" /\ Types /\ RequestInv(r) /\ list[r] # <<>>
        /\ UNCHANGED <<processVars, setting, proc, ctl, aim, saved, told, valid, result, trigger,
                       outside>>
    BY DEF Execute, Inv, RequestInv, Planned
  <1>2. ProcessInv' /\ Kept
    BY <1>1, ProcessStays DEF processVars
  <1>3. ctl[r] = 0 /\ ctl'[r] = 0 /\ result'[r] = result[r] /\ ~result[r].gate
    BY <1>1 DEF RequestInv, Held, Planned, Fresh
  <1>4. CASE pc' = [pc EXCEPT ![r] = "failed"] /\ UNCHANGED <<list, asked, works>>
    <2>1. Types' /\ pc'[r] = "failed"
      BY <1>1, <1>4 DEF Types, Place
    <2>2. \A q \in Request \ {r} : Same(q)
      BY <1>1, <1>4 DEF Same, Types
    <2>3. Held(r)'
      BY <1>1, <1>4, <2>1 DEF RequestInv, Held, Fresh, processVars, Instance
    <2>4. Counted(r)' /\ Assessed(r)' /\ Planned(r)' /\ Heeded(r)' /\ Settled(r)'
      BY <1>1, <1>4, <2>1 DEF RequestInv, Counted, Assessed, Planned, Heeded, Settled, Fresh
    <2>5. Answered(r)'
      BY <1>1, <1>2, <1>4, AnsweredStays DEF RequestInv
    <2>6. QED
      BY <1>2, <2>1, <2>2, <2>3, <2>4, <2>5, RequestKeeps DEF RequestInv
  <1>5. CASE \E w \in Works, d \in Decision :
               /\ works' = [works EXCEPT ![r] = <<[brought |-> w, specialist |-> FALSE]>>]
               /\ IF setting.max > 1
                  THEN /\ asked' = [asked EXCEPT ![r] = <<[run |-> 1, missing |-> {}]>>]
                       /\ list' = [list EXCEPT ![r] = Append(@, Plan(2, 1, d, Now(r).special))]
                       /\ Goto(r, "keepRevision")
                  ELSE Goto(r, "specialist") /\ UNCHANGED <<asked, list>>
    <2>1. PICK w \in Works, d \in Decision :
               /\ works' = [works EXCEPT ![r] = <<[brought |-> w, specialist |-> FALSE]>>]
               /\ IF setting.max > 1
                  THEN /\ asked' = [asked EXCEPT ![r] = <<[run |-> 1, missing |-> {}]>>]
                       /\ list' = [list EXCEPT ![r] = Append(@, Plan(2, 1, d, Now(r).special))]
                       /\ Goto(r, "keepRevision")
                  ELSE Goto(r, "specialist") /\ UNCHANGED <<asked, list>>
      BY <1>5
    <2> DEFINE e == [brought |-> w, specialist |-> FALSE]
               plan == Plan(2, 1, d, Now(r).special)
               ask == [run |-> 1, missing |-> {}]
    <2>2. e \in Execution /\ e.specialist = FALSE
      BY DEF Execution
    <2>3. plan \in PlanRow
      BY <1>1, NowIsTyped DEF Plan, PlanRow
    <2>4. ask \in AskRow /\ ask.run = 1 /\ ask.missing = {}
      BY DEF AskRow
    <2> HIDE DEF e, plan, ask
    <2>5. /\ <<e>> \in Seq(Execution) /\ Len(<<e>>) = 1 /\ DOMAIN <<e>> = {1} /\ <<e>>[1] = e
          /\ <<ask>> \in Seq(AskRow)
          /\ Len(<<ask>>) = 1 /\ DOMAIN <<ask>> = {1} /\ <<ask>>[1] = ask
      BY <2>2, <2>4
    <2>6. works' = [works EXCEPT ![r] = <<e>>] /\ works'[r] = <<e>>
      BY <1>1, <2>1 DEF e, Types
    <2>7. told[r] = 0
      BY <1>1 DEF RequestInv, Counted, Fresh, Types
    <2>8. Held(r)' \/ pc'[r] = "await"
      BY <1>1, <1>3 DEF RequestInv, Held, processVars, Instance
    <2>9. CASE setting.max > 1
      <3>1. /\ asked' = [asked EXCEPT ![r] = <<ask>>]
            /\ list' = [list EXCEPT ![r] = Append(@, plan)]
            /\ pc' = [pc EXCEPT ![r] = "keepRevision"]
        BY <2>1, <2>9 DEF ask, plan, Goto
      <3>2. list[r] \in Seq(PlanRow)
        BY DEF Inv, Types
      <3>3. Append(list[r], plan) \in Seq(PlanRow) /\ Append(list[r], plan) # <<>>
        BY <2>3, <3>2, AppendProperties
      <3>4. /\ asked'[r] = <<ask>> /\ list'[r] = Append(list[r], plan)
            /\ pc'[r] = "keepRevision"
        BY <1>1, <3>1 DEF Types
      <3>5. Types'
        <4>1. list' \in [Request -> Seq(PlanRow)]
          BY <1>1, <3>1, <3>3 DEF Types
        <4>2. asked' \in [Request -> Seq(AskRow)]
          BY <1>1, <2>5, <3>1 DEF Types
        <4>3. works' \in [Request -> Seq(Execution)] /\ pc' \in [Request -> Place]
          BY <1>1, <2>5, <2>6, <3>1 DEF Types, Place
        <4>4. QED
          BY <1>1, <4>1, <4>2, <4>3 DEF Types
      <3>6. \A q \in Request \ {r} : Same(q)
        BY <1>1, <2>6, <3>1 DEF Same, Types
      <3>7. Counted(r)' /\ Assessed(r)' /\ Settled(r)'
        <4>1. told'[r] = 0 /\ Len(works'[r]) = 1 /\ Len(asked'[r]) = 1
          BY <1>1, <2>5, <2>6, <2>7, <3>4
        <4>2. QED
          BY <3>4, <4>1 DEF Counted, Assessed, Settled, Fresh
      <3>8. Planned(r)'
        BY <1>1, <3>3, <3>4 DEF RequestInv, Planned
      <3>9. Answered(r)'
        BY <1>3, <2>4, <2>5, <3>4 DEF Answered, Missing
      <3>10. Heeded(r)'
        BY <1>1, <2>2, <2>5, <2>6, <3>4 DEF RequestInv, Heeded
      <3>11. Held(r)'
        BY <2>8, <3>4
      <3>12. QED
        BY <1>2, <3>5, <3>6, <3>7, <3>8, <3>9, <3>10, <3>11, RequestKeeps DEF RequestInv
    <2>10. CASE ~(setting.max > 1)
      <3>1. pc' = [pc EXCEPT ![r] = "specialist"] /\ UNCHANGED <<asked, list>>
        BY <2>1, <2>10 DEF Goto
      <3>2. pc'[r] = "specialist" /\ asked[r] = <<>>
        BY <1>1, <3>1 DEF Types, RequestInv, Counted, Fresh
      <3>3. Types'
        <4>1. works' \in [Request -> Seq(Execution)] /\ pc' \in [Request -> Place]
          BY <1>1, <2>5, <2>6, <3>1 DEF Types, Place
        <4>2. QED
          BY <1>1, <3>1, <4>1 DEF Types
      <3>4. \A q \in Request \ {r} : Same(q)
        BY <1>1, <2>6, <3>1 DEF Same, Types
      <3>5. Counted(r)' /\ Assessed(r)'
        BY <1>1, <2>5, <2>6, <2>7, <3>1, <3>2 DEF Counted, Assessed, Fresh
      <3>6. Planned(r)' /\ Settled(r)'
        BY <1>1, <1>3, <3>1, <3>2 DEF RequestInv, Planned, Settled
      <3>7. Answered(r)'
        BY <3>1, <3>2 DEF Answered
      <3>8. Heeded(r)'
        BY <1>1, <2>2, <2>5, <2>6, <3>2 DEF RequestInv, Heeded
      <3>9. Held(r)'
        BY <2>8, <3>2
      <3>10. QED
        BY <1>2, <3>3, <3>4, <3>5, <3>6, <3>7, <3>8, <3>9, RequestKeeps DEF RequestInv
    <2>11. QED
      BY <2>9, <2>10
  <1>6. QED
    BY <1>4, <1>5 DEF Execute, Goto

\* A plan that was revised in the middle of its execution takes the place of the old one.
LEMMA MidStepTyped ==
  ASSUME Types, NEW r \in Request, list[r] # <<>>, Now(r).decision = "revise", NEW mid \in Nat,
         list' = [list EXCEPT ![r][Len(list[r])] =
                    IF mid = 0 THEN @ ELSE Plan(@.rev + mid, @.rev + mid - 1, "revise", @.special)]
  PROVE  /\ list' \in [Request -> Seq(PlanRow)]
         /\ list'[r] # <<>> /\ list'[r][Len(list'[r])].decision = "revise"
         /\ \A q \in Request \ {r} : list'[q] = list[q]
  <1> DEFINE n == Len(list[r])
             plan == IF mid = 0 THEN Now(r)
                     ELSE Plan(Now(r).rev + mid, Now(r).rev + mid - 1, "revise", Now(r).special)
             new == [list[r] EXCEPT ![n] = plan]
  <1>1. list[r] \in Seq(PlanRow) /\ n \in Nat \ {0} /\ n \in 1 .. n
    BY NowIsTyped DEF Types
  <1>2. plan \in PlanRow /\ plan.decision = "revise"
    <2>1. CASE mid = 0
      BY <2>1, NowIsTyped
    <2>2. CASE mid # 0
      <3>1. Now(r).rev + mid \in Nat /\ Now(r).rev + mid - 1 \in Nat
            /\ Now(r).rev + mid - 1 < Now(r).rev + mid /\ Now(r).special \in BOOLEAN
        BY <2>2, NowIsTyped
      <3>2. QED
        BY <2>2, <3>1 DEF Plan, PlanRow, Decision
    <2>3. QED
      BY <2>1, <2>2
  <1>3. list' = [list EXCEPT ![r] = new]
    BY DEF Now
  <1> HIDE DEF plan
  <1>4. new \in Seq(PlanRow) /\ Len(new) = n /\ new[n] = plan
    <2>1. DOMAIN new = 1 .. n
      BY <1>1
    <2>2. QED
      BY <1>1, <1>2, <2>1, ExceptSeq
  <1> HIDE DEF new, n
  <1>5. list' \in [Request -> Seq(PlanRow)] /\ list'[r] = new
    BY <1>3, <1>4 DEF Types
  <1>6. new # <<>>
    BY <1>1, <1>4
  <1>7. QED
    BY <1>2, <1>3, <1>4, <1>5, <1>6 DEF Types

\* An execution is one more than the planner has been told of.
LEMMA InterpretKeeps ==
  ASSUME Inv, NEW r \in Request, Interpret(r)
  PROVE  Inv'
  <1>1. /\ pc[r] = "run" /\ Types /\ RequestInv(r) /\ list[r] # <<>> /\ Now(r).decision = "revise"
        /\ UNCHANGED <<processVars, setting, proc, ctl, saved, told, valid, asked, trigger, outside>>
    BY DEF Interpret, Inv, RequestInv, Planned
  <1>2. ProcessInv' /\ Kept
    BY <1>1, ProcessStays DEF processVars
  <1>3. CASE pc' = [pc EXCEPT ![r] = "failed"] /\ UNCHANGED <<list, works, aim, result>>
    <2>1. Types' /\ pc'[r] = "failed"
      BY <1>1, <1>3 DEF Types, Place
    <2>2. \A q \in Request \ {r} : Same(q)
      BY <1>1, <1>3 DEF Same, Types
    <2>3. Held(r)'
      BY <1>1, <1>3, <2>1 DEF RequestInv, Held, Fresh, processVars, Instance
    <2>4. Counted(r)' /\ Assessed(r)' /\ Planned(r)' /\ Heeded(r)' /\ Settled(r)'
      BY <1>1, <1>3, <2>1 DEF RequestInv, Counted, Assessed, Planned, Heeded, Settled, Fresh
    <2>5. Answered(r)'
      BY <1>1, <1>2, <1>3, AnsweredStays DEF RequestInv
    <2>6. QED
      BY <1>2, <2>1, <2>2, <2>3, <2>4, <2>5, RequestKeeps DEF RequestInv
  <1>4. ASSUME NEW w \in Works, NEW mid \in Nat, NEW success \in BOOLEAN,
               works' = [works EXCEPT ![r] = Append(@, [brought |-> w, specialist |-> success])],
               list' = [list EXCEPT ![r][Len(list[r])] =
                    IF mid = 0 THEN @
                    ELSE Plan(@.rev + mid, @.rev + mid - 1, "revise", @.special)],
               result' = [result EXCEPT ![r].specialist = @ \/ success],
               \/ pc' = [pc EXCEPT ![r] = "ran"] /\ UNCHANGED aim
               \/ /\ Active # 0
                  /\ aim' = [aim EXCEPT ![r] = Active]
                  /\ pc' = [pc EXCEPT ![r] = "await"]
        PROVE  Inv'
    <2> DEFINE e == [brought |-> w, specialist |-> success]
               n == Len(works[r])
    <2>1. e \in Execution /\ e.specialist = success
      BY DEF Execution
    <2>2. works[r] \in Seq(Execution) /\ n \in Nat /\ DOMAIN works[r] = 1 .. n
      BY <1>1 DEF Types
    <2> HIDE DEF e
    <2>3. works' = [works EXCEPT ![r] = Append(works[r], e)] /\ works'[r] = Append(works[r], e)
      BY <1>1, <1>4 DEF e, Types
    <2>4. /\ works'[r] \in Seq(Execution) /\ Len(works'[r]) = n + 1
          /\ DOMAIN works'[r] = 1 .. n + 1
          /\ \A k \in 1 .. n : works'[r][k] = works[r][k]
          /\ works'[r][n + 1] = e
      BY <2>1, <2>2, <2>3, AppendProperties
    <2>5. /\ list' \in [Request -> Seq(PlanRow)]
          /\ list'[r] # <<>> /\ list'[r][Len(list'[r])].decision = "revise"
          /\ \A q \in Request \ {r} : list'[q] = list[q]
      BY <1>1, <1>4, MidStepTyped
    <2>6. /\ result' \in [Request -> Result]
          /\ result'[r].specialist = (result[r].specialist \/ success)
          /\ result'[r].gate = result[r].gate
          /\ \A q \in Request \ {r} : result'[q] = result[q]
      <3>1. result[r] \in Result
        BY <1>1 DEF Types
      <3> DEFINE new == [result[r] EXCEPT !.specialist = @ \/ success]
      <3>2. new \in Result /\ new.specialist = (result[r].specialist \/ success)
            /\ new.gate = result[r].gate
        BY <3>1 DEF Result
      <3>3. result' = [result EXCEPT ![r] = new]
        BY <1>1, <1>4 DEF Types
      <3> HIDE DEF new
      <3>4. QED
        BY <1>1, <3>2, <3>3 DEF Types
    <2>7. /\ pc'[r] \in {"ran", "await"} /\ pc' \in [Request -> Place]
          /\ \A q \in Request \ {r} : pc'[q] = pc[q] /\ aim'[q] = aim[q]
          /\ DOMAIN aim' = Request
      BY <1>1, <1>4 DEF Types, Place
    <2>8. Types'
      <3>1. works' \in [Request -> Seq(Execution)]
        BY <1>1, <2>3, <2>4 DEF Types
      <3>2. \A q \in Request : \E last \in Nat : \A s \in saved'[q] : s.rev <= last
        BY <1>1 DEF Types
      <3>3. DOMAIN valid' = Request /\ \A q \in Request : valid'[q].missing \subseteq Outcome
        BY <1>1 DEF Types
      <3>4. /\ setting' \in Setting /\ DOMAIN proc' = Request /\ DOMAIN ctl' = Request
            /\ saved' \in [Request -> SUBSET SavedRow] /\ told' \in [Request -> Nat]
            /\ asked' \in [Request -> Seq(AskRow)]
            /\ DOMAIN trigger' = Request /\ outside' \in [Request -> Nat]
        BY <1>1 DEF Types
      <3>5. /\ list' \in [Request -> Seq(PlanRow)] /\ result' \in [Request -> Result]
            /\ pc' \in [Request -> Place] /\ DOMAIN aim' = Request
        BY <2>5, <2>6, <2>7
      <3>6. QED
        BY <3>1, <3>2, <3>3, <3>4, <3>5 DEF Types
    <2>9. \A q \in Request \ {r} : Same(q)
      BY <1>1, <2>3, <2>5, <2>6, <2>7 DEF Same, Types
    <2>10. Held(r)'
      <3>1. \/ aim'[r] = aim[r] /\ pc'[r] = "ran"
            \/ aim'[r] = Active /\ Active # 0
        BY <1>1, <1>4 DEF Types
      <3>2. Active \in {0} \cup Instance
        BY ActiveIsThere DEF Inv, ProcessInv
      <3>3. aim'[r] \in {0} \cup Instance /\ (pc'[r] = "await" => aim'[r] # 0)
        BY <1>1, <3>1, <3>2 DEF RequestInv, Held
      <3>4. QED
        BY <1>1, <2>7, <3>3 DEF RequestInv, Held, Fresh, processVars, Instance
    <2>11. Counted(r)'
      <3>1. Len(asked[r]) = n /\ told[r] <= n /\ told[r] \in Nat
        BY <1>1 DEF RequestInv, Counted, Types
      <3> HIDE DEF n
      <3>2. told[r] <= n + 1 /\ n <= n + 1 /\ n \in Nat
        BY <2>2, <3>1
      <3>3. QED
        BY <1>1, <2>4, <2>7, <3>1, <3>2 DEF Counted, Fresh
    <2>12. Assessed(r)' /\ Settled(r)'
      BY <2>7 DEF Assessed, Settled
    <2>13. Planned(r)'
      BY <1>1, <2>5, <2>6, <2>7 DEF RequestInv, Planned, Now
    <2>14. Answered(r)'
      <3>1. DOMAIN asked[r] = 1 .. n
        BY <1>1 DEF RequestInv, Counted, Types
      <3>2. \A k \in DOMAIN asked[r] : works'[r][k].brought = works[r][k].brought
        BY <2>4, <3>1
      <3>3. QED
        BY <1>1, <1>2, <3>2, AnsweredStays DEF RequestInv
    <2>15. Heeded(r)'
      <3>1. \A k \in 1 .. n : works[r][k].specialist => result[r].specialist
        BY <1>1, <2>2 DEF RequestInv, Heeded
      <3>2. ~trigger'[r]
        BY <1>1 DEF RequestInv, Heeded
      <3> HIDE DEF n
      <3>3. ASSUME NEW k \in 1 .. n + 1, works'[r][k].specialist
            PROVE  result'[r].specialist
        <4>1. CASE k = n + 1
          BY <2>1, <2>4, <2>6, <3>3, <4>1
        <4>2. CASE k # n + 1
          <5>1. k \in 1 .. n
            BY <2>2, <4>2
          <5>2. QED
            BY <2>4, <2>6, <3>1, <3>3, <5>1
        <4>3. QED
          BY <4>1, <4>2
      <3>4. QED
        BY <2>4, <3>2, <3>3 DEF Heeded
    <2>16. QED
      BY <1>2, <2>8, <2>9, <2>10, <2>11, <2>12, <2>13, <2>14, <2>15, RequestKeeps DEF RequestInv
  <1>5. CASE \E w \in Works, mid \in 0 .. IF May("mid") THEN MaxMid ELSE 0,
                success \in {FALSE} \cup {Now(r).special} :
               /\ works' = [works EXCEPT ![r] =
                       Append(@, [brought |-> w, specialist |-> success])]
               /\ list' = [list EXCEPT ![r][Len(list[r])] =
                       IF mid = 0 THEN @
                       ELSE Plan(@.rev + mid, @.rev + mid - 1, "revise", @.special)]
               /\ result' = [result EXCEPT ![r].specialist = @ \/ success]
               /\ \/ pc' = [pc EXCEPT ![r] = "ran"] /\ UNCHANGED aim
                  \/ /\ May("await") /\ Active # 0
                     /\ aim' = [aim EXCEPT ![r] = Active]
                     /\ pc' = [pc EXCEPT ![r] = "await"]
    <2>1. PICK w \in Works, mid \in 0 .. IF May("mid") THEN MaxMid ELSE 0,
                success \in {FALSE} \cup {Now(r).special} :
               /\ works' = [works EXCEPT ![r] =
                       Append(@, [brought |-> w, specialist |-> success])]
               /\ list' = [list EXCEPT ![r][Len(list[r])] =
                       IF mid = 0 THEN @
                       ELSE Plan(@.rev + mid, @.rev + mid - 1, "revise", @.special)]
               /\ result' = [result EXCEPT ![r].specialist = @ \/ success]
               /\ \/ pc' = [pc EXCEPT ![r] = "ran"] /\ UNCHANGED aim
                  \/ /\ May("await") /\ Active # 0
                     /\ aim' = [aim EXCEPT ![r] = Active]
                     /\ pc' = [pc EXCEPT ![r] = "await"]
      BY <1>5
    <2>2. mid \in Nat
      OBVIOUS
    <2>3. success \in BOOLEAN
      BY <1>1, NowIsTyped
    <2>4. QED
      BY <1>4, <2>1, <2>2, <2>3
  <1>6. QED
    BY <1>3, <1>5 DEF Interpret, Goto

\* The gate of an AWAIT step leaves the counts as they are.
LEMMA AwaitGateKeeps ==
  ASSUME Inv, NEW r \in Request, AwaitGate(r)
  PROVE  Inv'
  <1>1. /\ pc[r] = "await" /\ Types /\ RequestInv(r) /\ ReachGate(aim[r], "await")
        /\ pc' = [pc EXCEPT ![r] = "ran"]
        /\ UNCHANGED <<templates, desk, acts, setting, proc, ctl, aim, list, saved, works, told,
                       valid, asked, result, trigger, outside>>
    BY DEF AwaitGate, Goto, Inv
  <1>2. ProcessInv' /\ Kept
    <2>1. aim[r] \in Instance
      BY <1>1 DEF RequestInv, Held
    <2>2. QED
      BY <1>1, <2>1, GateKeeps DEF Inv, Step
  <1>3. Types' /\ pc'[r] = "ran"
    BY <1>1 DEF Types, Place
  <1>4. \A q \in Request \ {r} : Same(q)
    BY <1>1 DEF Same, Types
  <1>5. RequestInv(r)'
    <2>1. {proc'[r], ctl'[r], aim'[r]} \subseteq {0} \cup Instance'
      BY <1>1, <1>2, HeldStays DEF RequestInv
    <2>2. Held(r)'
      BY <1>3, <2>1 DEF Held, Fresh
    <2>3. Counted(r)' /\ Assessed(r)' /\ Settled(r)' /\ Planned(r)' /\ Heeded(r)'
      BY <1>1, <1>3 DEF RequestInv, Counted, Assessed, Settled, Planned, Heeded, Fresh, Now
    <2>4. Answered(r)'
      BY <1>1, <1>2, AnsweredStays DEF RequestInv
    <2>5. QED
      BY <2>2, <2>3, <2>4 DEF RequestInv
  <1>6. QED
    BY <1>2, <1>3, <1>4, <1>5, RequestKeeps

\* The controller is looked up once and assesses the last execution.
LEMMA RanKeeps ==
  ASSUME Inv, NEW r \in Request, Ran(r)
  PROVE  Inv'
  <1>1. /\ pc[r] = "ran" /\ Types /\ RequestInv(r) /\ list[r] # <<>> /\ Save(r, Now(r))
        /\ pc' = [pc EXCEPT ![r] = "revise"]
        /\ told' = [told EXCEPT ![r] = Len(works[r])]
        /\ UNCHANGED <<processVars, setting, proc, aim, list, works, asked, trigger, outside>>
    BY DEF Ran, Goto, Inv, RequestInv, Planned
  <1>2. ProcessInv' /\ Kept /\ UNCHANGED instances
    BY <1>1, ProcessStays DEF processVars
  <1>3. result'[r].specialist = result[r].specialist /\ result'[r].gate = result[r].gate
    BY <1>1, SaveKeeps
  <1> DEFINE i == IF Len(works[r]) = 1 THEN Armed ELSE ctl[r]
             w == works[r][Len(works[r])].brought
  <1>4. /\ ctl' = [ctl EXCEPT ![r] = i]
        /\ valid' = IF i = 0 THEN valid ELSE [valid EXCEPT ![r] = Assess(i, w)]
    BY DEF Ran
  <1>5. i \in {0} \cup Instance
    <2>1. Armed \in {0} \cup Instance
      BY ActiveIsThere DEF Armed, Inv, ProcessInv
    <2>2. ctl[r] \in {0} \cup Instance
      BY <1>1 DEF RequestInv, Held
    <2>3. QED
      BY <2>1, <2>2
  <1>6. Assess(i, w).missing \subseteq Outcome
    BY DEF Assess, NotMet
  <1>7. Len(works[r]) = 1 => asked[r] = <<>>
    <2> DEFINE n == Len(works[r])
               m == Len(asked[r])
    <2>1. n = m + 1
      BY <1>1 DEF RequestInv, Counted
    <2>2. asked[r] \in Seq(AskRow) /\ m \in Nat
      BY <1>1, LenProperties DEF Types
    <2>3. m = 0 => asked[r] = <<>>
      BY <2>2, EmptySeq
    <2> HIDE DEF n, m
    <2>4. n = 1 => m = 0
      BY <2>1, <2>2
    <2>5. QED
      BY <2>3, <2>4 DEF n, m
  <1>8. i = ctl[r] \/ asked[r] = <<>>
    BY <1>7
  <1> HIDE DEF i, w
  <1>9. /\ pc'[r] = "revise" /\ ctl'[r] = i /\ told'[r] = Len(works[r])
        /\ i # 0 => valid'[r] = Assess(i, w)
    BY <1>1, <1>4 DEF Types
  <1>10. Types'
    <2>1. Len(works[r]) \in Nat
      BY <1>1 DEF Types
    <2>2. DOMAIN valid' = Request /\ \A q \in Request : valid'[q].missing \subseteq Outcome
      BY <1>1, <1>4, <1>6 DEF Types
    <2>3. told' \in [Request -> Nat] /\ pc' \in [Request -> Place] /\ DOMAIN ctl' = Request
      BY <1>1, <1>4, <2>1 DEF Types, Place
    <2>4. /\ saved' \in [Request -> SUBSET SavedRow] /\ result' \in [Request -> Result]
          /\ \A q \in Request : \E last \in Nat : \A s \in saved'[q] : s.rev <= last
      BY <1>1, SaveKeeps
    <2>5. QED
      BY <1>1, <2>2, <2>3, <2>4 DEF Types
  <1>11. \A q \in Request \ {r} : Same(q)
    <2>1. \A q \in Request \ {r} : result'[q] = result[q]
      BY <1>1, SaveKeeps
    <2>2. QED
      BY <1>1, <1>4, <2>1 DEF Same, Types
  <1>12. Held(r)'
    BY <1>1, <1>2, <1>5, <1>9 DEF RequestInv, Held, Fresh, Instance
  <1>13. Counted(r)'
    <2>1. Len(works[r]) = Len(asked[r]) + 1 /\ Len(asked[r]) \in Nat /\ Len(works[r]) \in Nat
      BY <1>1 DEF RequestInv, Counted, Types
    <2>2. works'[r] = works[r] /\ asked'[r] = asked[r]
      BY <1>1
    <2>3. QED
      BY <1>9, <2>1, <2>2 DEF Counted, Fresh
  <1>14. Assessed(r)'
    BY <1>1, <1>2, <1>9 DEF Assessed, Assess, w
  <1>15. Planned(r)' /\ Settled(r)' /\ Heeded(r)'
    BY <1>1, <1>3, <1>9 DEF RequestInv, Planned, Settled, Heeded, Now
  <1>16. Answered(r)'
    <2>1. CASE asked[r] = <<>>
      BY <1>1, <2>1 DEF Answered
    <2>2. CASE i = ctl[r]
      BY <1>1, <1>2, <1>9, <2>2, AnsweredStays DEF RequestInv
    <2>3. QED
      BY <1>8, <2>1, <2>2
  <1>17. QED
    BY <1>2, <1>10, <1>11, <1>12, <1>13, <1>14, <1>15, <1>16, RequestKeeps DEF RequestInv

\* The planner is asked about the last execution, with what was assessed.
LEMMA ProposeKeeps ==
  ASSUME Inv, NEW r \in Request, Propose(r)
  PROVE  Inv'
  <1>1. /\ pc[r] = "revise" /\ Types /\ RequestInv(r) /\ list[r] # <<>> /\ Now(r).decision = "revise"
        /\ UNCHANGED <<processVars, setting, proc, ctl, aim, saved, works, told, valid, result,
                       trigger, outside>>
    BY DEF Propose, Inv, RequestInv, Planned
  <1>2. ProcessInv' /\ Kept /\ UNCHANGED instances
    BY <1>1, ProcessStays DEF processVars
  <1> DEFINE m == Len(asked[r])
  <1>3. /\ Len(works[r]) = m + 1 /\ m \in Nat /\ told[r] = m + 1 /\ Len(works[r]) \in Nat
        /\ asked[r] \in Seq(AskRow) /\ DOMAIN asked[r] = 1 .. m
    <2>1. asked[r] \in Seq(AskRow) /\ works[r] \in Seq(Execution)
      BY <1>1 DEF Types
    <2>2. Len(works[r]) = m + 1 /\ told[r] = Len(works[r])
      BY <1>1 DEF RequestInv, Counted
    <2>3. QED
      BY <2>1, <2>2
  <1>4. CASE pc' = [pc EXCEPT ![r] = "specialist"] /\ UNCHANGED <<asked, list>>
    <2>1. Types' /\ pc'[r] = "specialist"
      BY <1>1, <1>4 DEF Types, Place
    <2>2. \A q \in Request \ {r} : Same(q)
      BY <1>1, <1>4 DEF Same, Types
    <2>3. Held(r)'
      BY <1>1, <1>4, <2>1 DEF RequestInv, Held, Fresh, processVars, Instance
    <2>4. Counted(r)'
      BY <1>1, <1>3, <1>4, <2>1 DEF Counted, Fresh
    <2>5. Assessed(r)' /\ Planned(r)' /\ Heeded(r)'
      BY <1>1, <1>4, <2>1 DEF RequestInv, Assessed, Planned, Heeded
    <2>6. Settled(r)'
      BY <1>1, <1>4, <2>1 DEF RequestInv, Planned, Settled, Now
    <2>7. Answered(r)'
      BY <1>1, <1>2, <1>4, AnsweredStays DEF RequestInv
    <2>8. QED
      BY <1>2, <2>1, <2>2, <2>3, <2>4, <2>5, <2>6, <2>7, RequestKeeps DEF RequestInv
  <1>5. ASSUME NEW d \in Decision, NEW special \in BOOLEAN,
               asked' = [asked EXCEPT ![r] =
                    Append(@, [run |-> told[r], missing |-> Reanchored(r)])],
               list' = [list EXCEPT ![r] =
                    Append(@, Plan(Now(r).rev + 1, Now(r).rev, d, special))],
               pc' = [pc EXCEPT ![r] = "proposed"]
        PROVE  Inv'
    <2> DEFINE ask == [run |-> told[r], missing |-> Reanchored(r)]
               plan == Plan(Now(r).rev + 1, Now(r).rev, d, special)
               n == Len(list[r])
    <2>1. Reanchored(r) \subseteq Outcome
      BY <1>1 DEF Reanchored, Types
    <2>2. /\ ask \in AskRow
          /\ ask.run = m + 1 /\ ask.missing = Reanchored(r)
      BY <1>3, <2>1 DEF AskRow
    <2>3. plan \in PlanRow
      <3>1. Now(r).rev \in Nat /\ Now(r).rev + 1 \in Nat /\ Now(r).rev < Now(r).rev + 1
        BY <1>1, NowIsTyped
      <3>2. QED
        BY <3>1 DEF Plan, PlanRow
    <2>4. list[r] \in Seq(PlanRow) /\ n \in Nat \ {0}
      BY <1>1, NowIsTyped DEF Types
    <2> HIDE DEF ask, plan, m
    <2>5. /\ asked' = [asked EXCEPT ![r] = Append(asked[r], ask)]
          /\ list' = [list EXCEPT ![r] = Append(list[r], plan)]
      BY <1>5 DEF ask, plan
    <2>6. /\ asked'[r] = Append(asked[r], ask) /\ list'[r] = Append(list[r], plan)
          /\ pc'[r] = "proposed"
      BY <1>1, <1>5, <2>5 DEF Types
    <2>7. /\ asked'[r] \in Seq(AskRow)
          /\ Len(asked'[r]) = m + 1 /\ DOMAIN asked'[r] = 1 .. m + 1
          /\ \A k \in 1 .. m : asked'[r][k] = asked[r][k]
          /\ asked'[r][m + 1] = ask
      BY <1>3, <2>2, <2>6, AppendProperties DEF m
    <2>8. list'[r] \in Seq(PlanRow) /\ Len(list'[r]) = n + 1 /\ list'[r] # <<>>
      BY <2>3, <2>4, <2>6, AppendProperties
    <2>9. Types'
      <3>1. list' \in [Request -> Seq(PlanRow)]
        BY <1>1, <2>5, <2>6, <2>8 DEF Types
      <3>2. asked' \in [Request -> Seq(AskRow)]
        BY <1>1, <2>5, <2>6, <2>7 DEF Types
      <3>3. QED
        BY <1>1, <1>5, <3>1, <3>2 DEF Types, Place
    <2>10. \A q \in Request \ {r} : Same(q)
      BY <1>1, <1>5, <2>5 DEF Same, Types
    <2>11. Held(r)'
      BY <1>1, <2>6 DEF RequestInv, Held, Fresh, processVars, Instance
    <2>12. Counted(r)'
      BY <1>1, <1>3, <2>6, <2>7 DEF Counted, Fresh
    <2>13. Assessed(r)' /\ Settled(r)'
      BY <1>1, <1>2, <2>6 DEF RequestInv, Assessed, Settled, Assess
    <2>14. Planned(r)' /\ Heeded(r)'
      <3>1. Len(list'[r]) > 1
        BY <2>4, <2>8
      <3>2. QED
        BY <1>1, <2>6, <2>8, <3>1 DEF RequestInv, Planned, Heeded
    <2>15. Answered(r)'
      <3>1. \A k \in 1 .. m : /\ asked[r][k].run = k
                              /\ asked[r][k].missing = Missing(works[r][k].brought, ctl[r])
        BY <1>1, <1>3 DEF RequestInv, Answered
      <3>2. ask.missing = Missing(works[r][m + 1].brought, ctl[r])
        <4>1. CASE ctl[r] = 0
          BY <2>2, <4>1 DEF Reanchored, Missing
        <4>2. CASE ctl[r] # 0
          <5>1. valid[r] = Assess(ctl[r], works[r][m + 1].brought)
            BY <1>1, <1>3, <4>2 DEF RequestInv, Assessed
          <5>2. QED
            BY <2>2, <4>2, <5>1 DEF Reanchored, Missing, Assess
        <4>3. QED
          BY <4>1, <4>2
      <3>3. ASSUME NEW k \in 1 .. m + 1
            PROVE  /\ asked'[r][k].run = k
                   /\ asked'[r][k].missing = Missing(works[r][k].brought, ctl[r])
        <4>1. CASE k = m + 1
          BY <2>2, <2>7, <3>2, <4>1
        <4>2. CASE k # m + 1
          <5>1. k \in 1 .. m
            BY <1>3, <4>2
          <5>2. QED
            BY <2>7, <3>1, <5>1
        <4>3. QED
          BY <4>1, <4>2
      <3>4. QED
        BY <1>1, <1>2, <2>7, <3>3 DEF Answered, Missing
    <2>16. QED
      BY <1>2, <2>9, <2>10, <2>11, <2>12, <2>13, <2>14, <2>15, RequestKeeps DEF RequestInv
  <1>6. CASE \E d \in Decision, special \in {FALSE} \cup {May("special")} :
               /\ asked' = [asked EXCEPT ![r] =
                    Append(@, [run |-> told[r], missing |-> Reanchored(r)])]
               /\ list' = [list EXCEPT ![r] =
                    Append(@, Plan(Now(r).rev + 1, Now(r).rev, d, special))]
               /\ pc' = [pc EXCEPT ![r] = "proposed"]
    <2>1. May("special") \in BOOLEAN
      BY DEF May
    <2>2. PICK d \in Decision, special \in {FALSE} \cup {May("special")} :
               /\ asked' = [asked EXCEPT ![r] =
                    Append(@, [run |-> told[r], missing |-> Reanchored(r)])]
               /\ list' = [list EXCEPT ![r] =
                    Append(@, Plan(Now(r).rev + 1, Now(r).rev, d, special))]
               /\ pc' = [pc EXCEPT ![r] = "proposed"]
      BY <1>6
    <2>3. special \in BOOLEAN
      BY <2>1
    <2>4. QED
      BY <1>5, <2>2, <2>3
  <1>7. QED
    BY <1>4, <1>6 DEF Propose, Goto

\* A plan that does not go on is at the gate exactly if it has to be.
LEMMA ProposedKeeps ==
  ASSUME Inv, NEW r \in Request, Proposed(r)
  PROVE  Inv'
  <1>1. /\ pc[r] = "proposed" /\ Types /\ RequestInv(r) /\ list[r] # <<>> /\ Save(r, Now(r))
        /\ UNCHANGED <<processVars, setting, proc, ctl, aim, list, works, told, valid, asked,
                       trigger, outside>>
    BY DEF Proposed, Inv, RequestInv, Planned
  <1>2. ProcessInv' /\ Kept /\ UNCHANGED instances
    BY <1>1, ProcessStays DEF processVars
  <1> DEFINE to == IF Now(r).decision = "revise" THEN "run"
                   ELSE IF Now(r).decision # "blocked" /\ ShouldGate(r) THEN "gate"
                   ELSE "specialist"
  <1>3. pc' = [pc EXCEPT ![r] = to]
    BY DEF Proposed, Goto
  <1>4. /\ to \in {"run", "gate", "specialist"}
        /\ to = "run" => Now(r).decision = "revise"
        /\ to = "gate" => Now(r).decision \in {"stable", "complete"} /\ ShouldGate(r)
        /\ to = "specialist" =>
              ~ (Now(r).decision \in {"stable", "complete"} /\ ShouldGate(r))
    <2>1. Now(r).decision \in {"revise", "stable", "complete", "blocked"}
      BY <1>1, NowIsTyped DEF Decision
    <2>2. QED
      BY <2>1
  <1> HIDE DEF to
  <1>5. /\ saved' \in [Request -> SUBSET SavedRow] /\ result' \in [Request -> Result]
        /\ \A q \in Request : \E last \in Nat : \A s \in saved'[q] : s.rev <= last
        /\ result'[r].specialist = result[r].specialist /\ result'[r].gate = result[r].gate
        /\ \A q \in Request \ {r} : result'[q] = result[q]
    BY <1>1, SaveKeeps
  <1>6. pc'[r] = to
    BY <1>1, <1>3 DEF Types
  <1>7. Types'
    <2>1. pc' \in [Request -> Place]
      BY <1>1, <1>3, <1>4 DEF Types, Place
    <2>2. QED
      BY <1>1, <1>5, <2>1 DEF Types
  <1>8. \A q \in Request \ {r} : Same(q)
    BY <1>1, <1>3, <1>5 DEF Same, Types
  <1>9. Len(list[r]) > 1 /\ ~result[r].gate
    BY <1>1 DEF RequestInv, Planned
  <1>10. Held(r)'
    BY <1>1, <1>2, <1>4, <1>6 DEF RequestInv, Held, Fresh, Instance
  <1>11. Counted(r)' /\ Heeded(r)'
    BY <1>1, <1>4, <1>5, <1>6 DEF RequestInv, Counted, Heeded, Fresh
  <1>12. Assessed(r)'
    BY <1>1, <1>2, <1>4, <1>6 DEF RequestInv, Assessed, Assess
  <1>13. Planned(r)'
    BY <1>1, <1>2, <1>4, <1>5, <1>6, <1>9 DEF RequestInv, Planned, Now, ShouldGate
  <1>14. Settled(r)'
    <2>1. SUFFICES ASSUME to = "specialist"
                   PROVE  Settled(r)'
      BY <1>4, <1>6 DEF Settled
    <2>2. ctl[r] # 0 => valid[r] = Assess(ctl[r], works[r][Len(works[r])].brought)
      BY <1>1 DEF RequestInv, Assessed
    <2>3. ctl[r] # 0 /\ Drifted(r) => ShouldGate(r)
      BY <2>2 DEF Drifted, ShouldGate, Assess
    <2>4. ~ (Now(r).decision \in {"stable", "complete"} /\ ctl[r] # 0 /\ Drifted(r))
      BY <1>4, <2>1, <2>3
    <2>5. ~result'[r].gate
      BY <1>5, <1>9
    <2>6. Now(r)' = Now(r) /\ Drifted(r)' = Drifted(r) /\ ctl'[r] = ctl[r]
      BY <1>1, <1>2 DEF Now, Drifted
    <2>7. QED
      BY <2>4, <2>5, <2>6 DEF Settled
  <1>15. Answered(r)'
    BY <1>1, <1>2, AnsweredStays DEF RequestInv
  <1>16. QED
    BY <1>2, <1>7, <1>8, <1>10, <1>11, <1>12, <1>13, <1>14, <1>15, RequestKeeps DEF RequestInv

\* The gate is raised on the instance that the work was assessed under.
LEMMA DriftGateKeeps ==
  ASSUME Inv, NEW r \in Request, DriftGate(r)
  PROVE  Inv'
  <1>1. /\ pc[r] = "gate" /\ Types /\ RequestInv(r) /\ ReachGate(ctl[r], "outcomes:drift")
        /\ pc' = [pc EXCEPT ![r] = "specialist"]
        /\ result' = [result EXCEPT ![r].gate = TRUE]
        /\ UNCHANGED <<templates, desk, acts, setting, proc, ctl, aim, list, saved, works, told,
                       valid, asked, trigger, outside>>
    BY DEF DriftGate, Goto, Inv
  <1>2. /\ Len(list[r]) > 1 /\ Now(r).decision \in {"stable", "complete"} /\ ShouldGate(r)
        /\ list[r] # <<>>
    BY <1>1 DEF RequestInv, Planned
  <1>3. ctl[r] # 0 /\ ctl[r] \in Instance
    BY <1>1, <1>2 DEF RequestInv, Held, ShouldGate
  <1>4. /\ ProcessInv' /\ Kept
        /\ \E k \in DOMAIN instances'[ctl[r]].trace :
              instances'[ctl[r]].trace[k] = <<"gate.reached", "outcomes:drift">>
    BY <1>1, <1>3, GateKeeps DEF Inv, Step
  <1>5. /\ result' \in [Request -> Result] /\ result'[r].gate = TRUE
        /\ result'[r].specialist = result[r].specialist
        /\ \A q \in Request \ {r} : result'[q] = result[q]
    <2>1. result[r] \in Result
      BY <1>1 DEF Types
    <2> DEFINE new == [result[r] EXCEPT !.gate = TRUE]
    <2>2. new \in Result /\ new.gate = TRUE /\ new.specialist = result[r].specialist
      BY <2>1 DEF Result
    <2>3. result' = [result EXCEPT ![r] = new]
      BY <1>1 DEF Types
    <2>4. result \in [Request -> Result]
      BY <1>1 DEF Types
    <2> HIDE DEF new
    <2>5. QED
      BY <2>2, <2>3, <2>4
  <1>6. Types' /\ pc'[r] = "specialist"
    BY <1>1, <1>5 DEF Types, Place
  <1>7. \A q \in Request \ {r} : Same(q)
    BY <1>1, <1>5 DEF Same, Types
  <1>8. Held(r)'
    <2>1. {proc'[r], ctl'[r], aim'[r]} \subseteq {0} \cup Instance'
      BY <1>1, <1>4, HeldStays DEF RequestInv
    <2>2. QED
      BY <1>6, <2>1 DEF Held, Fresh
  <1>9. Counted(r)' /\ Assessed(r)' /\ Planned(r)' /\ Heeded(r)'
    BY <1>1, <1>2, <1>5, <1>6 DEF RequestInv, Counted, Assessed, Planned, Heeded, Fresh
  <1>10. Settled(r)'
    <2>1. valid[r] = Assess(ctl[r], works[r][Len(works[r])].brought)
      BY <1>1, <1>3 DEF RequestInv, Assessed
    <2>2. Drifted(r)
      BY <1>2, <2>1 DEF Drifted, ShouldGate, Assess
    <2>3. instances'[ctl[r]].content = instances[ctl[r]].content
      BY <1>1, <1>3, <1>4, ContentStays DEF RequestInv
    <2>4. Drifted(r)'
      BY <1>1, <2>2, <2>3 DEF Drifted
    <2>5. Raised(ctl[r])'
      BY <1>1, <1>4 DEF Raised
    <2>6. QED
      BY <1>1, <1>2, <1>3, <1>5, <2>4, <2>5 DEF Settled, Now
  <1>11. Answered(r)'
    BY <1>1, <1>4, AnsweredStays DEF RequestInv
  <1>12. QED
    BY <1>4, <1>6, <1>7, <1>8, <1>9, <1>10, <1>11, RequestKeeps DEF RequestInv

\* The specialist is called last, unless its result is there.
LEMMA SpecialistKeeps ==
  ASSUME Inv, NEW r \in Request, Specialist(r)
  PROVE  Inv'
  <1>1. /\ pc[r] = "specialist" /\ Types /\ RequestInv(r)
        /\ pc' = [pc EXCEPT ![r] = "done"]
        /\ trigger' = [trigger EXCEPT ![r] = Now(r).special /\ ~result[r].specialist]
        /\ UNCHANGED <<processVars, setting, proc, ctl, aim, list, saved, works, told, valid,
                       asked, result, outside>>
    BY DEF Specialist, Goto, Inv
  <1>2. ProcessInv' /\ Kept /\ UNCHANGED instances
    BY <1>1, ProcessStays DEF processVars
  <1>3. Types' /\ pc'[r] = "done"
    BY <1>1 DEF Types, Place
  <1>4. trigger'[r] => ~result[r].specialist
    BY <1>1 DEF Types
  <1>5. \A q \in Request \ {r} : Same(q)
    BY <1>1 DEF Same, Types
  <1>6. Held(r)'
    BY <1>1, <1>2, <1>3 DEF RequestInv, Held, Fresh, Instance
  <1>7. Counted(r)' /\ Assessed(r)' /\ Planned(r)'
    BY <1>1, <1>3 DEF RequestInv, Counted, Assessed, Planned, Fresh
  <1>8. Heeded(r)'
    BY <1>1, <1>3, <1>4 DEF RequestInv, Heeded
  <1>9. Settled(r)'
    BY <1>1, <1>2, <1>3 DEF RequestInv, Settled, Now, Drifted, Raised
  <1>10. Answered(r)'
    BY <1>1, <1>2, AnsweredStays DEF RequestInv
  <1>11. QED
    BY <1>2, <1>3, <1>5, <1>6, <1>7, <1>8, <1>9, <1>10, RequestKeeps DEF RequestInv

(* Steps beside the requests *)

\* What changes neither a request nor the types keeps the invariant.
LEMMA BesideKeeps ==
  ASSUME Inv, ProcessInv', Kept, Types', \A q \in Request : Same(q)
  PROVE  Inv'
  <1>1. ASSUME NEW q \in Request
        PROVE  RequestInv(q)'
    BY OthersKeep DEF Inv
  <1>2. QED
    BY <1>1 DEF Inv

\* Reading a saved row changes nothing that a request knows.
LEMMA ReadSavedKeeps ==
  ASSUME Inv, NEW r \in Request, ReadSaved(r)
  PROVE  Inv'
  <1>1. /\ Types /\ saved[r] # {}
        /\ outside' = [outside EXCEPT ![r] = LatestRow(r).rev]
        /\ UNCHANGED <<templates, instances, desk, setting, pc, proc, ctl, aim, list, saved,
                       works, told, valid, asked, result, trigger>>
    BY DEF ReadSaved, Inv
  <1>2. ProcessInv' /\ Kept
    BY <1>1, ProcessStays
  <1>3. LatestRow(r).rev \in Nat
    <2>1. LatestRow(r) \in SavedRow
      BY <1>1, LatestRowIsThere DEF Types
    <2>2. QED
      BY <2>1 DEF SavedRow
  <1>4. Types'
    BY <1>1, <1>3 DEF Types
  <1>5. \A q \in Request : Same(q)
    BY <1>1 DEF Same
  <1>6. QED
    BY <1>2, <1>4, <1>5, BesideKeeps

\* A revision from outside is a row above the one that was read.
LEMMA ReviseSavedKeeps ==
  ASSUME Inv, NEW r \in Request, ReviseSaved(r)
  PROVE  Inv'
  <1> DEFINE rev == outside[r] + 1
             new == Row(rev, outside[r], "operator")
  <1>1. /\ Types /\ outside' = [outside EXCEPT ![r] = 0]
        /\ \/ saved' = saved
           \/ saved' = [saved EXCEPT ![r] = @ \cup {new}]
        /\ UNCHANGED <<processVars, setting, pc, proc, ctl, aim, list, works, told, valid, asked,
                       result, trigger>>
    BY DEF ReviseSaved, Inv
  <1>2. ProcessInv' /\ Kept
    BY <1>1, ProcessStays DEF processVars
  <1>3. new \in SavedRow /\ new.rev = rev /\ rev \in Nat
    <2>1. outside[r] \in Nat
      BY <1>1 DEF Types
    <2>2. QED
      BY <2>1 DEF Row, SavedRow
  <1> HIDE DEF new, rev
  <1>4. saved' \in [Request -> SUBSET SavedRow]
    <2>1. saved \in [Request -> SUBSET SavedRow]
      BY <1>1 DEF Types
    <2>2. saved[r] \cup {new} \in SUBSET SavedRow
      BY <1>3, <2>1
    <2>3. CASE saved' = [saved EXCEPT ![r] = @ \cup {new}]
      BY <2>1, <2>2, <2>3
    <2>4. QED
      BY <1>1, <2>1, <2>3
  <1>5. ASSUME NEW q \in Request
        PROVE  \E last \in Nat : \A s \in saved'[q] : s.rev <= last
    <2>1. PICK last \in Nat : \A s \in saved[q] : s.rev <= last
      BY <1>1 DEF Types
    <2> DEFINE later == last + rev
    <2>2. later \in Nat /\ last <= later /\ rev <= later
      BY <1>3, <2>1
    <2>3. \A s \in saved[q] : s.rev \in Nat
      BY <1>1 DEF Types, SavedRow
    <2> HIDE DEF later
    <2>4. \A s \in saved[q] : s.rev <= later
      BY <2>1, <2>2, <2>3
    <2>5. saved'[q] \subseteq saved[q] \cup {new}
      BY <1>1 DEF Types
    <2>6. QED
      BY <1>3, <2>2, <2>4, <2>5
  <1>6. Types'
    BY <1>1, <1>4, <1>5 DEF Types
  <1>7. \A q \in Request : Same(q)
    BY <1>1 DEF Same
  <1>8. QED
    BY <1>2, <1>6, <1>7, BesideKeeps

\* Operators meet requests in the instances only.
LEMMA OperatorsKeep ==
  ASSUME Inv, ProcessNext, UNCHANGED requestVars
  PROVE  Inv'
  <1>1. ProcessInv' /\ Kept
    BY ProcessStep DEF Inv
  <1>2. Types'
    BY DEF Inv, Types, requestVars
  <1>3. \A q \in Request : Same(q)
    BY DEF Same, requestVars
  <1>4. QED
    BY <1>1, <1>2, <1>3, BesideKeeps

\* Nothing happens.
LEMMA StutterKeeps ==
  ASSUME Inv, UNCHANGED vars
  PROVE  Inv'
  <1>1. UNCHANGED <<templates, instances, desk>> /\ UNCHANGED requestVars
    BY DEF vars, processVars
  <1>2. ProcessInv' /\ Kept
    BY <1>1, ProcessStays
  <1>3. Types'
    BY <1>1 DEF Inv, Types, requestVars
  <1>4. \A q \in Request : Same(q)
    BY <1>1 DEF Same, requestVars
  <1>5. QED
    BY <1>2, <1>3, <1>4, BesideKeeps

(* The invariant *)

\* It holds at the start.
LEMMA InvInit ==
  ASSUME Init
  PROVE  Inv
  <1>1. ProcessInv
    BY ProcessStart DEF Init
  <1>2. Types
    <2>1. [specialist |-> FALSE, gate |-> FALSE, warned |-> FALSE] \in Result
      BY DEF Result
    <2>2. \A r \in Request : \E last \in Nat : \A s \in saved[r] : s.rev <= last
      BY DEF Init
    <2>3. list \in [Request -> Seq(PlanRow)] /\ works \in [Request -> Seq(Execution)]
          /\ asked \in [Request -> Seq(AskRow)]
      BY DEF Init
    <2>4. QED
      BY <2>1, <2>2, <2>3 DEF Init, Types, Place
  <1>3. ASSUME NEW r \in Request
        PROVE  RequestInv(r)
    <2>1. /\ pc[r] = "idle" /\ proc[r] = 0 /\ ctl[r] = 0 /\ aim[r] = 0
          /\ works[r] = <<>> /\ asked[r] = <<>> /\ told[r] = 0 /\ ~trigger[r]
          /\ ~result[r].gate
      BY DEF Init
    <2>2. Held(r) /\ Assessed(r) /\ Planned(r) /\ Settled(r)
      BY <2>1 DEF Held, Assessed, Planned, Settled, Fresh
    <2>3. Counted(r) /\ Answered(r) /\ Heeded(r)
      BY <2>1 DEF Counted, Answered, Heeded, Fresh
    <2>4. QED
      BY <2>2, <2>3 DEF RequestInv
  <1>4. QED
    BY <1>1, <1>2, <1>3 DEF Inv

\* Every step keeps it.
LEMMA InvStep ==
  ASSUME Inv, [Next]_vars
  PROVE  Inv'
  <1>1. CASE ProcessNext /\ UNCHANGED requestVars
    BY <1>1, OperatorsKeep
  <1>2. ASSUME NEW r \in Request, RequestStep(r)
        PROVE  Inv'
    <2>1. CASE Open(r)
      BY <2>1, OpenKeeps
    <2>2. CASE Keep(r)
      BY <2>2, KeepKeeps
    <2>3. CASE Framed(r)
      BY <2>3, FramedKeeps
    <2>4. CASE Execute(r)
      BY <2>4, ExecuteKeeps
    <2>5. CASE KeepRevision(r)
      BY <2>5, KeepRevisionKeeps
    <2>6. CASE Interpret(r)
      BY <2>6, InterpretKeeps
    <2>7. CASE AwaitGate(r)
      BY <2>7, AwaitGateKeeps
    <2>8. CASE Ran(r)
      BY <2>8, RanKeeps
    <2>9. CASE Propose(r)
      BY <2>9, ProposeKeeps
    <2>10. CASE Proposed(r)
      BY <2>10, ProposedKeeps
    <2>11. CASE DriftGate(r)
      BY <2>11, DriftGateKeeps
    <2>12. CASE Specialist(r)
      BY <2>12, SpecialistKeeps
    <2>13. QED
      BY <1>2, <2>1, <2>2, <2>3, <2>4, <2>5, <2>6, <2>7, <2>8, <2>9, <2>10, <2>11, <2>12
         DEF RequestStep
  <1>3. CASE \E r \in Request : ReadSaved(r)
    BY <1>3, ReadSavedKeeps
  <1>4. CASE \E r \in Request : ReviseSaved(r)
    BY <1>4, ReviseSavedKeeps
  <1>5. CASE UNCHANGED vars
    BY <1>5, StutterKeeps
  <1>6. QED
    BY <1>1, <1>2, <1>3, <1>4, <1>5 DEF Next

\* The inductive invariant of requests and the instances they meet in.
THEOREM Invariance == Spec => []Inv
  <1>1. Init => Inv
    BY InvInit
  <1>2. Inv /\ [Next]_vars => Inv'
    BY InvStep
  <1>3. QED
    BY <1>1, <1>2, PTL DEF Spec

(* Every instance runs under the text of a row of its version, and every request holds    *)
(* instances that exist.                                                                  *)
THEOREM TypeCorrect == Spec => []TypeOK
  <1>1. ASSUME Inv
        PROVE  TypeOK
    <2>1. ProcessTypeOK
      <3>1. ASSUME NEW i \in DOMAIN templates
            PROVE  templates[i].version \in 1 .. MaxRows /\ templates[i].content \in Content
        <4>1. i \in 1 .. Len(templates) /\ Len(templates) \in 1 .. MaxRows
              /\ templates[i].version \in 1 .. i
          BY <1>1 DEF Inv, ProcessInv, TemplatesTyped
        <4>2. templates[i].version \in 1 .. MaxRows
          BY <4>1, ProcessAssumption
        <4>3. templates[i] \in Template
          BY <1>1 DEF Inv, ProcessInv, TemplatesTyped
        <4>4. QED
          BY <4>2, <4>3 DEF Template
      <3>2. ASSUME NEW i \in Instance
            PROVE  /\ \E j \in DOMAIN templates :
                         /\ templates[j].version = instances[i].version
                         /\ templates[j].content = instances[i].content
                   /\ instances[i].status \in {"active", "awaiting_gate"} \cup Terminal
                   /\ instances[i].trace \in Seq(Event \X (Step \cup Deviation \cup {"operator"}))
        <4>1. OnRecord(instances[i].version, instances[i].content)
          BY <1>1 DEF Inv, ProcessInv, InstancesTyped
        <4>2. instances[i].status \in {"active", "awaiting_gate"} \cup Terminal
          BY <1>1, InstanceFields DEF Inv, ProcessInv, InstanceRow
        <4>3. QED
          BY <1>1, <4>1, <4>2, InstanceFields DEF Inv, ProcessInv, OnRecord
      <3>3. ASSUME NEW o \in Operator
            PROVE  desk[o].op \in {"idle", "revise", "evolve", "start"}
        BY <1>1 DEF Inv, ProcessInv, DeskTyped, Idle, Errand
      <3>4. QED
        BY <3>1, <3>2, <3>3 DEF ProcessTypeOK
    <2>2. ASSUME NEW r \in Request
          PROVE  /\ {proc[r], ctl[r], aim[r]} \subseteq {0} \cup Instance
                 /\ told[r] \in 0 .. Len(works[r])
                 /\ Len(asked[r]) <= Len(works[r])
                 /\ \A row \in saved[r] : row.parent < row.rev
      <3>1. {proc[r], ctl[r], aim[r]} \subseteq {0} \cup Instance
        BY <1>1 DEF Inv, RequestInv, Held
      <3>2. told[r] <= Len(works[r]) /\ Len(asked[r]) <= Len(works[r])
        BY <1>1 DEF Inv, RequestInv, Counted
      <3>3. told[r] \in Nat /\ Len(works[r]) \in Nat
        BY <1>1 DEF Inv, Types
      <3>4. \A row \in saved[r] : row.parent < row.rev
        BY <1>1 DEF Inv, Types, SavedRow
      <3>5. QED
        BY <3>1, <3>2, <3>3, <3>4
    <2>3. QED
      BY <2>1, <2>2 DEF TypeOK
  <1>2. QED
    BY <1>1, Invariance, PTL

(* A request that ends on a stable or complete plan has raised the drift gate of its      *)
(* process exactly when its last work drifts, the process gates drift and the floor finds *)
(* an outcome unmet, whatever operators record on that instance meanwhile.                *)
THEOREM DriftIsHeldBack == Spec => []DriftHoldsBack
  <1>1. ASSUME Inv, NEW r \in Request, pc[r] = "done"
        PROVE  result[r].gate <=>
                 /\ ctl[r] # 0
                 /\ Len(list[r]) > 1
                 /\ Now(r).decision \in {"stable", "complete"}
                 /\ Drifted(r)
                 /\ Raised(ctl[r])
    BY <1>1 DEF Inv, RequestInv, Settled
  <1>2. Inv => DriftHoldsBack
    BY <1>1 DEF DriftHoldsBack, Drifted, Raised
  <1>3. QED
    BY <1>2, Invariance, PTL

(* The planner is asked once for each execution, about that execution, and a process that *)
(* re-anchors names just what its work has not met, though the process it was assessed    *)
(* under may be decided upon and revised while the request runs.                          *)
THEOREM AnswersFollow == Spec => []AnswersTheLastRun
  <1>1. ASSUME Inv
        PROVE  AnswersTheLastRun
    BY <1>1 DEF Inv, RequestInv, Answered, Missing, AnswersTheLastRun
  <1>2. QED
    BY <1>1, Invariance, PTL

(* The specialist is called after the executions only if none of them had its result.     *)
THEOREM SpecialistsAreOnce == Spec => []SpecialistOnce
  <1>1. ASSUME Inv
        PROVE  SpecialistOnce
    BY <1>1 DEF Inv, RequestInv, Heeded, SpecialistOnce
  <1>2. QED
    BY <1>1, Invariance, PTL

(* No step of a request or an operator takes back the content of an instance, or an event *)
(* of it: what a request was assessed under stays what it was assessed under.             *)
THEOREM NothingIsTakenBack == Spec => [][Kept]_vars
  <1>1. ASSUME Inv, Next
        PROVE  Kept
    <2>1. CASE ProcessNext
      BY <1>1, <2>1, ProcessStep DEF Inv
    <2>2. ASSUME NEW r \in Request, AwaitGate(r)
          PROVE  Kept
      <3>1. aim[r] \in Instance /\ ReachGate(aim[r], "await") /\ UNCHANGED <<templates, desk>>
        BY <1>1, <2>2 DEF Inv, RequestInv, Held, AwaitGate
      <3>2. QED
        BY <1>1, <3>1, GateKeeps DEF Inv, Step
    <2>3. ASSUME NEW r \in Request, DriftGate(r)
          PROVE  Kept
      <3>1. ctl[r] \in Instance /\ ReachGate(ctl[r], "outcomes:drift")
            /\ UNCHANGED <<templates, desk>>
        BY <1>1, <2>3 DEF Inv, RequestInv, Held, Planned, ShouldGate, DriftGate
      <3>2. QED
        BY <1>1, <3>1, GateKeeps DEF Inv, Step
    <2>4. CASE UNCHANGED instances
      BY <1>1, <2>4, NothingKept DEF Inv, ProcessInv
    <2>5. ASSUME NEW r \in Request,
                 \/ Open(r) \/ Keep(r) \/ Framed(r) \/ Execute(r) \/ KeepRevision(r)
                 \/ Interpret(r) \/ Ran(r) \/ Propose(r) \/ Proposed(r) \/ Specialist(r)
                 \/ ReadSaved(r) \/ ReviseSaved(r)
          PROVE  UNCHANGED instances
      BY <2>5 DEF Open, Keep, Framed, Execute, KeepRevision, Interpret, Ran, Propose, Proposed,
                  Specialist, ReadSaved, ReviseSaved, processVars
    <2>6. QED
      BY <1>1, <2>1, <2>2, <2>3, <2>4, <2>5 DEF Next, RequestStep
  <1>2. QED
    BY <1>1, Invariance, PTL DEF Spec
===============================================================================
