--------------------------- MODULE ProcessInstances ---------------------------
(***************************************************************************)
(* Human-defined processes: the versions of a template (process/           *)
(* templates.py), the instances bound to one conversation (process/        *)
(* instances.py), what operators and agents record on them (process/       *)
(* enforcement.py) and what the recorded use of a version says of it       *)
(* (process/evolution.py).  An operator reads a template and writes later. *)
(***************************************************************************)
EXTENDS Naturals, Sequences, FiniteSets

CONSTANTS
    Operator,       \* those who author templates and start instances
    Content,        \* what a version may say
    Text,           \* process texts
    Deviation,      \* departures from a process that an agent describes
    MaxRows,        \* bound: rows of the template collection
    MaxInstances,   \* bound: instances
    MaxTrace,       \* bound: events of an instance at which nobody decides on it any more
    MinInstances,   \* _MIN_INSTANCES: history needed before a proposal
    Recurs,         \* _RECUR_DEVIATION and _HIGH_GATE_REJECT
    HighRate        \* _HIGH_OVERRIDE_RATE and _HIGH_ABANDON_RATE, in hundredths

\* A content is a text and an outcomes loop: what happens on drift, and the share of
\* unmet outcomes, in hundredths, from which work counts as drifting.
OnDrift == {"unarmed", "log", "reanchor", "gate", "reanchor_then_gate"}

ASSUME ProcessAssumption ==
    /\ Content \subseteq [text : Text, onDrift : OnDrift, threshold : 0 .. 100]
    /\ IsFiniteSet(Operator)
    /\ MaxRows \in Nat \ {0}
    /\ {MaxInstances, MaxTrace, MinInstances, Recurs, HighRate} \subseteq Nat

VARIABLES
    templates,   \* rows of process_templates, in the order of their insertion
    instances,   \* rows of process_instances, in the order of their insertion
    desk,        \* of each operator: what was read and is to be written
    acts         \* bound: what people may still do

processVars == <<templates, instances, desk, acts>>

Instance == DOMAIN instances
Terminal == {"completed", "abandoned"}
Idle == [op |-> "idle"]

(***************************************************************************)
(* Templates                                                               *)
(***************************************************************************)

\* The highest version; of two rows with one version the first.
Latest ==
    CHOOSE i \in DOMAIN templates : \A j \in DOMAIN templates :
        \/ templates[j].version < templates[i].version
        \/ templates[j].version = templates[i].version /\ i <= j

\* get_template of a version: the first row that has it.
RowOf(version) ==
    CHOOSE i \in DOMAIN templates :
        /\ templates[i].version = version
        /\ \A j \in DOMAIN templates : templates[j].version = version => i <= j

\* What is not given carries over, so that a loop once armed stays armed.
Revised(content) ==
    {c \in Content : content.onDrift # "unarmed" => c.onDrift # "unarmed"}

\* An evolution changes the text only.
Evolved(content) ==
    {c \in Content : c.onDrift = content.onDrift /\ c.threshold = content.threshold}

(***************************************************************************)
(* What the instances say of a version, or of the template                 *)
(***************************************************************************)
Recorded(S, event) ==
    UNION {{i} \X {k \in DOMAIN instances[i].trace : instances[i].trace[k][1] = event} : i \in S}

High(some, S) == Cardinality(some) * 100 >= HighRate * Cardinality(S)
Abandoned(S) == {i \in S : instances[i].status = "abandoned"}
Overrides(S) == Recorded(S, "override.invoked")

\* The deviation that was flagged last, when approved, is the one that counts.
Approvals(S, d) ==
    {a \in Recorded(S, "deviation.approved") :
        \E f \in 1 .. a[2] - 1 :
            LET trace == instances[a[1]].trace IN
            /\ trace[f] = <<"deviation.flagged", d>>
            /\ \A k \in f + 1 .. a[2] - 1 :
                  trace[k][1] \notin {"deviation.flagged", "deviation.approved"}}

Rejections(S, step) ==
    {r \in Recorded(S, "gate.rejected") : instances[r[1]].trace[r[2]][2] = step}

Concerns(version) ==
    LET S == {i \in Instance : instances[i].version = version}
        enough == Cardinality(S) >= MinInstances
    IN  {c \in {"never_validated", "abandonment", "overrides"} :
            CASE c = "never_validated" ->
                    version > 1 /\ \A i \in S : instances[i].status # "completed"
              [] c = "abandonment" -> enough /\ High(Abandoned(S), S)
              [] OTHER -> enough /\ High(Overrides(S), S)}

Step == {"await", "outcomes:drift"}
Event == {"gate.reached", "gate.approved", "gate.rejected", "deviation.flagged",
          "deviation.approved", "deviation.rejected", "override.invoked", "instance.completed",
          "instance.abandoned"}

Findings ==
    IF Cardinality(Instance) < MinInstances THEN {}
    ELSE {<<"fold_deviation", d>> : d \in {d \in Deviation :
                    Cardinality(Approvals(Instance, d)) >= Recurs}}
         \cup {<<"gate_friction", s>> : s \in {s \in Step :
                    Cardinality(Rejections(Instance, s)) >= Recurs}}
         \cup {<<"rate", r>> : r \in {r \in {"overrides", "abandonment"} :
                    High(IF r = "overrides" THEN Overrides(Instance)
                         ELSE Abandoned(Instance), Instance)}}

(***************************************************************************)
(* Instances                                                               *)
(***************************************************************************)

\* The instance of the conversation that is at work: of several the last one started.
Live == {i \in Instance : instances[i].status \notin Terminal}
Active == IF Live = {} THEN 0
          ELSE CHOOSE i \in Live : \A j \in Live : instances[j].started <= instances[i].started

\* record_event with a status looks at nothing but the instance_id.
Record(i, event, detail, status) ==
    instances' = [instances EXCEPT ![i].trace = Append(@, <<event, detail>>),
                                   ![i].status = status]

Room(i) == Len(instances[i].trace) < MaxTrace

ReachGate(i, step) == Record(i, "gate.reached", step, "awaiting_gate")

-------------------------------------------------------------------------------
Act == acts > 0 /\ acts' = acts - 1

\* Not the code: the version that was asked for with the text of the latest.
ReadNewestText(o, op) ==
    /\ desk[o] = Idle
    /\ Act
    /\ op = "evolve" => Findings # {}
    /\ \E row \in IF op = "start" THEN {RowOf(templates[i].version) : i \in DOMAIN templates}
                  ELSE {Latest} :
        desk' = [desk EXCEPT ![o] =
                    [op |-> op, version |-> templates[row].version,
                     content |-> templates[Latest].content,
                     started |-> Cardinality(Instance)
                                 + Cardinality({p \in Operator : desk[p].op = "start"})]]
    /\ UNCHANGED <<templates, instances>>

(* An operator reads the latest version, to revise it, or any, to start an instance. *)
Read(o, op) ==
    /\ desk[o] = Idle
    /\ Act
    /\ op = "evolve" => Findings # {}
    /\ \E row \in IF op = "start" THEN {RowOf(templates[i].version) : i \in DOMAIN templates}
                  ELSE {Latest} :
        desk' = [desk EXCEPT ![o] =
                    [op |-> op, version |-> templates[row].version,
                     content |-> templates[row].content,
                     started |-> Cardinality(Instance)
                                 + Cardinality({p \in Operator : desk[p].op = "start"})]]
    /\ UNCHANGED <<templates, instances>>

(* revise_template and apply_evolution append a version to the one that was read. *)
Revise(o) ==
    /\ desk[o].op \in {"revise", "evolve"}
    /\ Len(templates) < MaxRows
    /\ \E c \in IF desk[o].op = "revise" THEN Revised(desk[o].content)
                ELSE Evolved(desk[o].content) :
        templates' = Append(templates, [version |-> desk[o].version + 1, content |-> c])
    /\ desk' = [desk EXCEPT ![o] = Idle]
    /\ UNCHANGED <<instances, acts>>

NewInstance(version, content, started, concerns) ==
    [version |-> version, content |-> content, status |-> "active", started |-> started,
     concerns |-> concerns, trace |-> <<>>]

(* start_instance freezes the content and notes what is known against the version. *)
Start(o) ==
    /\ desk[o].op = "start"
    /\ Len(instances) < MaxInstances
    /\ instances' = Append(instances,
            NewInstance(desk[o].version, desk[o].content, desk[o].started,
                        Concerns(desk[o].version)))
    /\ desk' = [desk EXCEPT ![o] = Idle]
    /\ UNCHANGED <<templates, acts>>

(* A gate decision; that of a plan step also releases the step, see PlanGates. *)
ResolveGate(i, step, verdict) ==
    Record(i, verdict, step, "active")

FlagDeviation(i, d) == Record(i, "deviation.flagged", d, "awaiting_gate")

ResolveDeviation(i, verdict) == Record(i, verdict, "operator", "active")

RecordOverride(i) == Record(i, "override.invoked", "operator", "active")

CompleteInstance(i) == Record(i, "instance.completed", "operator", "completed")
AbandonInstance(i) == Record(i, "instance.abandoned", "operator", "abandoned")

Decide(i) ==
    /\ Act
    /\ Room(i)
    /\ \/ \E s \in Step, v \in {"gate.approved", "gate.rejected"} : ResolveGate(i, s, v)
       \/ \E d \in Deviation : FlagDeviation(i, d)
       \/ \E v \in {"deviation.approved", "deviation.rejected"} : ResolveDeviation(i, v)
       \/ RecordOverride(i)
       \/ CompleteInstance(i)
       \/ AbandonInstance(i)
    /\ UNCHANGED <<templates, desk>>

(* A template with one version, under which the conversation may already run. *)
ProcessInit ==
    \E c \in Content :
        /\ templates = <<[version |-> 1, content |-> c]>>
        /\ instances \in {<<>>, <<NewInstance(1, c, 0, {})>>}
        /\ desk = [o \in Operator |-> Idle]

ProcessNext ==
    \/ \E o \in Operator :
        \/ \E op \in {"revise", "evolve", "start"} : Read(o, op)
        \/ Revise(o)
        \/ Start(o)
    \/ \E i \in Instance : Decide(i)

(* Every instance runs under the text of a row of its version. *)
ProcessTypeOK ==
    /\ \A i \in DOMAIN templates : templates[i].version \in 1 .. MaxRows
                                   /\ templates[i].content \in Content
    /\ \A i \in Instance :
        /\ \E j \in DOMAIN templates : /\ templates[j].version = instances[i].version
                                       /\ templates[j].content = instances[i].content
        /\ instances[i].status \in {"active", "awaiting_gate"} \cup Terminal
        /\ instances[i].trace \in Seq(Event \X (Step \cup Deviation \cup {"operator"}))
    /\ \A o \in Operator : desk[o].op \in {"idle", "revise", "evolve", "start"}
=============================================================================
