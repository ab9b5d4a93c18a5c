--------------------------- MODULE RunDefinitions ---------------------------
(***************************************************************************)
(* How a RunDef is found and made a pipeline (rundef/): discovery of the   *)
(* YAML files of a project, validation, selection by id, compilation, and  *)
(* the comparison a recovery with changed timeouts asks for.               *)
(*                                                                         *)
(* A file is what the loader tells apart: is it listed (a regular *.yaml   *)
(* file), can it be read and parsed, and which candidate is in it.  "rest" *)
(* stands for the fields of a stage nothing here decides on (its workflow  *)
(* or its command and arguments), "timeout", "budget", "gate" and "onFail" *)
(* may be absent.                                                          *)
(***************************************************************************)
EXTENDS Integers, Sequences

CONSTANTS
    RunDefId,           \* the RunDef a dispatch asks for
    RegisteredGates,    \* the payload gates that are registered
    ReviewGates         \* those whose name starts with "code-review"

None        == "none"      \* a gate or a target that is not there
NoNumber    == -1
EmptyBudget == -2          \* a budget without a ceiling

NoDef == [id |-> None, stages |-> <<>>]

ASSUME RunDefinitionsAssumption ==
    /\ ReviewGates \subseteq RegisteredGates
    /\ None \notin RegisteredGates

\* A candidate: what a file may hold that parses as the shape of a RunDef.
RawStageType ==
    [id: STRING, kind: STRING, gate: STRING, onFail: STRING, timeout: Int, budget: Int, rest: Int]
RawRunDefType == [id: STRING, stages: Seq(RawStageType)]
FileType == [name: STRING, listed: BOOLEAN, readable: BOOLEAN, def: RawRunDefType]

-----------------------------------------------------------------------------
(* schema.ts *)

\* The stage schemas: one of two kinds, an integer timeout of at least 1, and no
\* field of the other kind.
IsStage(stage) ==
    /\ stage.kind \in {"agent", "code"}
    /\ stage.timeout = NoNumber \/ stage.timeout >= 1
    /\ stage.kind = "code" => stage.gate = None /\ stage.budget = NoNumber
    /\ stage.budget >= EmptyBudget

\* The first stage with an id, findIndex; 0 when there is none.
IndexOf(def, id) ==
    IF \E i \in DOMAIN def.stages : def.stages[i].id = id
    THEN CHOOSE i \in DOMAIN def.stages :
            /\ def.stages[i].id = id
            /\ \A j \in 1..(i - 1) : def.stages[j].id # id
    ELSE 0

OnFailTargetExists(def, i) ==
    def.stages[i].onFail # None => IndexOf(def, def.stages[i].onFail) # 0

\* checkOnFailTarget
OnFailTargetIsEarlier(def, i) ==
    def.stages[i].onFail # None => IndexOf(def, def.stages[i].onFail) \in 1..(i - 1)

\* validateRunDef: the schema, then the cross-field checks.
IsRunDef(def) ==
    /\ def.stages # <<>>
    /\ \A i \in DOMAIN def.stages :
         LET stage == def.stages[i] IN
         /\ IsStage(stage)
         /\ \A j \in 1..(i - 1) : def.stages[j].id # stage.id
         /\ stage.gate # None => stage.onFail # None
         /\ stage.kind = "agent" /\ stage.onFail # None => stage.gate # None
         /\ OnFailTargetIsEarlier(def, i)
         /\ stage.kind = "agent" => stage.budget # EmptyBudget

-----------------------------------------------------------------------------
(* loader.ts, selector.ts *)

\* One file that cannot be loaded, or two RunDefs of one id, fail the discovery.
CanDiscover(files) ==
    \A f \in files :
      f.listed =>
        /\ f.readable /\ IsRunDef(f.def)
        /\ \A g \in files : g.listed /\ g.def.id = f.def.id => g = f

\* selectRunDef; NoDef when it throws.
SelectRunDef(files) ==
    IF CanDiscover(files) /\ \E f \in files : f.listed /\ f.def.id = RunDefId
    THEN (CHOOSE f \in files : f.listed /\ f.def.id = RunDefId).def
    ELSE NoDef

-----------------------------------------------------------------------------
(* compile.ts *)

\* A compiled stage; its failure target is the position it will be routed to.
CompileStage(def, i) ==
    LET stage == def.stages[i] IN
    [kind   |-> stage.kind,
     gate   |-> stage.gate # None,
     review |-> stage.gate \in ReviewGates,
     onFail |-> IF stage.onFail = None THEN 0 ELSE IndexOf(def, stage.onFail),
     budget |-> stage.budget]

CompileRunDef(def) == [i \in DOMAIN def.stages |-> CompileStage(def, i)]

\* selectAndCompileRunDef: a gate that is not registered throws.
SelectAndCompileRunDef(files) ==
    LET def == SelectRunDef(files)
    IN  IF \A i \in DOMAIN def.stages : def.stages[i].gate \in RegisteredGates \cup {None}
        THEN def ELSE NoDef

-----------------------------------------------------------------------------
(* identity.ts; a RunDef stands for its own digest *)

EqualStageIds(d, e) ==
    /\ d.id = e.id
    /\ DOMAIN d.stages = DOMAIN e.stages
    /\ \A i \in DOMAIN d.stages : d.stages[i].id = e.stages[i].id

WithoutTimeout(stage) == [stage EXCEPT !.timeout = NoNumber]

\* runDefsEqualExceptStageTimeouts
EqualExceptTimeouts(d, e) ==
    /\ d.id = e.id
    /\ DOMAIN d.stages = DOMAIN e.stages
    /\ \A i \in DOMAIN d.stages : WithoutTimeout(d.stages[i]) = WithoutTimeout(e.stages[i])
=============================================================================
