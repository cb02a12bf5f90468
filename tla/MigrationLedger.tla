-------------------------- MODULE MigrationLedger --------------------------
(***************************************************************************)
(* What package migrate promises about the database, without runners,      *)
(* locks, connections or log files: files are applied and reverted one at  *)
(* a time, statement by statement in file order; a version is recorded     *)
(* when all its statements have run and removed when all its Down          *)
(* statements have; reverting takes the latest registration; an attempt    *)
(* may be abandoned at any point, leaving its effects behind, and a        *)
(* statement of an abandoned attempt may still take effect later.          *)
(***************************************************************************)
EXTENDS MigratePlan

CONSTANT Bodies        \* the contents a file of each version may have

VARIABLES schema, managed, history,
          attempt,     \* the file being executed: {} or one attempt
          stray        \* statements abandoned with their outcome unknown

vars == <<schema, managed, history, attempt, stray>>

LedgerInit == managed = FALSE /\ history = <<>> /\ attempt = {} /\ stray = {}

\* The version table is created before the first attempt.
Manage ==
    /\ ~managed /\ managed' = TRUE
    /\ UNCHANGED <<schema, history, attempt, stray>>

\* Up takes an unrecorded version, Down the latest registration.
Begin(v, direction, body) ==
    /\ managed /\ attempt = {}
    /\ \/ direction = "up" /\ v \notin DOMAIN history
       \/ /\ direction = "down" /\ v \in DOMAIN history /\ Reversible(body)
          /\ \A w \in DOMAIN history : history[w] <= history[v]
    /\ attempt' = {[version |-> v, direction |-> direction,
                    todo |-> IF direction = "up" THEN body.up ELSE body.down]}
    /\ UNCHANGED <<schema, managed, history, stray>>

RunNext(t) ==
    /\ t.todo # <<>> /\ ~Rejected(schema, Head(t.todo))
    /\ schema' = Executed(schema, Head(t.todo))
    /\ attempt' = {[t EXCEPT !.todo = Tail(@)]}
    /\ UNCHANGED <<managed, history, stray>>

\* The record, in one step with the end of the attempt.
Register(t) ==
    /\ t.todo = <<>>
    /\ attempt' = {}
    /\ \/ /\ t.direction = "up" /\ t.version \notin DOMAIN history
          /\ \E now \in Times :
                /\ \A w \in DOMAIN history : history[w] < now
                /\ history' = [w \in DOMAIN history \cup {t.version} |->
                                  IF w = t.version THEN now ELSE history[w]]
       \/ /\ t.direction = "down"
          /\ history' = Restrict(history, DOMAIN history \ {t.version})
    /\ UNCHANGED <<schema, managed, stray>>

\* An error, a crash or a lost connection.
Abandon(t) ==
    /\ attempt' = {}
    /\ stray' \in {stray} \cup (IF t.todo = <<>> THEN {} ELSE {stray \cup {Head(t.todo)}})
    /\ UNCHANGED <<schema, managed, history>>

\* A database that is adopted records its first version and nothing else.
Adopt(v) ==
    /\ managed /\ attempt = {} /\ DOMAIN history = {}
    /\ \E now \in Times : history' = [w \in {v} |-> now]
    /\ UNCHANGED <<schema, managed, attempt, stray>>

\* A late statement arrives, or is known not to.
Arrive ==
    /\ \E s \in stray :
          /\ schema' \in {schema, IF Rejected(schema, s) THEN schema ELSE Executed(schema, s)}
          /\ stray' \in {stray, stray \ {s}}
    /\ UNCHANGED <<managed, history, attempt>>

LedgerNext ==
    \/ Manage \/ Arrive
    \/ \E v \in Versions : Adopt(v)
    \/ \E v \in Versions, d \in {"up", "down"} : \E b \in Bodies[v] : Begin(v, d, b)
    \/ \E t \in attempt : RunNext(t) \/ Register(t) \/ Abandon(t)

LedgerSpec == LedgerInit /\ [][LedgerNext]_vars

=============================================================================
