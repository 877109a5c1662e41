---------------------------- MODULE EventSourcing ----------------------------
(***************************************************************************)
(* One event-sourced account: event_sourcing_pattern/store.py (one stream    *)
(* per account), aggregate.py (BankAccount), and projector.py (project).      *)
(*                                                                         *)
(* A writer is a caller that loads the aggregate by replay, issues commands   *)
(* and appends each event it gets, awaiting the store in between.  The        *)
(* aggregate applies an event before it is appended, and nothing compares it   *)
(* with the stream: several writers may interleave, a read may be truncated,    *)
(* and an append that raises leaves the aggregate ahead of the stream.           *)
(***************************************************************************)
EXTENDS Integers, Sequences, StreamOps

CONSTANTS
  Writers,       \* callers that work on the account
  Amounts,       \* amounts of the commands
  NoEvent,       \* no event waits to be appended
  PageSize,      \* count= of EventStore.read (100 in the code)
  MaxEvents,     \* bound: no command once the stream is this long
  MaxFailures    \* bound: times an append raises, or is cancelled

ASSUME PageAssumption == PageSize \in Nat \ {0}
ASSUME AmountAssumption == Amounts \subseteq Nat \ {0}
ASSUME EventBoundAssumption == MaxEvents \in Nat /\ MaxFailures \in Nat

Created == [type |-> "AccountCreated", amount |-> 0]
Deposited(a) == [type |-> "MoneyDeposited", amount |-> a]
Withdrawn(a) == [type |-> "MoneyWithdrawn", amount |-> a]
Events == {Created} \cup {Deposited(a) : a \in Amounts} \cup {Withdrawn(a) : a \in Amounts}

VARIABLES
  log,           \* the account's stream
  at,            \* each writer: "out" (no aggregate), "ready", "append"
  account,       \* each writer's BankAccount
  event,         \* the event each writer is about to append
  prj,           \* where project() is: "off", "read", "sleep", "done"
  summary,       \* its AccountSummary (balance and version)
  lastId,        \* its last_id
  expected,      \* its expected_version
  diverged,      \* writers whose aggregate missed an entry or lost one (observation)
  blind,         \* entries appended by a writer that had diverged (observation)
  failures

writer == <<at, account, event>>
projector == <<prj, summary, lastId, expected>>
esVars == <<log, at, account, event, prj, summary, lastId, expected, diverged, blind, failures>>

NewAccount == [balance |-> 0, version |-> 0, created |-> FALSE]
NewSummary == [balance |-> 0, version |-> 0]

EsInit ==
  /\ log = <<>>
  /\ at = [w \in Writers |-> "out"] /\ account = [w \in Writers |-> NewAccount]
  /\ event = [w \in Writers |-> NoEvent]
  /\ prj = "off" /\ summary = NewSummary /\ lastId = 0 /\ expected = 0
  /\ diverged = {} /\ blind = {} /\ failures = 0

-----------------------------------------------------------------------------
(* The two folds over events.                                               *)

Delta(e) == CASE e.type = "MoneyDeposited" -> e.amount
              [] e.type = "MoneyWithdrawn" -> -e.amount
              [] e.type = "AccountCreated" -> 0

(* BankAccount._apply, used by the commands and by replay.                   *)
_apply(acc, e) ==
  [balance |-> acc.balance + Delta(e),
   version |-> acc.version + 1,
   created |-> acc.created \/ e.type = "AccountCreated"]

(* BankAccount.replay of the first n events of a history.                      *)
replay(history, n) ==
  LET after[i \in 0..n] == IF i = 0 THEN NewAccount ELSE _apply(after[i - 1], history[i])
  IN after[n]

(* XREAD: the next page after an id.                                         *)
read(after) == FirstN({i \in DOMAIN log : after < i}, PageSize)

-----------------------------------------------------------------------------
(* A writer.                                                                *)

(* The aggregate is rebuilt from one read of the stream, all of it or a page. *)
Load(w) ==
  /\ at[w] = "out"
  /\ account' = [account EXCEPT ![w] = replay(log, Cardinality(read(0)))]
  /\ at' = [at EXCEPT ![w] = "ready"]
  /\ diverged' = IF Cardinality(read(0)) = Len(log) THEN diverged ELSE diverged \cup {w}
  /\ UNCHANGED <<log, event, projector, blind, failures>>

(* A command that passed its checks: the event is applied, then handed over. *)
Produce(w, e) ==
  /\ account' = [account EXCEPT ![w] = _apply(@, e)]
  /\ event' = [event EXCEPT ![w] = e]
  /\ at' = [at EXCEPT ![w] = "append"]
  /\ UNCHANGED <<log, projector, diverged, blind, failures>>

create(w) ==
  /\ at[w] = "ready" /\ Len(log) < MaxEvents /\ ~account[w].created
  /\ Produce(w, Created)

deposit(w, a) ==
  /\ at[w] = "ready" /\ Len(log) < MaxEvents /\ account[w].created
  /\ Produce(w, Deposited(a))

(* Mutant: the balance check is off by one.                                  *)
WithdrawOneMore(w, a) ==
  /\ at[w] = "ready" /\ Len(log) < MaxEvents /\ account[w].created
  /\ a =< account[w].balance + 1
  /\ Produce(w, Withdrawn(a))

withdraw(w, a) ==
  /\ at[w] = "ready" /\ Len(log) < MaxEvents /\ account[w].created
  /\ a =< account[w].balance
  /\ Produce(w, Withdrawn(a))

(* XADD: every other aggregate that was loaded has missed this entry.         *)
AddToLog(w) ==
  /\ log' = Append(log, event[w])
  /\ blind' = IF w \in diverged THEN blind \cup {Len(log) + 1} ELSE blind
  /\ diverged' = diverged \cup {v \in Writers \ {w} : at[v] # "out"}

append(w) ==
  /\ at[w] = "append"
  /\ AddToLog(w)
  /\ at' = [at EXCEPT ![w] = "ready"] /\ event' = [event EXCEPT ![w] = NoEvent]
  /\ UNCHANGED <<account, projector, failures>>

(* The append raises, or the caller is cancelled in it, the XADD applied or    *)
(* not.  The aggregate has applied the event either way, and the caller still   *)
(* holds it.                                                                *)
AppendRaises(w) ==
  /\ at[w] = "append" /\ failures < MaxFailures
  /\ \/ AddToLog(w)
     \/ diverged' = diverged \cup {w} /\ UNCHANGED <<log, blind>>
  /\ at' = [at EXCEPT ![w] = "ready"] /\ event' = [event EXCEPT ![w] = NoEvent]
  /\ failures' = failures + 1
  /\ UNCHANGED <<account, projector>>

(* The caller is done with the account, or dies with its aggregate.          *)
Leave(w) ==
  /\ at[w] = "ready"
  /\ at' = [at EXCEPT ![w] = "out"]
  /\ account' = [account EXCEPT ![w] = NewAccount]
  /\ diverged' = diverged \ {w}
  /\ UNCHANGED <<log, event, projector, blind, failures>>

-----------------------------------------------------------------------------
(* The projector.                                                           *)

(* project() is called with the version of some caller's aggregate.          *)
StartProject(w) ==
  /\ prj \in {"off", "done"} /\ at[w] = "ready"
  /\ prj' = "read" /\ summary' = NewSummary /\ lastId' = 0
  /\ expected' = account[w].version
  /\ UNCHANGED <<log, writer, diverged, blind, failures>>

(* AccountSummary.apply over a page.                                         *)
apply(page) ==
  LET upto == IF page = {} THEN lastId ELSE Newest(page)
      total[i \in lastId..upto] ==
        IF i = lastId THEN summary.balance ELSE total[i - 1] + Delta(log[i])
  IN summary' = [balance |-> total[upto], version |-> summary.version + Cardinality(page)]

(* Mutant: the loop waits for more than it was asked for.                    *)
ProjectPastExpected ==
  /\ prj = "read"
  /\ LET page == read(lastId) IN
       /\ apply(page)
       /\ lastId' = IF page = {} THEN lastId ELSE Newest(page)
  /\ prj' = IF summary'.version > expected THEN "done" ELSE "sleep"
  /\ UNCHANGED <<log, writer, expected, diverged, blind, failures>>

(* Mutant: the cursor stays where it was.                                    *)
ProjectRereads ==
  /\ prj = "read"
  /\ apply(read(lastId))
  /\ lastId' = lastId
  /\ prj' = IF summary'.version >= expected THEN "done" ELSE "sleep"
  /\ UNCHANGED <<log, writer, expected, diverged, blind, failures>>

(* One turn of the loop: read a page, fold it, compare the version.          *)
Project ==
  /\ prj = "read"
  /\ LET page == read(lastId) IN
       /\ apply(page)
       /\ lastId' = IF page = {} THEN lastId ELSE Newest(page)
  /\ prj' = IF summary'.version >= expected THEN "done" ELSE "sleep"
  /\ UNCHANGED <<log, writer, expected, diverged, blind, failures>>

ProjectorWakes ==
  /\ prj = "sleep"
  /\ prj' = "read"
  /\ UNCHANGED <<log, writer, summary, lastId, expected, diverged, blind, failures>>

(* The caller sets stop_event, seen at the top of the loop.                  *)
ProjectorStops ==
  /\ prj = "read"
  /\ prj' = "done"
  /\ UNCHANGED <<log, writer, summary, lastId, expected, diverged, blind, failures>>

EsNext ==
  \/ \E w \in Writers :
       \/ Load(w) \/ create(w)
       \/ \E a \in Amounts : deposit(w, a) \/ withdraw(w, a)
       \/ append(w) \/ AppendRaises(w) \/ Leave(w)
       \/ StartProject(w)
  \/ Project \/ ProjectorWakes \/ ProjectorStops

EsSpec == EsInit /\ [][EsNext]_esVars

(* The event loop runs project().                                            *)
EsFairSpec == EsSpec /\ WF_esVars(Project \/ ProjectorWakes)

-----------------------------------------------------------------------------
(* Properties.                                                              *)

(* Every variable has the values its code can give it.                      *)
EsTypeOK ==
  /\ log \in Seq(Events)
  /\ at \in [Writers -> {"out", "ready", "append"}]
  /\ account \in [Writers -> [balance : Int, version : Nat, created : BOOLEAN]]
  /\ event \in [Writers -> Events \cup {NoEvent}]
  /\ prj \in {"off", "read", "sleep", "done"}
  /\ summary \in [balance : Int, version : Nat]
  /\ lastId \in 0..Len(log) /\ expected \in Nat
  /\ diverged \subseteq Writers /\ blind \subseteq DOMAIN log
  /\ failures \in 0..MaxFailures

(* An entry that the entries before it do not permit (a second AccountCreated,   *)
(* an event of an account not opened, a withdrawal that overdraws) is appended     *)
(* only from an aggregate that has diverged from the stream, by a truncated read,   *)
(* another writer's entry or an append of its own that raised; every other         *)
(* aggregate at rest is the replay of the whole stream.  Racing writers and          *)
(* truncated reads never append to an account that was not opened: that takes an     *)
(* append that raised.                                                         *)
InvalidEntryNeedsDivergence ==
  /\ \A n \in DOMAIN log \ blind :
       /\ log[n] = Created <=> ~replay(log, n - 1).created
       /\ log[n].type = "MoneyWithdrawn" => replay(log, n).balance >= 0
  /\ \A w \in Writers : at[w] = "ready" /\ w \notin diverged =>
       account[w] = replay(log, Len(log))
  /\ failures = 0 /\ log # <<>> => log[1] = Created

(* The read model is the fold of the prefix it has read, at every moment and     *)
(* however pages and appends interleave: no event is skipped or applied twice.    *)
SummaryIsReplay ==
  /\ EsTypeOK
  /\ prj # "off" =>
       /\ summary.version = lastId
       /\ summary.balance = replay(log, lastId).balance

(* project() returns once the stream holds what it was asked for, also when that  *)
(* takes several pages.                                                          *)
ProjectorCatchesUp ==
  (prj \in {"read", "sleep"} /\ expected =< Len(log)) ~> prj = "done"

=============================================================================
