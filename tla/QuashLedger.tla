---------------------------- MODULE QuashLedger ----------------------------
(***************************************************************************)
(* Transactions of restricted keys that have a delay.  A node notes such a *)
(* transaction under the second it is due and keeps it until then, while   *)
(* other keys may quash it; then the main loop takes it, for the next      *)
(* block it makes itself.                                                  *)
(*                                                                         *)
(* Time is in steps of a second.  What a block of another node does with a *)
(* transaction that this node holds is left out.                           *)
(*                                                                         *)
(* A definition whose name ends in "Faulty" is a variant with a plausible  *)
(* mistake, not part of the model.                                         *)
(***************************************************************************)
EXTENDS Integers, Sequences, FiniteSets

LOCAL INSTANCE SequencesExt

CONSTANTS
    Txn,          \* transactions with a delay
    Key,          \* keys that may quash
    Delays,       \* the delays of the keys that sign the transactions
    Threshold,    \* the contract's quash_threshold
    None,
    MaxTime,      \* bound on the time
    MaxVotes,     \* bound on the votes against one transaction
    MaxRestarts   \* bound on the restarts

VARIABLES
    held,         \* when each transaction is due and when its delay expires
    entry,        \* the ledger entry a job has read, before it writes it back
    timed,        \* db_timed_txns
    ledger,       \* db_quash_ledger: transactions by the second they are due
    lookup,       \* db_quash_lookup: the keys in stored blocks, by transaction
    noted,        \* quash_tracker::quash_keys: the keys since the last block
    listed,       \* quash_tracker::quash_list
    snapshot,     \* timed_keys and timed_values of the main loop
    header,       \* the timestamp of the last block
    clock, restarts,
    ran,          \* how often each transaction has been carried out
    quashed,      \* by which keys each was quashed, as recorded in a block
    dropped       \* transactions that have left the ledger and will not be carried out

vars == <<held, entry, timed, ledger, lookup, noted, listed, snapshot, header, clock, restarts,
          ran, quashed, dropped>>
ledgerVars == <<entry, timed, ledger>>
voteVars == <<lookup, noted, listed, quashed>>

NoVotes == [t \in Txn |-> <<>>]
Seconds == 0 .. MaxTime + 2

TypeOK ==
    /\ held \in [Txn -> [due : Seconds, expires : Seconds] \union {None}]
    /\ entry \in [Txn -> Seq(Txn) \union {None}]
    /\ timed \subseteq Txn /\ ledger \in [Seconds -> Seq(Txn)]
    /\ lookup \in [Txn -> Seq(Key)] /\ noted \in [Txn -> Seq(Key)] /\ listed \subseteq Txn
    /\ snapshot = None \/ (/\ snapshot.keys \in Seq(Txn) /\ snapshot.values \in Seq(Txn \union {None})
                           /\ Len(snapshot.keys) = Len(snapshot.values))
    /\ header <= clock /\ clock <= MaxTime
    /\ ran \in [Txn -> Nat] /\ quashed \in [Txn -> Seq(Key)]

Init ==
    /\ held = [t \in Txn |-> None] /\ entry = [t \in Txn |-> None]
    /\ timed = {} /\ ledger = [s \in Seconds |-> <<>>]
    /\ lookup = NoVotes /\ noted = NoVotes /\ listed = {} /\ quashed = NoVotes
    /\ snapshot = None /\ header = 0 /\ clock = 0 /\ restarts = 0
    /\ ran = [t \in Txn |-> 0] /\ dropped = {}

-----------------------------------------------------------------------------
(* A job holds a transaction: it reads the entry of the second it is due   *)
(* and writes it back, one longer.  The transaction may be a second old.   *)
Hold(t, delay, age) ==
    /\ held[t] = None /\ age <= clock
    /\ held' = [held EXCEPT ![t] = [due |-> clock + delay, expires |-> clock - age + delay]]
    /\ entry' = [entry EXCEPT ![t] = ledger[clock + delay]]
    /\ UNCHANGED <<timed, ledger, voteVars, snapshot, header, clock, restarts, ran, dropped>>

make_quash_ledger(t) ==
    /\ entry[t] # None
    /\ ledger' = [ledger EXCEPT ![held[t].due] = Append(entry[t], t)]
    /\ timed' = timed \union {t}
    /\ entry' = [entry EXCEPT ![t] = None]
    /\ dropped' = dropped \union (ToSet(ledger[held[t].due]) \ ToSet(entry[t]))
    /\ UNCHANGED <<held, voteVars, snapshot, header, clock, restarts, ran>>

(* A quash transaction is accepted while the last block is older than the  *)
(* end of the delay, which counts from the timestamp of the transaction.   *)
check_wrapper(t) == header < held[t].expires

check_parametersFaulty(t, k) ==
    /\ t \in timed /\ check_wrapper(t) /\ k \notin ToSet(lookup[t])
    /\ listed' = IF Len(lookup[t]) + 1 >= Threshold THEN listed \union {t} ELSE listed
    /\ noted' = [noted EXCEPT ![t] = Append(@, k)]
    /\ UNCHANGED <<held, ledgerVars, lookup, quashed, snapshot, header, clock, restarts, ran, dropped>>

check_parameters(t, k) ==
    /\ t \in timed /\ check_wrapper(t) /\ k \notin ToSet(lookup[t])
    /\ listed' = IF Len(lookup[t]) >= Threshold THEN listed \union {t} ELSE listed
    /\ noted' = [noted EXCEPT ![t] = Append(@, k)]
    /\ UNCHANGED <<held, ledgerVars, lookup, quashed, snapshot, header, clock, restarts, ran, dropped>>

Quash(t, k) == Len(lookup[t] \o noted[t]) < MaxVotes /\ check_parameters(t, k)

-----------------------------------------------------------------------------
(* get_timed_txns: what is due leaves the ledger.  The text of a           *)
(* transaction that is no longer there stays that of the one before it,    *)
(* and for the first one that of the ledger entry, which is none.          *)
Values(keys) ==
    Tail(FoldLeft(LAMBDA vs, t : Append(vs, IF t \in timed THEN t ELSE Last(vs)), <<None>>, keys))
DueFaulty == {s \in Seconds : s <= clock + 1}
Due == {s \in Seconds : s <= clock}
AllOf(f, seconds) == FlattenSeq([s \in 1 .. MaxTime + 3 |-> IF s - 1 \in seconds THEN f[s - 1] ELSE <<>>])

get_timed_txns ==
    /\ snapshot = None
    /\ \E s \in Due : ledger[s] # <<>>
    /\ snapshot' = [keys |-> AllOf(ledger, Due),
                    values |-> AllOf([s \in Seconds |-> Values(ledger[s])], Due),
                    late |-> FALSE]
    /\ ledger' = [s \in Seconds |-> IF s \in Due THEN <<>> ELSE ledger[s]]
    /\ UNCHANGED <<held, entry, timed, voteVars, header, clock, restarts, ran, dropped>>

(* quash_result: at the end of a block, of this node or of another one.    *)
quash_resultFaulty(left) ==
    /\ lookup' = [t \in Txn |-> IF t \in listed THEN <<>> ELSE lookup[t] \o noted[t]]
    /\ quashed' = [t \in Txn |-> IF t \in listed THEN lookup[t] \o noted[t] ELSE quashed[t]]
    /\ timed' = left
    /\ noted' = NoVotes /\ listed' = {}

quash_result(left) ==
    /\ lookup' = [t \in Txn |-> IF t \in listed THEN <<>> ELSE lookup[t] \o noted[t]]
    /\ quashed' = [t \in Txn |-> IF t \in listed THEN lookup[t] \o noted[t] ELSE quashed[t]]
    /\ timed' = left \ listed
    /\ noted' = NoVotes /\ listed' = {}

(* process_txns carries out what was taken, in spite of its marks and      *)
(* nonces, before the votes are counted.                                   *)
Times(t, values) == Len(SelectSeq(values, LAMBDA v : v = t))
OwnBlock ==
    /\ snapshot # None
    /\ ran' = [t \in Txn |-> ran[t] + Times(t, snapshot.values)]
    /\ quash_result(timed \ ToSet(snapshot.keys))
    /\ snapshot' = None /\ header' = clock
    /\ UNCHANGED <<held, entry, ledger, clock, restarts, dropped>>

OtherBlock ==
    /\ quash_result(timed)
    /\ snapshot' = IF snapshot = None THEN None ELSE [snapshot EXCEPT !.late = TRUE]
    /\ header' = clock
    /\ UNCHANGED <<held, entry, ledger, clock, restarts, ran, dropped>>

(* A new block while the main loop waits for its turn: what it has taken   *)
(* is forgotten.                                                           *)
NotMyTurn ==
    /\ snapshot # None /\ snapshot.late
    /\ dropped' = dropped \union ToSet(snapshot.keys)
    /\ snapshot' = None
    /\ UNCHANGED <<held, ledgerVars, voteVars, header, clock, restarts, ran>>

Tick ==
    /\ clock < MaxTime /\ clock' = clock + 1
    /\ UNCHANGED <<held, ledgerVars, voteVars, snapshot, header, restarts, ran, dropped>>

Restart ==
    /\ restarts < MaxRestarts /\ restarts' = restarts + 1
    /\ noted' = NoVotes /\ listed' = {}
    /\ dropped' = dropped \union {t \in Txn : entry[t] # None}
                    \union (IF snapshot = None THEN {} ELSE ToSet(snapshot.keys))
    /\ entry' = [t \in Txn |-> None] /\ snapshot' = None
    /\ UNCHANGED <<held, timed, ledger, lookup, quashed, header, clock, ran>>

Next ==
    \/ \E t \in Txn, delay \in Delays, age \in 0 .. 1 : Hold(t, delay, age)
    \/ \E t \in Txn : make_quash_ledger(t)
    \/ \E t \in Txn, k \in Key : Quash(t, k)
    \/ get_timed_txns \/ OwnBlock \/ OtherBlock \/ NotMyTurn \/ Tick \/ Restart

-----------------------------------------------------------------------------
(* Properties.                                                             *)

(* No transaction is carried out before its delay is over.                 *)
RunsWhenDue == \A t \in Txn : ran[t] > 0 => clock >= held[t].due

(* None is carried out twice, unless another one of the same second was    *)
(* quashed: its place is taken by the text of the one before it.           *)
RunsOnce ==
    \A t \in Txn :
        ran[t] > 1 => \E u \in Txn \ {t} : quashed[u] # <<>> /\ held[u].due = held[t].due

(* It takes one quash transaction more than the threshold, and more than   *)
(* one key, although one key may vote several times in a block.            *)
QuashedByMany ==
    \A t \in Txn :
        quashed[t] # <<>> => Len(quashed[t]) > Threshold /\ Cardinality(ToSet(quashed[t])) > 1

(* What is held comes to its turn: it is in the ledger, or about to be, or *)
(* taken for a block.  Two things lose it: another transaction is entered  *)
(* for the same second at the same time, or the node takes it and another  *)
(* one makes the block, or the node dies.                                  *)
Taken(t) == snapshot # None /\ t \in ToSet(snapshot.values)
HeldIsListed ==
    \A t \in Txn :
        held[t] # None /\ ran[t] = 0 /\ quashed[t] = <<>> /\ t \notin dropped =>
            entry[t] # None \/ t \in ToSet(ledger[held[t].due]) \/ Taken(t)

(* A transaction that was quashed before the main loop took it is neither  *)
(* taken nor carried out.                                                  *)
QuashedStaysOut ==
    [][\A t \in Txn :
          quashed[t] # <<>> /\ ~ Taken(t) => ran'[t] = ran[t] /\ ~ Taken(t)']_vars

(* A transaction with a delay is carried out once, when the delay is over, *)
(* if it was not quashed, and not at all if it was.                        *)
HeldKept == [](TypeOK /\ RunsWhenDue /\ RunsOnce /\ QuashedByMany /\ HeldIsListed) /\ QuashedStaysOut
=============================================================================
