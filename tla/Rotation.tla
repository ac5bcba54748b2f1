------------------------------ MODULE Rotation ------------------------------
(***************************************************************************)
(* Who makes the next block, as one validator, Self, sees it.  The main    *)
(* loop elects an order of proposers from the stakes archived with its     *)
(* last block, waits for the first of them, gives up on it after some      *)
(* attempts and waits for the next one, and makes a block when it is its   *)
(* own turn.  Meanwhile a broadcast thread stores blocks of peers, and     *)
(* with every block the databases of validators change: registrations,     *)
(* unbonding, heartbeats, the record of the block's proposer, the archive  *)
(* of stakes.  A store writes its databases one after the other, and jobs  *)
(* and the main loop read them in between.                                 *)
(*                                                                         *)
(* A validator is registered with the wallet's key and a key it generates  *)
(* anew at every start: db_validator_lookup leads from the one to the      *)
(* other, and db_validators from that one to the record.                   *)
(*                                                                         *)
(* Left out: versions (every validator runs a required one), currencies    *)
(* other than the first (see Stake), the nonces of peers, forks (a block   *)
(* extends the last one), and a peer's block while the node stores its     *)
(* own.  The 450 rounds between two heartbeats are not counted: a round    *)
(* may send one.                                                           *)
(*                                                                         *)
(* A definition whose name ends in "Faulty" is a variant with a plausible  *)
(* mistake, not part of the model.                                         *)
(***************************************************************************)
EXTENDS Integers, SequencesExt

CONSTANTS
    Validator,   \* wallets that are or may become validators
    Self,        \* the one this node belongs to
    KeysOf,      \* KeysOf[v]: keys v can generate, in the order of its starts
    NoKey,       \* the empty key
    None,        \* nobody, or nothing stored
    Order,       \* the validators in the order in which an election walks them
    Funds,       \* Funds[v]: what v's wallet holds at the start
    Attempts,    \* how often a node looks for a proposer's block: 5 in the code
    Window,      \* how old a heartbeat may be, in blocks: 500 in the code
    Unbonding,   \* how long a validator's wallet stays closed: seven days
    MaxHeight,   \* bound: blocks of the chain
    MaxTime,     \* bound: the clock of the blocks' timestamps
    MaxTxns,     \* bound: transactions that arrive
    MaxRestarts  \* bound: how often the node restarts

ASSUME SelfAssumption == Self \in Validator /\ None \notin Validator
ASSUME OrderAssumption == Order \in Seq(Validator) /\ ToSet(Order) = Validator /\ IsInjective(Order)
ASSUME AttemptsAssumption == Attempts \in Nat \ {0} /\ Window \in Nat /\ Unbonding \in Nat
ASSUME FundsAssumption == Funds \in [Validator -> Nat]
ASSUME BoundsAssumption == MaxHeight \in Nat /\ MaxTime \in Nat

Key == UNION {ToSet(KeysOf[v]) : v \in Validator}
ASSUME KeysAssumption ==
    /\ NoKey \notin Key
    /\ KeysOf \in [Validator -> Seq(Key)]
    /\ \A v \in Validator : KeysOf[v] # <<>> /\ IsInjective(KeysOf[v])
    /\ \A v, w \in Validator : v # w => ToSet(KeysOf[v]) \cap ToSet(KeysOf[w]) = {}

Record == [owner : Validator \cup {None}, online : BOOLEAN, seen : 0..MaxHeight]
NoRecord == [owner |-> None, online |-> FALSE, seen |-> 0]

Txn ==
    [type : {"register"}, who : Validator, key : Key]
        \cup [type : {"unregister", "spend", "other"}, who : Validator, key : {NoKey}]
        \cup [type : {"heartbeat"}, who : Validator \cup {None}, key : Key, online : BOOLEAN]

Steps == {"unbond", "lookup", "records", "proposer", "archive"}
Places == {"start", "elect", "loop", "turn", "judge", "strike", "make", "store", "dead"}
Entry == [key : Key \cup {NoKey}, owner : Validator \cup {None}, stake : Nat]
Saving == [key : Key, step : Steps, txns : Seq(Txn), time : 0..MaxTime,
           old : [Validator -> Key \cup {None}]]

(* Nothing is not something.                                               *)
ASSUME NoneAssumption ==
    /\ None \notin Key \cup {NoKey} /\ None \notin 0..MaxTime
    /\ None \notin Record /\ None \notin Saving

VARIABLES
    lookup,     \* db_validator_lookup: the generated key of a registered wallet
    records,    \* db_validators: records by generated key
    unbond,     \* db_validator_unbond: when a wallet was unregistered
    strikes,    \* the alive_ entries of db_validator_lookup, 2 for more
    wallets,    \* db_wallets: what the wallets hold
    archive,    \* db_validator_archive, by height
    tip,        \* height of the last header
    maker,      \* the key that header is signed with
    pool,       \* transactions that are checked and wait for a block, in order
    saving,     \* the block that is being stored and the next write
    clock,      \* the last block's timestamp
    main,       \* where the main loop is
    base,       \* height of block_manager.last_header
    proposers,  \* block_manager.proposers, the owners of the records
    index,      \* block_manager.proposer_index, from 1
    tried,      \* block_manager.block_sync_attempts
    tracker,    \* proposer_tracker::proposers
    judged,     \* what check_proposer has read: key and record
    gen,        \* the key Self has generated at this start
    waits,      \* history: all attempts since the election
    left,       \* history: when a validator's last unregistration was stored
    spent,      \* history: generated keys a registration has arrived with
    disturbed,  \* history: see RecordsIndexed
    arrived,    \* history: transactions so far
    restarts    \* history: restarts so far

registryVars == <<lookup, records, unbond, wallets, archive>>
chainVars == <<tip, maker, saving, left>>
loopVars == <<main, base, proposers, index, tried, tracker, judged, waits>>
vars == <<registryVars, chainVars, loopVars, strikes, pool, clock, gen, spent,
          disturbed, arrived, restarts>>

Stored(k) == records[k] # None

TypeOK ==
    /\ lookup \in [Validator -> Key \cup {None}]
    /\ records \in [Key \cup {NoKey} -> Record \cup {None}]
    /\ unbond \in [Validator -> 0..MaxTime \cup {None}]
    /\ strikes \in [Validator -> 0..2]
    /\ wallets \in [Validator -> Nat]
    /\ \A h \in 0..MaxHeight : archive[h] = None \/ archive[h] \subseteq Entry
    /\ tip \in 0..MaxHeight /\ base \in 0..tip
    /\ maker \in Key
    /\ pool \in Seq(Txn)
    /\ saving \in Saving \cup {None}
    /\ clock \in 0..MaxTime
    /\ main \in Places
    /\ proposers \in Seq(Validator)
    /\ index \in 1..Cardinality(Validator)
    /\ main = "turn" => index \in DOMAIN proposers
    /\ tried \in 0..Attempts - 1
    /\ ToSet(tracker) \subseteq Validator
    /\ gen \in ToSet(KeysOf[Self])
    /\ left \in [Validator -> 0..MaxTime \cup {None}]

-----------------------------------------------------------------------------
(* The archive and the election. *)

(* A validator counts if it is online and was heard of lately.             *)
check_online_version(r, height) == r.online /\ (height >= Window => r.seen >= height - Window)

(* What is staked: one currency, worth its amount, so that no multiplier   *)
(* applies (the module Stakes has them).  A record without a wallet holds  *)
(* nothing.                                                                *)
Stake(v) == IF v = None THEN 0 ELSE wallets[v]

Archive(height) ==
    {[key |-> k, owner |-> records[k].owner, stake |-> Stake(records[k].owner)] :
        k \in {k \in DOMAIN records : Stored(k) /\ check_online_version(records[k], height)}}

(* The entries whose wallet is still registered, with a record that is     *)
(* online now.                                                             *)
Weighted(height) ==
    {e \in archive[height] :
        /\ e.owner # None /\ lookup[e.owner] # None
        /\ Stored(lookup[e.owner])
        /\ check_online_version(records[lookup[e.owner]], height)}

Owners(entries) == {e.owner : e \in entries}
Place(v) == CHOOSE i \in DOMAIN Order : Order[i] = v

(* Draws go on until there are as many different wallets as entries.  A    *)
(* draw never falls on a wallet that has no stake before or at it.         *)
Fillable(entries) ==
    /\ Cardinality(Owners(entries)) = Cardinality(entries)
    /\ \A v \in Owners(entries) :
          \E e \in entries : e.stake > 0 /\ Place(e.owner) <= Place(v)

-----------------------------------------------------------------------------
Init ==
    /\ lookup = [v \in Validator |-> KeysOf[v][1]]
    /\ records = [k \in Key \cup {NoKey} |->
          IF \E v \in Validator : k = KeysOf[v][1]
          THEN [owner |-> CHOOSE v \in Validator : k = KeysOf[v][1], online |-> TRUE, seen |-> 0]
          ELSE None]
    /\ unbond = [v \in Validator |-> None]
    /\ strikes = [v \in Validator |-> 0]
    /\ wallets = Funds
    /\ archive = [h \in 0..MaxHeight |->
          IF h = 0
          THEN {[key |-> KeysOf[v][1], owner |-> v, stake |-> Funds[v]] : v \in Validator}
          ELSE None]
    /\ tip = 0 /\ maker = KeysOf[Self][1] /\ saving = None
    /\ pool = <<>>
    /\ clock = 0
    /\ main = "start" /\ base = 0 /\ proposers = <<>> /\ index = 1 /\ tried = 0
    /\ tracker = <<>>
    /\ judged = None
    /\ gen = KeysOf[Self][1]
    /\ waits = 0
    /\ left = [v \in Validator |-> None]
    /\ spent = {KeysOf[v][1] : v \in Validator}
    /\ disturbed = FALSE
    /\ arrived = 0 /\ restarts = 0

-----------------------------------------------------------------------------
(* Transactions arrive and are checked against the databases as they are.  *)

Alive == main # "dead"

Arrive(t) ==
    /\ Alive
    /\ arrived < MaxTxns
    /\ arrived' = arrived + 1
    /\ pool' = Append(pool, t)
    /\ UNCHANGED <<registryVars, chainVars, loopVars, strikes, clock, gen, disturbed, restarts>>

(* A key is generated at a start and registered once.                      *)
FreshKey(v) ==
    {k \in ToSet(KeysOf[v]) \ spent :
        v = Self => k = gen}

Register(v) ==
    \E k \in FreshKey(v) :
        /\ spent' = spent \cup {k}
        /\ Arrive([type |-> "register", who |-> v, key |-> k])

Unregister(v) ==
    /\ lookup[v] # None
    /\ Arrive([type |-> "unregister", who |-> v, key |-> NoKey])
    /\ UNCHANGED spent

(* A heartbeat is signed with the generated key, whose record must exist.  *)
Heartbeat(k, online) ==
    /\ Stored(k)
    /\ Arrive([type |-> "heartbeat", who |-> records[k].owner, key |-> k, online |-> online])
    /\ UNCHANGED spent

(* The main loop's own heartbeat takes the nonce after the stored one: it  *)
(* is refused while another transaction of the wallet waits.               *)
SendHeartbeat ==
    /\ main = "start"
    /\ \A i \in DOMAIN pool : pool[i].type = "other" \/ pool[i].who # Self
    /\ Heartbeat(gen, TRUE)

(* The wallet of a validator pays nobody, nor does one that is unbonding.  *)
check_validator(v) == lookup[v] = None /\ unbond[v] = None

(* What a wallet's transactions spend, of those that wait and of those of  *)
(* a block whose wallets are not stored yet.                               *)
Spends(txns, v) == Cardinality({i \in DOMAIN txns : txns[i].type = "spend" /\ txns[i].who = v})
Booked == IF saving # None /\ saving.step = "unbond" THEN saving.txns ELSE <<>>

Spend(v) ==
    /\ check_validator(v)
    /\ wallets[v] > Spends(pool, v) + Spends(Booked, v)
    /\ Arrive([type |-> "spend", who |-> v, key |-> NoKey])
    /\ UNCHANGED spent

Other == Arrive([type |-> "other", who |-> Self, key |-> NoKey]) /\ UNCHANGED spent

Peers == Key \ ToSet(KeysOf[Self])

TxnStep ==
    \/ \E v \in Validator : Register(v) \/ Unregister(v) \/ Spend(v)
    \/ \E k \in Peers, online \in BOOLEAN : Heartbeat(k, online)
    \/ SendHeartbeat
    \/ Other

-----------------------------------------------------------------------------
(* A block is stored, one database after the other. *)

Registry(t) == t.type \in {"register", "unregister"}
Of(txns, v) == {i \in DOMAIN txns : Registry(txns[i]) /\ txns[i].who = v}
LastOf(txns, v) == txns[Max(Of(txns, v))]
Leaves(txns, v) == Of(txns, v) # {} /\ LastOf(txns, v).type = "unregister"
Joins(txns, v) == Of(txns, v) # {} /\ LastOf(txns, v).type = "register"

(* The block takes the first n transactions that wait; time has passed     *)
(* since the last one.                                                     *)
StoreHeader(k, n) ==
    LET txns == SubSeq(pool, 1, n) IN
    /\ clock' \in clock..MaxTime
    /\ saving = None
    /\ tip < MaxHeight
    /\ tip' = tip + 1
    /\ maker' = k
    /\ saving' = [key |-> k, step |-> "unbond", txns |-> txns, time |-> clock', old |-> lookup]
    /\ pool' = SubSeq(pool, n + 1, Len(pool))
    /\ left' = [v \in Validator |->
          IF Leaves(txns, v) /\ lookup[v] # None THEN clock'
          ELSE IF Joins(txns, v) THEN None ELSE left[v]]
    /\ disturbed' = (disturbed \/ \E v \in Validator : Cardinality(Of(txns, v)) > 1)
    /\ UNCHANGED <<registryVars, strikes, gen, spent, arrived, restarts>>

At(step) == saving # None /\ saving.step = step /\ Alive
StoreUnchanged == UNCHANGED <<tip, maker, left, strikes, pool, clock, gen, spent, disturbed,
                              arrived, restarts, base, proposers, index, tried, tracker,
                              judged, waits>>

(* batch_validator_registration puts together its three batches before it  *)
(* writes the first of them.                                               *)
StoreUnbondFaulty ==
    /\ At("unbond")
    /\ unbond' = [v \in Validator |->
          IF Joins(saving.txns, v) THEN None ELSE unbond[v]]
    /\ wallets' = [v \in Validator |-> wallets[v] - Spends(saving.txns, v)]
    /\ saving' = [saving EXCEPT !.step = "lookup", !.old = lookup]
    /\ UNCHANGED <<lookup, records, archive, main>> /\ StoreUnchanged

StoreUnbond ==
    /\ At("unbond")
    /\ unbond' = [v \in Validator |->
          IF Leaves(saving.txns, v) THEN saving.time
          ELSE IF Joins(saving.txns, v) THEN None ELSE unbond[v]]
    /\ wallets' = [v \in Validator |-> wallets[v] - Spends(saving.txns, v)]
    /\ saving' = [saving EXCEPT !.step = "lookup", !.old = lookup]
    /\ UNCHANGED <<lookup, records, archive, main>> /\ StoreUnchanged

StoreLookup ==
    /\ At("lookup")
    /\ lookup' = [v \in Validator |->
          IF Leaves(saving.txns, v) THEN None
          ELSE IF Joins(saving.txns, v) THEN LastOf(saving.txns, v).key ELSE lookup[v]]
    /\ saving' = [saving EXCEPT !.step = "records"]
    /\ UNCHANGED <<unbond, records, wallets, archive, main>> /\ StoreUnchanged

(* The record of the key that was stored before the block goes, and the    *)
(* new key gets one that is offline until its first heartbeat.             *)
batch_validator_registrationFaulty(recs, t) ==
    IF t.type = "register"
    THEN [recs EXCEPT ![t.key] = [NoRecord EXCEPT !.owner = t.who]]
    ELSE IF t.type = "unregister" THEN [recs EXCEPT ![saving.old[t.who]] = None]
    ELSE recs

batch_validator_registration(recs, t) ==
    LET old == IF saving.old[t.who] = None THEN recs
               ELSE [recs EXCEPT ![saving.old[t.who]] = None]
    IN  IF t.type = "register" THEN [old EXCEPT ![t.key] = [NoRecord EXCEPT !.owner = t.who]]
        ELSE IF t.type = "unregister" THEN old
        ELSE recs

(* A record that is alone is online.                                       *)
OnlineIfAlone(recs) ==
    IF \E k \in DOMAIN recs : {l \in DOMAIN recs : recs[l] # None} = {k}
    THEN [k \in DOMAIN recs |-> IF recs[k] = None THEN None ELSE [recs[k] EXCEPT !.online = TRUE]]
    ELSE recs

Existing(recs, k) == IF recs[k] = None THEN NoRecord ELSE recs[k]

batch_validator_heartbeat(recs, t) ==
    IF t.type = "heartbeat"
    THEN [recs EXCEPT ![t.key] = [Existing(recs, t.key) EXCEPT !.online = t.online, !.seen = tip]]
    ELSE recs

StoreRecords ==
    /\ At("records")
    /\ LET registered == FoldLeft(batch_validator_registration, records, saving.txns)
       IN  records' = FoldLeft(batch_validator_heartbeat, OnlineIfAlone(registered), saving.txns)
    /\ saving' = [saving EXCEPT !.step = "proposer"]
    /\ UNCHANGED <<unbond, lookup, wallets, archive, main>> /\ StoreUnchanged

remove_unbonding_validators ==
    unbond' = [v \in Validator |->
        IF unbond[v] # None /\ saving.time - unbond[v] >= Unbonding THEN None ELSE unbond[v]]

update_proposal_heartbeatFaulty ==
    records' = [records EXCEPT ![saving.key] =
        [Existing(records, saving.key) EXCEPT !.seen = tip]]

update_proposal_heartbeat ==
    records' = [records EXCEPT ![saving.key] =
        [Existing(records, saving.key) EXCEPT !.online = TRUE, !.seen = tip]]

StoreProposer ==
    /\ At("proposer")
    /\ remove_unbonding_validators
    /\ update_proposal_heartbeat
    /\ saving' = [saving EXCEPT !.step = "archive"]
    /\ UNCHANGED <<lookup, wallets, archive, main>> /\ StoreUnchanged

StoreArchive ==
    /\ At("archive")
    /\ archive' = [archive EXCEPT ![tip] = Archive(tip)]
    /\ saving' = None
    /\ main' = IF main = "store" THEN "start" ELSE main
    /\ UNCHANGED <<unbond, lookup, records, wallets>> /\ StoreUnchanged

StoreStep == StoreUnbond \/ StoreLookup \/ StoreRecords \/ StoreProposer \/ StoreArchive

(* A peer's block, from the broadcast if its proposer is one the tracker   *)
(* holds and the thread's own election ends, or by synchronisation.        *)
Electable(height) ==
    archive[height] \notin {None, {}} /\ Fillable(Weighted(height))

Expected(k) == records[k].owner \in ToSet(tracker) /\ Electable(tip)

PeerBlock(k) ==
    /\ main \notin {"dead", "store"}
    /\ Stored(k)
    /\ main = "turn" \/ Expected(k)
    /\ \E n \in 0..Len(pool) : StoreHeader(k, n)
    /\ UNCHANGED loopVars

-----------------------------------------------------------------------------
(* The main loop. *)

(* What the main loop leaves alone: everything but its own variables, but  *)
(* for the steps that judge proposers.                                     *)
JudgeKeeps == UNCHANGED <<lookup, unbond, wallets, archive, chainVars, pool, clock, gen, spent,
                          arrived, restarts>>
LoopKeeps == JudgeKeeps /\ UNCHANGED <<records, strikes, disturbed>>

(* Archives of earlier heights, which no election reads any more, are not  *)
(* kept here.                                                              *)
ReadTip ==
    /\ main = "start"
    /\ archive' = [h \in 0..MaxHeight |-> IF h < tip THEN None ELSE archive[h]]
    /\ main' = "elect"
    /\ base' = tip
    /\ index' = 1 /\ tried' = 0
    /\ proposers' = <<>>
    /\ UNCHANGED <<tracker, judged, waits, lookup, unbond, wallets, records, chainVars, strikes,
                   pool, clock, gen, spent, disturbed, arrived, restarts>>

Elect ==
    /\ main = "elect"
    /\ Electable(base)
    /\ proposers' \in SetToSeqs(Owners(Weighted(base)))
    /\ tracker' = IF proposers' = <<>> THEN <<>> ELSE <<proposers'[1]>>
    /\ waits' = 0
    /\ main' = "loop"
    /\ UNCHANGED <<base, index, tried, judged>> /\ LoopKeeps

(* Without a proposer, the list is accessed outside its bounds and the     *)
(* program ends.                                                           *)
HaveTransactions ==
    /\ main = "loop"
    /\ pool # <<>>
    /\ main' = IF proposers = <<>> THEN "dead" ELSE "turn"
    /\ UNCHANGED <<base, proposers, index, tried, tracker, judged, waits>> /\ LoopKeeps

Judge(k) == judged' = [key |-> k, record |-> None] /\ main' = "judge"

(* A new block ends the round, whether there are transactions or not.      *)
NewBlock ==
    /\ \/ main = "loop" /\ pool = <<>>
       \/ main = "turn" /\ proposers[index] # Self
    /\ tip > base
    /\ base' = tip
    /\ Judge(maker)
    /\ UNCHANGED <<proposers, index, tried, tracker, waits>> /\ LoopKeeps

MyTurn ==
    /\ main = "turn"
    /\ proposers[index] = Self
    /\ Judge(NoKey)
    /\ UNCHANGED <<base, proposers, index, tried, tracker, waits>> /\ LoopKeeps

MostWaits == Attempts * Cardinality(Validator)

NextProposerFaulty ==
    IF index < Len(proposers) - 1
    THEN index' = index + 1 /\ tracker' = Append(tracker, proposers[index + 1])
    ELSE UNCHANGED <<index, tracker>>

NextProposer ==
    IF index < Len(proposers)
    THEN index' = index + 1 /\ tracker' = Append(tracker, proposers[index + 1])
    ELSE UNCHANGED <<index, tracker>>

AttemptFaulty ==
    IF tried + 2 < Attempts
    THEN tried' = tried + 1 /\ UNCHANGED <<index, tracker>>
    ELSE tried' = 0 /\ NextProposer

AttemptLate ==
    IF tried < Attempts
    THEN tried' = tried + 1 /\ UNCHANGED <<index, tracker>>
    ELSE tried' = 0 /\ NextProposer

Attempt ==
    IF tried + 1 < Attempts
    THEN tried' = tried + 1 /\ UNCHANGED <<index, tracker>>
    ELSE tried' = 0 /\ NextProposer

Wait ==
    /\ main = "turn"
    /\ proposers[index] # Self
    /\ tip = base
    /\ Attempt
    /\ waits' = IF waits < MostWaits THEN waits + 1 ELSE waits
    /\ UNCHANGED <<main, base, proposers, judged>> /\ LoopKeeps

(* check_proposer: what the node makes of the block's proposer, in two     *)
(* steps, the record it reads and the records it writes.  Before a block   *)
(* of its own it reads the empty key.                                      *)
AfterJudging == IF judged.key = NoKey THEN "make" ELSE "start"

JudgeUnknown ==
    /\ main = "judge"
    /\ ~Stored(judged.key)
    /\ IF index = 1
       THEN IF proposers = <<>>
            THEN main' = "dead" /\ UNCHANGED <<strikes, judged>>
            ELSE /\ strikes' = [strikes EXCEPT ![proposers[1]] = 0]
                 /\ main' = AfterJudging
                 /\ judged' = None
       ELSE /\ judged' = [judged EXCEPT !.record = NoRecord]
            /\ main' = "strike"
            /\ UNCHANGED strikes
    /\ UNCHANGED <<base, proposers, index, tried, tracker, waits, records, disturbed>> /\ JudgeKeeps

JudgeKnown ==
    /\ main = "judge"
    /\ Stored(judged.key)
    /\ judged' = [judged EXCEPT !.record = records[judged.key]]
    /\ main' = "strike"
    /\ UNCHANGED <<base, proposers, index, tried, tracker, waits>> /\ LoopKeeps

(* Everyone before the block's proposer has failed.  After two failures of *)
(* one, the record of the block's proposer is written, offline.            *)
Failed ==
    {v \in ToSet(proposers) :
        \A i, j \in DOMAIN proposers : proposers[j] = v /\ i <= j => proposers[i] # judged.record.owner}
Strikes ==
    [v \in Validator |->
        IF v \in Failed THEN IF strikes[v] < 2 THEN strikes[v] + 1 ELSE 2
        ELSE IF v \in ToSet(proposers) /\ v = judged.record.owner THEN 0
        ELSE strikes[v]]

Strike ==
    /\ main = "strike"
    /\ strikes' = Strikes
    /\ IF \E v \in Failed : Strikes[v] = 2
       THEN /\ records' = [records EXCEPT ![judged.key] = [judged.record EXCEPT !.online = FALSE]]
            /\ disturbed' = TRUE
       ELSE UNCHANGED <<records, disturbed>>
    /\ main' = AfterJudging
    /\ judged' = None
    /\ UNCHANGED <<base, proposers, index, tried, tracker, waits>> /\ JudgeKeeps

(* process_block: the block is made of what waits by now, on the last      *)
(* header by now.                                                          *)
Make ==
    /\ main = "make"
    /\ IF pool = <<>>
       THEN /\ main' = "start"
            /\ UNCHANGED <<registryVars, chainVars, strikes, pool, clock, gen, spent, disturbed,
                           arrived, restarts>>
       ELSE StoreHeader(gen, Len(pool)) /\ main' = "store"
    /\ UNCHANGED <<base, proposers, index, tried, tracker, judged, waits>>

LoopStep == ReadTip \/ Elect \/ HaveTransactions \/ NewBlock \/ MyTurn \/ Wait
                \/ JudgeUnknown \/ JudgeKnown \/ Strike \/ Make

-----------------------------------------------------------------------------
(* The node restarts, at any moment, with a new key.  The pool is emptied, *)
(* and the last height is archived anew.                                   *)

initial_archiveFaulty == UNCHANGED archive

initial_archive == archive' = [archive EXCEPT ![tip] = Archive(tip)]

Restart ==
    /\ restarts < MaxRestarts
    /\ restarts' = restarts + 1
    /\ \E i \in DOMAIN KeysOf[Self] : KeysOf[Self][i] = gen /\ i < Len(KeysOf[Self])
                                         /\ gen' = KeysOf[Self][i + 1]
    /\ initial_archive
    /\ pool' = <<>>
    /\ saving' = None
    /\ disturbed' = (disturbed \/ saving # None)
    /\ main' = "start" /\ base' = tip /\ proposers' = <<>> /\ index' = 1 /\ tried' = 0
    /\ tracker' = <<>> /\ judged' = None /\ waits' = 0
    /\ UNCHANGED <<lookup, records, unbond, wallets, tip, maker, left, strikes, clock, spent,
                   arrived>>

Next ==
    \/ TxnStep
    \/ \E k \in Peers : PeerBlock(k)
    \/ StoreStep
    \/ LoopStep
    \/ Restart

(* The process goes on, one of its two threads at least; nobody is sure to *)
(* send a transaction or a block.                                          *)
Spec == Init /\ [][Next]_vars /\ WF_vars(LoopStep \/ StoreStep)

-----------------------------------------------------------------------------
(* Properties. *)

Quiet == saving = None /\ ~disturbed

(* Every record of a wallet is the one db_validator_lookup leads to, when  *)
(* no block is being stored: a wallet's stake is archived once.  It takes  *)
(* one of these to disturb it: two registrations of one wallet in one      *)
(* block, each of which only deletes the key stored before the block; a    *)
(* record that check_proposer writes back; a restart within a store        *)
(* (batch_validator.cpp:56).                                               *)
RecordsIndexed ==
    Quiet => \A k \in Key : Stored(k) /\ records[k].owner # None => lookup[records[k].owner] = k

(* As long as nothing has disturbed the records and every wallet holds     *)
(* something, the draws of an election can fill every place, so that the   *)
(* main loop does not hang in it (select_validators.cpp:185).              *)
PlacesFillable ==
    Quiet /\ (\A v \in Validator : wallets[v] > 0) /\ archive[tip] # None
        => Fillable(Weighted(tip))

(* The maker of the last block is in that block's archive, even if the     *)
(* block says that it leaves or goes offline: an election with no one in   *)
(* the archive would wait for ever (select_validators.cpp:100,             *)
(* store_txns.cpp:292).                                                    *)
MakerArchived ==
    Quiet /\ restarts = 0 /\ tip > 0 => \E e \in archive[tip] : e.key = maker

(* From the moment a wallet's unregistration is in a block, whichever of   *)
(* the three batches is written, nothing it spends is accepted until the   *)
(* unbonding time has passed, or until it has registered again.            *)
SpendsUnbonded ==
    [][\A v \in Validator :
        (/\ Len(pool') = Len(pool) + 1
         /\ Last(pool').type = "spend" /\ Last(pool').who = v
         /\ left[v] # None)
            => clock - left[v] >= Unbonding]_vars

(* The node takes a block of the n-th elected validator from the broadcast *)
(* only after it has looked for a block Attempts times for each one before *)
(* it: a validator whose block is only late is not overtaken at once       *)
(* (block_timer.cpp:103).                                                  *)
BackupWaits ==
    main \in {"loop", "turn"} =>
        \A i \in DOMAIN proposers :
            proposers[i] \in ToSet(tracker) => waits >= Attempts * (i - 1)

(* A node that has transactions and is elected does not wait for others    *)
(* for ever: a block comes or its own turn does.                           *)
TurnComes == (main = "turn" /\ Self \in ToSet(proposers)) ~> (main # "turn")

(* The archive the main loop waits for appears, even if the node dies      *)
(* after the header of a block and before its archive                      *)
(* (select_validators.cpp:94, zera-validator.cpp:311).                     *)
ArchiveComes == (main = "elect") ~> (main # "elect" \/ archive[base] # None)

(* Whenever a height is archived, the next election can be held: its       *)
(* entries belong to different wallets with a stake, and one of them is    *)
(* the last block's maker.                                                 *)
ElectionsPossible == TypeOK /\ RecordsIndexed /\ PlacesFillable /\ MakerArchived

(* The main loop stops neither in an election nor in a round.              *)
MainLoopMoves == TurnComes /\ ArchiveComes
=============================================================================
