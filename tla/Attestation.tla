----------------------------- MODULE Attestation -----------------------------
(***************************************************************************)
(* How validators confirm the block of one height.  A validator that has   *)
(* stored a block, by its own turn or from a broadcast, signs its hash,    *)
(* asks its peers what they support and keeps what they answer in a        *)
(* ledger: for each hash, the validators that signed it.  A hash that has  *)
(* ATTESTATION_QUORUM percent of the stake is confirmed; a validator that  *)
(* has stored another one reorganises.  The peer that is asked looks at    *)
(* request and answer as well, in a job of its own.                        *)
(*                                                                         *)
(* Heights do not interact but by confirmed_block_latest, of which this    *)
(* module keeps whether it has reached the height.  A validator stores one *)
(* block at the height (module BlockReplica); the stakes are those of the  *)
(* block before, which all have.  A write of one database is atomic, and   *)
(* so is an answer; what the server's job writes to the ledger it has read *)
(* earlier, without the mutex of the client's job.                         *)
(*                                                                         *)
(* The databases keep a hash as it is in some places and in base58 in      *)
(* others: "raw" and "base58" tell the two apart where the code compares.  *)
(*                                                                         *)
(* A definition whose name ends in "Faulty" is a variant with a plausible  *)
(* mistake, not part of the model.                                         *)
(***************************************************************************)
EXTENDS Integers

CONSTANTS
    Node,       \* validators
    Block,      \* blocks of this height, each named by its hash
    Stake,      \* Stake[S]: what the archive of balances gives the set S of validators
    Peers,      \* Peers[n]: the validators that n draws to ask, at most nine of the others
    Attesting,  \* bound: validators that broadcasts reach; others only synchronise
    None        \* no block, no attestation

ASSUME PeersAssumption ==
    /\ Peers \in [Node -> SUBSET Node]
    /\ Attesting \subseteq Node
ASSUME StakeAssumption ==
    /\ Stake \in [SUBSET Node -> Nat]
    /\ Stake[Node] > 0
    /\ \A S, T \in SUBSET Node : S \cap T = {} => Stake[S \cup T] = Stake[S] + Stake[T]

VARIABLES
    chain,       \* chain[n]: the block that n has stored at the height, None before it
    ledger,      \* ledger[n][b]: who signed b, in db_attestation_ledger; {} for no entry
    attestation, \* attestation[n]: what n prefers, in db_attestation
    reached,     \* reached[n]: confirmed_block_latest is the height or above
    confirmed,   \* confirmed[n]: the hash in db_confirmed_blocks
    job,         \* job[n]: the attestation that n is making
    tasks,       \* tasks[n]: answers that n's thread pool is to look at
    held         \* history: held[n]: the blocks that n has ever stored

vars == <<chain, ledger, attestation, reached, confirmed, job, tasks, held>>

ATTESTATION_QUORUM == 51

get_quorum(S) == (Stake[S] * 100) \div Stake[Node]

IsQuorum(S) == get_quorum(S) >= ATTESTATION_QUORUM

Supporters(b) == {n \in Node : b \in held[n]}

NoJob == [pc |-> "none", hash |-> None, asked |-> {}, answers |-> {}]
NoSupport == [b \in Block |-> {}]

Attestations ==
    [hash : Block, code : {"raw", "base58"}, support : SUBSET Node, confirmed : BOOLEAN]
ASSUME NoneAssumption == None \notin Block \cup Attestations

Answers == [support : BOOLEAN, hash : Block, validators : SUBSET Node]
Jobs ==
    [pc : {"none", "create", "ask", "process", "confirm"}, hash : Block \cup {None},
     asked : SUBSET Node, answers : SUBSET Answers]
Tasks ==
    [pc : {"look", "store", "confirm", "attest"}, answer : Answers, support : SUBSET Node,
     copy : [Block -> SUBSET Node]]

TypeOK ==
    /\ chain \in [Node -> Block \cup {None}]
    /\ ledger \in [Node -> [Block -> SUBSET Node]]
    /\ attestation \in [Node -> Attestations \cup {None}]
    /\ reached \in [Node -> BOOLEAN]
    /\ confirmed \in [Node -> Block \cup {None}]
    /\ job \in [Node -> Jobs]
    /\ tasks \in [Node -> SUBSET Tasks]
    /\ held \in [Node -> SUBSET Block]

Init ==
    /\ chain = [n \in Node |-> None]
    /\ ledger = [n \in Node |-> NoSupport]
    /\ attestation = [n \in Node |-> None]
    /\ reached = [n \in Node |-> FALSE]
    /\ confirmed = [n \in Node |-> None]
    /\ job = [n \in Node |-> NoJob]
    /\ tasks = [n \in Node |-> {}]
    /\ held = [n \in Node |-> {}]

-----------------------------------------------------------------------------
(* Storing a block.                                                        *)

Take(n, b) ==
    /\ chain[n] = None
    /\ chain' = [chain EXCEPT ![n] = b]
    /\ held' = [held EXCEPT ![n] = @ \cup {b}]

(* A block of n's own turn or a broadcast one: an attestation is queued.   *)
StoreBlock(n, b) ==
    /\ n \in Attesting
    /\ Take(n, b)
    /\ job' = [job EXCEPT ![n] = [NoJob EXCEPT !.pc = "create", !.hash = b]]
    /\ UNCHANGED <<ledger, attestation, reached, confirmed, tasks>>

(* A block that a peer hands over in a synchronisation: none is.           *)
SyncBlock(n, p) ==
    /\ chain[p] # None
    /\ Take(n, chain[p])
    /\ UNCHANGED <<ledger, attestation, reached, confirmed, job, tasks>>

-----------------------------------------------------------------------------
(* The client's side: sign, ask, collect, decide.                          *)

CreateAttestation(n) ==
    LET b == job[n].hash
    IN  /\ job[n].pc = "create"
        /\ ledger' = [ledger EXCEPT ![n][b] = {n}]
        /\ attestation' = [attestation EXCEPT ![n] =
                 [hash |-> b, code |-> "raw", support |-> {n}, confirmed |-> FALSE]]
        /\ job' = [job EXCEPT ![n].pc = "ask"]
        /\ UNCHANGED <<chain, reached, confirmed, tasks, held>>

has_preference_responseFaulty(p, b) ==
    {[support |-> TRUE, hash |-> b, validators |-> attestation[p].support]}

(* What p answers when it is asked about b; {} for no preference.  A hash  *)
(* that is not the one asked for is decoded and looked up among the blocks *)
(* p has stored, which finds it only if it was kept in base58.             *)
has_preference_response(p, b) ==
    LET a == attestation[p]
    IN  IF a.code = "raw" /\ a.hash = b
        THEN {[support |-> TRUE, hash |-> b, validators |-> a.support]}
        ELSE IF a.code = "base58" /\ a.hash = chain[p]
        THEN {[support |-> FALSE, hash |-> a.hash, validators |-> a.support]}
        ELSE {}

no_preference_responseFaulty(p) ==
    {[support |-> FALSE, hash |-> chain[p], validators |-> {p}]}

(* The index of heights holds keys, never a hash, so p does not support b  *)
(* but hands over its own block, which may be b.                           *)
no_preference_response(p) ==
    IF chain[p] = None THEN {}
    ELSE {[support |-> FALSE, hash |-> chain[p], validators |-> {p}]}

Answer(p, b) ==
    IF attestation[p] # None THEN has_preference_response(p, b)
    ELSE IF reached[p] THEN {}
    ELSE no_preference_response(p)

NamedFaulty(n, a) == {n} \cup a.validators

(* The validators that the request and an answer in its support name.      *)
Named(n, a) == IF a.support THEN {n} \cup a.validators ELSE a.validators

(* p answers n and, below its confirmed height, queues a job on the answer.*)
(* The answer may be lost, which ends n's round through its peers.         *)
Ask(n, p) ==
    /\ job[n].pc = "ask"
    /\ p \in Peers[n] \ job[n].asked
    /\ LET answer == Answer(p, job[n].hash)
       IN  /\ \/ job' = [job EXCEPT ![n].asked = @ \cup {p}, ![n].answers = @ \cup answer]
              \/ job' = [job EXCEPT ![n].pc = "process"]
           /\ tasks' = [tasks EXCEPT ![p] =
                  IF reached[p] THEN @
                  ELSE @ \cup {[pc |-> "look", answer |-> a, support |-> Named(n, a),
                                copy |-> NoSupport] : a \in answer}]
    /\ UNCHANGED <<chain, ledger, attestation, reached, confirmed, held>>

(* The last peer has answered, or the connection to the next one fails.    *)
StopAsking(n) ==
    /\ job[n].pc = "ask"
    /\ job' = [job EXCEPT ![n].pc = "process"]
    /\ UNCHANGED <<chain, ledger, attestation, reached, confirmed, tasks, held>>

ProcessBlockAttestationAsync(n, a) ==
    /\ job[n].pc = "process" /\ a \in job[n].answers
    /\ ledger' = [ledger EXCEPT ![n][a.hash] = @ \cup a.validators]
    /\ job' = [job EXCEPT ![n].answers = @ \ {a}]
    /\ UNCHANGED <<chain, attestation, reached, confirmed, tasks, held>>

(* A validator that is in the ledger for two blocks makes the removal of   *)
(* duplicates look for a hash encoded twice, and the job ends there.       *)
HasDuplicates(n) ==
    \E a, b \in Block : a # b /\ ledger[n][a] \cap ledger[n][b] # {}

(* The hash with most support.                                             *)
Preferred(n, b) ==
    /\ ledger[n][b] # {}
    /\ \A c \in Block : Stake[ledger[n][c]] <= Stake[ledger[n][b]]

Decide(n) == job[n].pc = "process" /\ job[n].answers = {}

CheckFails(n) ==
    /\ Decide(n) /\ HasDuplicates(n)
    /\ job' = [job EXCEPT ![n] = NoJob]
    /\ UNCHANGED <<chain, ledger, attestation, reached, confirmed, tasks, held>>

set_attestation(n, b) ==
    attestation' = [attestation EXCEPT ![n] =
        [hash |-> b, code |-> "base58", support |-> ledger[n][b],
         confirmed |-> IsQuorum(ledger[n][b])]]

(* n's own preference, encoded, is the hash b in base58.                   *)
Mine(n, b) ==
    /\ attestation[n] # None
    /\ attestation[n].code = "raw" /\ attestation[n].hash = b

CheckAttestations(n, b) ==
    /\ Decide(n) /\ ~HasDuplicates(n) /\ Preferred(n, b)
    /\ IsQuorum(ledger[n][b]) => Mine(n, b)
    /\ set_attestation(n, b)
    /\ job' = [job EXCEPT ![n] = IF IsQuorum(ledger[n][b])
                                 THEN [@ EXCEPT !.pc = "confirm"] ELSE NoJob]
    /\ UNCHANGED <<chain, ledger, reached, confirmed, tasks, held>>

(* The confirmed block is not the one n prefers: the databases are removed *)
(* and the backup to restore is looked for where none has been written;    *)
(* the databases stay closed, the process ends at the next access, and     *)
(* starts again without data.                                              *)
reorg_blockchain(n, b) ==
    /\ Decide(n) /\ ~HasDuplicates(n) /\ Preferred(n, b)
    /\ IsQuorum(ledger[n][b]) /\ ~Mine(n, b)
    /\ chain' = [chain EXCEPT ![n] = None]
    /\ ledger' = [ledger EXCEPT ![n] = NoSupport]
    /\ attestation' = [attestation EXCEPT ![n] = None]
    /\ reached' = [reached EXCEPT ![n] = FALSE]
    /\ confirmed' = [confirmed EXCEPT ![n] = None]
    /\ job' = [job EXCEPT ![n] = NoJob]
    /\ tasks' = [tasks EXCEPT ![n] = {}]
    /\ UNCHANGED held

StoreConfirmed(n) ==
    /\ job[n].pc = "confirm"
    /\ reached' = [reached EXCEPT ![n] = TRUE]
    /\ confirmed' = [confirmed EXCEPT ![n] = job[n].hash]
    /\ job' = [job EXCEPT ![n] = NoJob]
    /\ UNCHANGED <<chain, ledger, attestation, tasks, held>>

-----------------------------------------------------------------------------
(* The server's side: what the answer says together with the request.      *)

Advance(n, t, next) == tasks' = [tasks EXCEPT ![n] = (@ \ {t}) \cup next]

Confirms(t) == t.answer.support /\ IsQuorum(t.support)

(* A hash that the ledger does not have ends the job.                      *)
LookAt(n, t) ==
    /\ t \in tasks[n] /\ t.pc = "look"
    /\ LET b == t.answer.hash
       IN  IF Confirms(t)
           THEN /\ reached' = [reached EXCEPT ![n] = TRUE]
                /\ Advance(n, t, {[t EXCEPT !.pc = "confirm"]})
           ELSE /\ Advance(n, t, IF ledger[n][b] = {} THEN {}
                                 ELSE {[t EXCEPT !.pc = "store",
                                        !.copy = [ledger[n] EXCEPT ![b] = t.support]]})
                /\ UNCHANGED reached
    /\ UNCHANGED <<chain, ledger, attestation, confirmed, job, held>>

StoreLedger(n, t) ==
    /\ t \in tasks[n] /\ t.pc = "store"
    /\ ledger' = [ledger EXCEPT ![n] = t.copy]
    /\ Advance(n, t, {[t EXCEPT !.pc = "attest", !.copy = NoSupport]})
    /\ UNCHANGED <<chain, attestation, reached, confirmed, job, held>>

ConfirmAsked(n, t) ==
    /\ t \in tasks[n] /\ t.pc = "confirm"
    /\ confirmed' = [confirmed EXCEPT ![n] = t.answer.hash]
    /\ Advance(n, t, {[t EXCEPT !.pc = "attest"]})
    /\ UNCHANGED <<chain, ledger, attestation, reached, job, held>>

StoreAttestation(n, t) ==
    /\ t \in tasks[n] /\ t.pc = "attest"
    /\ attestation' = [attestation EXCEPT ![n] =
           [hash |-> t.answer.hash, code |-> "raw", support |-> t.support,
            confirmed |-> Confirms(t)]]
    /\ Advance(n, t, {})
    /\ UNCHANGED <<chain, ledger, reached, confirmed, job, held>>

-----------------------------------------------------------------------------
(* The process ends; what is queued is lost, the databases stay.           *)
Crash(n) ==
    /\ job[n] # NoJob \/ tasks[n] # {}
    /\ job' = [job EXCEPT ![n] = NoJob]
    /\ tasks' = [tasks EXCEPT ![n] = {}]
    /\ UNCHANGED <<chain, ledger, attestation, reached, confirmed, held>>

Client(n) ==
    \/ CreateAttestation(n)
    \/ \E p \in Node : Ask(n, p)
    \/ StopAsking(n)
    \/ \E a \in job[n].answers : ProcessBlockAttestationAsync(n, a)
    \/ CheckFails(n)
    \/ \E b \in Block : CheckAttestations(n, b)
    \/ \E b \in Block : reorg_blockchain(n, b)
    \/ StoreConfirmed(n)

Server(n) ==
    \E t \in tasks[n] :
        LookAt(n, t) \/ StoreLedger(n, t) \/ ConfirmAsked(n, t) \/ StoreAttestation(n, t)

Next ==
    \E n \in Node :
        \/ \E b \in Block : StoreBlock(n, b)
        \/ \E p \in Node : SyncBlock(n, p)
        \/ Client(n)
        \/ Server(n)
        \/ Crash(n)

Spec == Init /\ [][Next]_vars

-----------------------------------------------------------------------------
(* Properties.                                                             *)

(* What a validator counts as support of a block, in its ledger, in its    *)
(* preference and in the answers it has got or has still to look at, are   *)
(* validators that have stored that block, whichever job wrote it and      *)
(* however old a copy of the ledger it wrote back.                         *)
SupportIsGenuine ==
    \A n \in Node :
        /\ \A b \in Block : ledger[n][b] \subseteq Supporters(b)
        /\ attestation[n] # None =>
               attestation[n].support \subseteq Supporters(attestation[n].hash)
        /\ job[n].pc \in {"ask", "process"} =>
               \A a \in job[n].answers : a.validators \subseteq Supporters(a.hash)
        /\ \A t \in tasks[n] : t.support \subseteq Supporters(t.answer.hash)

(* Two validators never confirm different blocks, although proposers       *)
(* compete, answers get lost, a validator that reorganises takes up        *)
(* another block and its earlier signature stays in its peers' ledgers.    *)
Agreement ==
    \A m, n \in Node :
        confirmed[m] # None /\ confirmed[n] # None => confirmed[m] = confirmed[n]

(* A validator confirms the block it has stored: in particular it does not *)
(* record the hash it asked about when its ledger prefers another one.     *)
ConfirmedIsStored == \A n \in Node : confirmed[n] # None => confirmed[n] = chain[n]

(* At one height one block is confirmed, by those who have stored it.      *)
ConfirmedOnce == TypeOK /\ Agreement /\ ConfirmedIsStored

(* The block that a quorum of stake has stored, once there is one.         *)
Settled ==
    IF \E b \in Block : IsQuorum(Supporters(b))
    THEN CHOOSE b \in Block : IsQuorum(Supporters(b)) ELSE None

(* The validators implement one confirmation per height: a block is        *)
(* settled once and for all, and a validator confirms the settled block    *)
(* and never takes that back, not even by a reorganisation or a crash.     *)
C == INSTANCE Confirmation WITH settled <- Settled
ImplementsConfirmation == C!Spec
=============================================================================
