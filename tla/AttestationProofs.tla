-------------------------- MODULE AttestationProofs --------------------------
(***************************************************************************)
(* Validators never confirm different blocks, and implement one            *)
(* confirmation per height, for any validators, stakes and blocks.         *)
(*                                                                         *)
(* A validator that reorganises takes up another block, so one validator   *)
(* can have stored, and signed, two.  The argument is about the ones that  *)
(* have stored one block only: whenever somebody has left a block, those   *)
(* loyal to one block are a quorum already, and any two quorums share a    *)
(* validator, so no other block gets one.                                  *)
(*                                                                         *)
(* The second half is about Voting, which shares nothing with Attestation: *)
(* how tokens are counted for the choices on a proposal, for any wallets,  *)
(* proposals, delegations and balances.  Each of the three folds of the    *)
(* model (the search for delegators, the votes of a block, its payments)   *)
(* is unfolded into one step at a time.                                    *)
(***************************************************************************)
EXTENDS Attestation, Voting, FoldProofs, SequenceTheorems

-----------------------------------------------------------------------------
(* Quorums.                                                                *)

(* A share of at least 51 percent, rounded down, in whole numbers.         *)
LEMMA Percentage ==
    ASSUME NEW s \in Nat, NEW n \in Nat, n > 0
    PROVE  (s * 100) \div n >= 51 <=> s * 100 >= n * 51
<1> DEFINE q == (s * 100) \div n
           r == (s * 100) % n
<1>1. q \in Nat /\ r \in 0 .. n - 1 /\ s * 100 = n * q + r
  OBVIOUS
<1>2. ASSUME q >= 51 PROVE s * 100 >= n * 51
  <2>1. n * q >= n * 51
    BY <1>1, <1>2
  <2> QED BY <1>1, <2>1
<1>3. ASSUME q < 51 PROVE s * 100 < n * 51
  <2>1. q + 1 <= 51 /\ n * (q + 1) <= n * 51
    BY <1>1, <1>3
  <2>2. n * (q + 1) = n * q + n
    BY <1>1
  <2> QED BY <1>1, <2>1, <2>2
<1> QED BY <1>1, <1>2, <1>3

(* More support keeps a quorum.                                            *)
LEMMA QuorumGrows ==
    ASSUME NEW S \in SUBSET Node, NEW T \in SUBSET Node, S \subseteq T, IsQuorum(S)
    PROVE  IsQuorum(T)
<1>1. S \cap (T \ S) = {} /\ S \cup (T \ S) = T /\ T \ S \in SUBSET Node
  OBVIOUS
<1>2. Stake[T] = Stake[S] + Stake[T \ S]
  BY <1>1, StakeAssumption
<1>3. /\ Stake[S] \in Nat /\ Stake[T] \in Nat /\ Stake[T \ S] \in Nat
      /\ Stake[Node] \in Nat /\ Stake[Node] > 0
  BY StakeAssumption
<1>4. Stake[S] * 100 >= Stake[Node] * 51
  BY <1>3, Percentage DEF IsQuorum, get_quorum, ATTESTATION_QUORUM
<1>5. Stake[T] * 100 >= Stake[Node] * 51
  BY <1>2, <1>3, <1>4
<1> QED BY <1>3, <1>5, Percentage DEF IsQuorum, get_quorum, ATTESTATION_QUORUM

(* Two quorums have a validator in common.                                 *)
LEMMA QuorumsMeet ==
    ASSUME NEW S \in SUBSET Node, NEW T \in SUBSET Node, IsQuorum(S), IsQuorum(T)
    PROVE  S \cap T # {}
<1> SUFFICES ASSUME S \cap T = {} PROVE FALSE
  OBVIOUS
<1>1. Stake[S \cup T] = Stake[S] + Stake[T] /\ S \cup T \in SUBSET Node
  BY StakeAssumption
<1>2. IsQuorum(S) /\ IsQuorum(T) /\ IsQuorum(S \cup T)
  BY <1>1, QuorumGrows
<1>3. /\ (S \cup T) \cap (Node \ (S \cup T)) = {}
      /\ (S \cup T) \cup (Node \ (S \cup T)) = Node
      /\ Node \ (S \cup T) \in SUBSET Node
  OBVIOUS
<1>4. Stake[Node] = Stake[S \cup T] + Stake[Node \ (S \cup T)]
  BY <1>1, <1>3, StakeAssumption
<1>5. /\ Stake[S] \in Nat /\ Stake[T] \in Nat /\ Stake[Node \ (S \cup T)] \in Nat
      /\ Stake[Node] \in Nat /\ Stake[Node] > 0
  BY StakeAssumption
<1>6. Stake[S] * 100 >= Stake[Node] * 51 /\ Stake[T] * 100 >= Stake[Node] * 51
  BY <1>2, <1>5, Percentage DEF IsQuorum, get_quorum, ATTESTATION_QUORUM
<1> QED BY <1>1, <1>4, <1>5, <1>6

(* Nobody is no quorum.                                                    *)
LEMMA NobodyIsNoQuorum == ~IsQuorum({})
<1> SUFFICES ASSUME IsQuorum({}) PROVE FALSE
  OBVIOUS
<1>1. {} \in SUBSET Node /\ {} \cap {} = {}
  OBVIOUS
<1> QED BY <1>1, QuorumsMeet

-----------------------------------------------------------------------------
(* The inductive invariant.                                                *)

(* Validators that have stored b, no other block, and have it still.       *)
Loyal(b) == {n \in Node : chain[n] = b /\ held[n] = {b}}

(* The block that n has stored is what its job, the jobs it does for its   *)
(* peers and its own signature are about.                                  *)
ChainHeld(n) == chain[n] # None => chain[n] \in held[n]

JobOwn(n) ==
    job[n].pc # "none" =>
        /\ chain[n] \in Block /\ job[n].hash = chain[n]
        /\ job[n].pc = "create" => job[n].answers = {}
        /\ job[n].pc \in {"ask", "process"} =>
               attestation[n] # None /\ attestation[n].code = "raw"
        /\ job[n].pc = "confirm" => IsQuorum(Supporters(chain[n]))

RawOwn(n) ==
    attestation[n] # None /\ attestation[n].code = "raw" => attestation[n].hash = chain[n]

TaskOwn(n) ==
    \A t \in tasks[n] :
        /\ t.answer.hash = chain[n]
        /\ t.pc = "confirm" => IsQuorum(Supporters(chain[n]))
        /\ \A b \in Block : t.copy[b] \subseteq Supporters(b)

ConfirmedOwn(n) ==
    confirmed[n] # None => confirmed[n] = chain[n] /\ IsQuorum(Supporters(chain[n]))

Own == \A n \in Node : ChainHeld(n) /\ JobOwn(n) /\ RawOwn(n) /\ TaskOwn(n) /\ ConfirmedOwn(n)

(* Somebody has left a block only after a quorum was loyal to another one. *)
Leaving ==
    (\E n \in Node : held[n] # {} /\ held[n] # {chain[n]}) => \E b \in Block : IsQuorum(Loyal(b))

(* A quorum that has stored a block has a quorum that is loyal to it.      *)
Loyalty == \A b \in Block : IsQuorum(Supporters(b)) => IsQuorum(Loyal(b))

IInv == TypeOK /\ SupportIsGenuine /\ Own /\ Leaving /\ Loyalty

(* The invariant holds at the beginning.                                   *)
LEMMA InitInv == Init => IInv
<1> SUFFICES ASSUME Init PROVE IInv
  OBVIOUS
<1>1. TypeOK
  BY DEF Init, TypeOK, NoSupport, NoJob, Jobs
<1>2. SupportIsGenuine /\ Own
  BY NoneAssumption DEF Init, SupportIsGenuine, Own, ChainHeld, JobOwn, RawOwn, TaskOwn,
     ConfirmedOwn, NoSupport, NoJob
<1>3. Leaving
  BY DEF Init, Leaving
<1>4. ASSUME NEW b \in Block, IsQuorum(Supporters(b)) PROVE FALSE
  <2>1. Supporters(b) = {}
    BY DEF Init, Supporters
  <2> QED BY <1>4, <2>1, NobodyIsNoQuorum
<1>5. Loyalty
  BY <1>4 DEF Loyalty
<1> QED BY <1>1, <1>2, <1>3, <1>5 DEF IInv

-----------------------------------------------------------------------------
(* Who is loyal to which block.                                            *)

(* A step that stores nothing keeps what is said of stored blocks.         *)
LEMMA SameStored ==
    ASSUME UNCHANGED <<chain, held>>
    PROVE  /\ \A b : Supporters(b)' = Supporters(b) /\ Loyal(b)' = Loyal(b)
           /\ \A S : IsQuorum(S)' = IsQuorum(S)
           /\ Leaving /\ Loyalty => (Leaving /\ Loyalty)'
<1>1. chain' = chain /\ held' = held
  OBVIOUS
<1>2. \A b : Supporters(b)' = Supporters(b) /\ Loyal(b)' = Loyal(b)
  BY <1>1 DEF Supporters, Loyal
<1>3. \A S : IsQuorum(S)' = IsQuorum(S)
  BY DEF IsQuorum, get_quorum, ATTESTATION_QUORUM
<1>4. ASSUME Leaving PROVE Leaving'
  BY <1>1, <1>4 DEF Leaving, Loyal, IsQuorum, get_quorum, ATTESTATION_QUORUM
<1>5. ASSUME Loyalty PROVE Loyalty'
  <2> SUFFICES ASSUME NEW b \in Block PROVE (IsQuorum(Supporters(b)) => IsQuorum(Loyal(b)))'
    BY DEF Loyalty
  <2>1. IsQuorum(Supporters(b)) => IsQuorum(Loyal(b))
    BY <1>5 DEF Loyalty
  <2> QED BY <1>2, <2>1 DEF IsQuorum, get_quorum, ATTESTATION_QUORUM
<1> QED BY <1>2, <1>3, <1>4, <1>5

(* Storing a block: either nobody has left one, and all who have stored    *)
(* the new one are loyal to it, or a quorum is loyal to one block, which   *)
(* is then the only one that a quorum can have stored.                     *)
LEMMA TakeKeepsLoyalty ==
    ASSUME TypeOK, Leaving, Loyalty, NEW n \in Node, NEW b \in Block, Take(n, b)
    PROVE  (Leaving /\ Loyalty)'
<1>1. /\ chain[n] = None /\ chain'[n] = b /\ held'[n] = held[n] \cup {b}
      /\ \A m \in Node \ {n} : chain'[m] = chain[m] /\ held'[m] = held[m]
  BY DEF Take, TypeOK
<1>2. \A c \in Block : Loyal(c) \subseteq Loyal(c)'
  BY <1>1, NoneAssumption DEF Loyal
<1>3. \A c \in Block : Loyal(c) \in SUBSET Node /\ Loyal(c)' \in SUBSET Node
                       /\ Supporters(c)' \in SUBSET Node
  BY DEF Loyal, Supporters
<1>4. CASE \E m \in Node : held[m] # {} /\ held[m] # {chain[m]}
  <2>1. PICK c \in Block : IsQuorum(Loyal(c))
    BY <1>4 DEF Leaving
  <2>2. IsQuorum(Loyal(c)')
    BY <1>2, <1>3, <2>1, QuorumGrows
  <2>3. ASSUME NEW d \in Block, IsQuorum(Supporters(d)') PROVE d = c
    <3>1. PICK m \in Node : m \in Loyal(c) /\ m \in Supporters(d)'
      BY <1>3, <2>1, <2>3, QuorumsMeet
    <3>2. m # n
      BY <1>1, <3>1, NoneAssumption DEF Loyal
    <3> QED BY <1>1, <3>1, <3>2 DEF Loyal, Supporters
  <2> QED BY <2>2, <2>3 DEF Leaving, Loyalty, IsQuorum, get_quorum, ATTESTATION_QUORUM
<1>5. CASE \A m \in Node : held[m] = {} \/ held[m] = {chain[m]}
  <2>1. held[n] = {}
    BY <1>1, <1>5, NoneAssumption DEF TypeOK
  <2>2. \A m \in Node : held'[m] = {} \/ held'[m] = {chain'[m]}
    BY <1>1, <1>5, <2>1
  <2>3. \A c \in Block : Supporters(c)' = Loyal(c)'
    BY <2>2 DEF Supporters, Loyal
  <2> QED BY <2>2, <2>3 DEF Leaving, Loyalty, IsQuorum, get_quorum, ATTESTATION_QUORUM
<1> QED BY <1>4, <1>5

(* Leaving a block for one that a quorum has stored.                       *)
LEMMA ReorgKeepsLoyalty ==
    ASSUME TypeOK, Loyalty, NEW n \in Node, NEW b \in Block, chain[n] # b,
           IsQuorum(Supporters(b)), chain' = [chain EXCEPT ![n] = None], UNCHANGED held
    PROVE  (Leaving /\ Loyalty)'
<1>1. \A c \in Block : Loyal(c)' = Loyal(c) \ {n} /\ Supporters(c)' = Supporters(c)
  BY NoneAssumption DEF Loyal, Supporters, TypeOK
<1>2. IsQuorum(Loyal(b)')
  <2>1. n \notin Loyal(b)
    BY DEF Loyal
  <2> QED BY <1>1, <2>1 DEF Loyalty
<1>3. ASSUME NEW c \in Block, IsQuorum(Supporters(c)) PROVE c = b
  <2>1. Loyal(b) \in SUBSET Node /\ Supporters(c) \in SUBSET Node /\ IsQuorum(Loyal(b))
    BY DEF Loyal, Supporters, Loyalty
  <2>2. PICK m \in Node : m \in Loyal(b) /\ m \in Supporters(c)
    BY <1>3, <2>1, QuorumsMeet
  <2> QED BY <2>2 DEF Loyal, Supporters
<1> QED BY <1>1, <1>2, <1>3 DEF Leaving, Loyalty, IsQuorum, get_quorum, ATTESTATION_QUORUM

-----------------------------------------------------------------------------
(* The steps.                                                              *)

Local == TypeOK /\ SupportIsGenuine /\ Own

(* A stored block adds to its supporters, and its validator had nothing    *)
(* at the height before.                                                   *)
LEMMA TakeStep ==
    ASSUME Local, NEW n \in Node, NEW b \in Block, Take(n, b), JobOwn(n)', TypeOK',
           \A m \in Node \ {n} : job'[m] = job[m], 
           job'[n].pc \notin {"ask", "process"} \/ job'[n] = job[n],
           UNCHANGED <<ledger, attestation, confirmed, tasks>>
    PROVE  Local'
<1>1. /\ chain[n] = None /\ chain'[n] = b /\ b \in held'[n]
      /\ \A m \in Node \ {n} : chain'[m] = chain[m] /\ held'[m] = held[m]
      /\ \A m \in Node : held[m] \subseteq held'[m]
  BY DEF Take, Local, TypeOK
<1>2. \A c \in Block : Supporters(c) \subseteq Supporters(c)' /\ Supporters(c)' \subseteq Node
  BY <1>1 DEF Supporters
<1>3. \A c \in Block : IsQuorum(Supporters(c)) => IsQuorum(Supporters(c))'
  <2> SUFFICES ASSUME NEW c \in Block, IsQuorum(Supporters(c)) PROVE IsQuorum(Supporters(c)')
    BY DEF IsQuorum, get_quorum, ATTESTATION_QUORUM
  <2>1. Supporters(c) \in SUBSET Node /\ Supporters(c)' \in SUBSET Node
    BY <1>2
  <2> QED BY <1>2, <2>1, QuorumGrows
<1>4. SupportIsGenuine'
  <2> SUFFICES ASSUME NEW m \in Node
               PROVE  /\ \A c \in Block : ledger[m][c] \subseteq Supporters(c)'
                      /\ attestation[m] # None =>
                             attestation[m].support \subseteq Supporters(attestation[m].hash)'
                      /\ job'[m].pc \in {"ask", "process"} =>
                             \A a \in job'[m].answers : a.validators \subseteq Supporters(a.hash)'
                      /\ \A t \in tasks[m] : t.support \subseteq Supporters(t.answer.hash)'
    BY DEF SupportIsGenuine
  <2>1. \A c \in Block : ledger[m][c] \subseteq Supporters(c)'
    BY <1>2 DEF Local, SupportIsGenuine
  <2>2. ASSUME attestation[m] # None
        PROVE  attestation[m].support \subseteq Supporters(attestation[m].hash)'
    <3>1. attestation[m].hash \in Block
      BY <2>2 DEF Local, TypeOK, Attestations
    <3> QED BY <1>2, <2>2, <3>1 DEF Local, SupportIsGenuine
  <2>3. ASSUME job'[m].pc \in {"ask", "process"}, NEW a \in job'[m].answers
        PROVE  a.validators \subseteq Supporters(a.hash)'
    <3>1. job'[m] = job[m]
      BY <2>3
    <3>2. a.hash \in Block
      BY <2>3, <3>1 DEF Local, TypeOK, Jobs, Answers
    <3> QED BY <1>2, <2>3, <3>1, <3>2 DEF Local, SupportIsGenuine
  <2>4. ASSUME NEW t \in tasks[m] PROVE t.support \subseteq Supporters(t.answer.hash)'
    <3>1. t.answer.hash \in Block
      BY DEF Local, TypeOK, Tasks, Answers
    <3> QED BY <1>2, <3>1 DEF Local, SupportIsGenuine
  <2> QED BY <2>1, <2>2, <2>3, <2>4
<1>5. ASSUME NEW m \in Node \ {n} PROVE ChainHeld(m)' /\ JobOwn(m)' /\ RawOwn(m)'
  BY <1>1, <1>3 DEF Local, Own, ChainHeld, JobOwn, RawOwn
<1>6. ChainHeld(n)' /\ RawOwn(n)'
  <2>1. ASSUME attestation[n] # None, attestation[n].code = "raw" PROVE FALSE
    <3>1. attestation[n].hash \in Block /\ attestation[n].hash = None
      BY <1>1, <2>1 DEF Local, TypeOK, Attestations, Own, RawOwn
    <3> QED BY <3>1, NoneAssumption
  <2> QED BY <1>1, <2>1 DEF ChainHeld, RawOwn
<1>7. ASSUME NEW m \in Node PROVE TaskOwn(m)' /\ ConfirmedOwn(m)'
  <2>1. ASSUME NEW t \in tasks[m] PROVE t.answer.hash = chain[m] /\ chain[m] \in Block /\ m # n
    BY <1>1, NoneAssumption DEF Local, TypeOK, Tasks, Answers, Own, TaskOwn
  <2>2. ASSUME confirmed[m] # None PROVE chain[m] \in Block /\ m # n
    BY <1>1, <2>2, NoneAssumption DEF Local, TypeOK, Own, ConfirmedOwn
  <2>3. TaskOwn(m)'
    BY <1>1, <1>2, <1>3, <2>1 DEF Local, Own, TaskOwn
  <2>4. ConfirmedOwn(m)'
    BY <1>1, <1>3, <2>2 DEF Local, Own, ConfirmedOwn
  <2> QED BY <2>3, <2>4
<1> QED BY <1>4, <1>5, <1>6, <1>7 DEF Local, Own

(* What Local says of one validator.                                       *)
Genuine(n) ==
    /\ \A b \in Block : ledger[n][b] \subseteq Supporters(b)
    /\ attestation[n] # None =>
           attestation[n].support \subseteq Supporters(attestation[n].hash)
    /\ job[n].pc \in {"ask", "process"} =>
           \A a \in job[n].answers : a.validators \subseteq Supporters(a.hash)
    /\ \A t \in tasks[n] : t.support \subseteq Supporters(t.answer.hash)

LocalAt(n) ==
    Genuine(n) /\ ChainHeld(n) /\ JobOwn(n) /\ RawOwn(n) /\ TaskOwn(n) /\ ConfirmedOwn(n)

(* The local part of the invariant, validator by validator.                *)
LEMMA LocalEverywhere == Local <=> TypeOK /\ \A n \in Node : LocalAt(n)
BY DEF Local, SupportIsGenuine, Own, LocalAt, Genuine

(* The jobs of a validator after a step that stores no block.              *)
LEMMA TasksOwn ==
    ASSUME NEW n \in Node, UNCHANGED <<chain, held>>,
           \A u \in tasks'[n] : /\ u.answer.hash = chain[n]
                                /\ u.pc = "confirm" => IsQuorum(Supporters(chain[n]))
                                /\ \A b \in Block : u.copy[b] \subseteq Supporters(b)
    PROVE  TaskOwn(n)'
<1>1. chain' = chain /\ held' = held
  OBVIOUS
<1> SUFFICES ASSUME NEW u \in tasks'[n]
             PROVE  /\ u.answer.hash = chain'[n]
                    /\ u.pc = "confirm" => IsQuorum(Supporters(chain[n]))'
                    /\ \A b \in Block : u.copy[b] \subseteq Supporters(b)'
  BY DEF TaskOwn
<1>2. u.answer.hash = chain'[n]
  BY <1>1
<1>3. ASSUME u.pc = "confirm" PROVE IsQuorum(Supporters(chain[n]))'
  <2>1. IsQuorum(Supporters(chain[n]))
    BY <1>3
  <2> QED BY <1>1, <2>1 DEF Supporters, IsQuorum, get_quorum, ATTESTATION_QUORUM
<1>4. ASSUME NEW b \in Block PROVE u.copy[b] \subseteq Supporters(b)'
  <2>1. u.copy[b] \subseteq Supporters(b)
    OBVIOUS
  <2> QED BY <1>1, <2>1 DEF Supporters
<1> QED BY <1>2, <1>3, <1>4

(* What a step that stores no block keeps of one validator.                *)
LEMMA KeepsAt ==
    ASSUME NEW n \in Node, LocalAt(n), UNCHANGED <<chain, held>>
    PROVE  /\ ChainHeld(n)'
           /\ attestation'[n] = attestation[n] => RawOwn(n)'
           /\ tasks'[n] \subseteq tasks[n] => TaskOwn(n)'
           /\ confirmed'[n] = confirmed[n] => ConfirmedOwn(n)'
           /\ job'[n] = job[n] /\ attestation'[n] = attestation[n] => JobOwn(n)'
<1>1. chain' = chain /\ held' = held
  OBVIOUS
<1>2. ChainHeld(n)'
  BY <1>1 DEF LocalAt, ChainHeld
<1>3. ASSUME attestation'[n] = attestation[n] PROVE RawOwn(n)'
  BY <1>1, <1>3 DEF LocalAt, RawOwn
<1>4. ASSUME tasks'[n] \subseteq tasks[n] PROVE TaskOwn(n)'
  <2>1. TaskOwn(n)
    BY DEF LocalAt
  <2>2. \A u \in tasks'[n] : /\ u.answer.hash = chain[n]
                             /\ u.pc = "confirm" => IsQuorum(Supporters(chain[n]))
                             /\ \A b \in Block : u.copy[b] \subseteq Supporters(b)
    BY <1>4, <2>1 DEF TaskOwn
  <2> QED BY <2>2, TasksOwn
<1>5. ASSUME confirmed'[n] = confirmed[n] PROVE ConfirmedOwn(n)'
  <2>1. ConfirmedOwn(n)
    BY DEF LocalAt
  <2> QED BY <1>1, <1>5, <2>1
          DEF ConfirmedOwn, Supporters, IsQuorum, get_quorum, ATTESTATION_QUORUM
<1>6. ASSUME job'[n] = job[n], attestation'[n] = attestation[n] PROVE JobOwn(n)'
  <2>1. JobOwn(n)
    BY DEF LocalAt
  <2> QED BY <1>1, <1>6, <2>1
          DEF JobOwn, Supporters, IsQuorum, get_quorum, ATTESTATION_QUORUM
<1> QED BY <1>2, <1>3, <1>4, <1>5, <1>6

(* What keeps that everything n knows of support is genuine.               *)
LEMMA KeepsGenuine ==
    ASSUME NEW n \in Node, LocalAt(n), UNCHANGED <<chain, held>>,
           ledger'[n] = ledger[n], attestation'[n] = attestation[n],
           \/ job'[n].pc \notin {"ask", "process"}
           \/ job[n].pc \in {"ask", "process"} /\ job'[n].answers \subseteq job[n].answers,
           tasks'[n] \subseteq tasks[n]
    PROVE  Genuine(n)'
<1>1. Genuine(n) /\ held' = held
  BY DEF LocalAt
<1> QED BY <1>1 DEF Genuine, Supporters

(* A job that goes on to another step.                                     *)
LEMMA JobGoesOn ==
    ASSUME TypeOK, NEW n \in Node, NEW s \in {"none", "create", "ask", "process", "confirm"},
           job' = [job EXCEPT ![n].pc = s]
    PROVE  /\ job' \in [Node -> Jobs]
           /\ job'[n].pc = s /\ job'[n].hash = job[n].hash
           /\ job'[n].asked = job[n].asked /\ job'[n].answers = job[n].answers
<1>1. PICK j : j = [job[n] EXCEPT !.pc = s]
  OBVIOUS
<1>2. job[n] \in Jobs /\ job \in [Node -> Jobs]
  BY DEF TypeOK
<1>3. /\ j \in Jobs /\ j.pc = s /\ j.hash = job[n].hash
      /\ j.asked = job[n].asked /\ j.answers = job[n].answers
  BY <1>1, <1>2 DEF Jobs
<1>4. job' = [job EXCEPT ![n] = j]
  BY <1>1
<1> QED BY <1>2, <1>3, <1>4

(* A step of n alone that stores no block leaves the others as they are.   *)
LEMMA Alone ==
    ASSUME Local, TypeOK', NEW n \in Node, LocalAt(n)', UNCHANGED <<chain, held>>,
           \A m \in Node \ {n} :
               /\ ledger'[m] = ledger[m] /\ attestation'[m] = attestation[m]
               /\ confirmed'[m] = confirmed[m] /\ job'[m] = job[m] /\ tasks'[m] = tasks[m]
    PROVE  Local'
<1> SUFFICES ASSUME NEW m \in Node, m # n PROVE LocalAt(m)'
  BY LocalEverywhere DEF Local, SupportIsGenuine, Own, LocalAt, Genuine
<1>1. LocalAt(m)
  BY LocalEverywhere
<1>2. /\ ledger'[m] = ledger[m] /\ attestation'[m] = attestation[m]
      /\ confirmed'[m] = confirmed[m] /\ job'[m] = job[m] /\ tasks'[m] = tasks[m]
  OBVIOUS
<1>3. Genuine(m)'
  <2>1. job[m].pc \in {"ask", "process"} \/ job[m].pc \notin {"ask", "process"}
    OBVIOUS
  <2> QED BY <1>1, <1>2, <2>1, KeepsGenuine
<1> QED BY <1>1, <1>2, <1>3, KeepsAt DEF LocalAt

(* Signing the own block keeps the local part.                             *)
LEMMA CreateStep == ASSUME Local, NEW n \in Node, CreateAttestation(n) PROVE Local'
<1>1. /\ LocalAt(n) /\ TypeOK /\ job[n].hash = chain[n] /\ chain[n] \in Block
      /\ chain[n] \in held[n]
  BY LocalEverywhere, NoneAssumption DEF LocalAt, JobOwn, ChainHeld, CreateAttestation
<1>2. TypeOK'
  <2>1. job' \in [Node -> Jobs]
    BY <1>1, JobGoesOn DEF CreateAttestation
  <2>2. ledger' \in [Node -> [Block -> SUBSET Node]]
    BY <1>1 DEF CreateAttestation, TypeOK
  <2>3. attestation' \in [Node -> Attestations \cup {None}]
    BY <1>1 DEF CreateAttestation, TypeOK, Attestations
  <2> QED BY <1>1, <2>1, <2>2, <2>3 DEF CreateAttestation, TypeOK
<1>3. /\ ledger'[n] = [ledger[n] EXCEPT ![chain[n]] = {n}]
      /\ attestation'[n] = [hash |-> chain[n], code |-> "raw", support |-> {n},
                            confirmed |-> FALSE]
      /\ job'[n] = [job[n] EXCEPT !.pc = "ask"]
      /\ chain' = chain /\ held' = held /\ confirmed' = confirmed /\ tasks' = tasks
  BY <1>1 DEF CreateAttestation, TypeOK
<1>4. n \in Supporters(chain[n])
  BY <1>1 DEF Supporters
<1>5. Genuine(n)'
  <2>1. Genuine(n) /\ job[n].answers = {}
    BY <1>1 DEF LocalAt, JobOwn, CreateAttestation
  <2>2. \A b \in Block : ledger'[n][b] \subseteq Supporters(b)
    BY <1>1, <1>3, <1>4, <2>1 DEF Genuine, TypeOK
  <2>3. attestation'[n].support \subseteq Supporters(attestation'[n].hash)
    BY <1>3, <1>4
  <2>4. job'[n].answers = {}
    BY <1>1, <1>3, <2>1 DEF TypeOK, Jobs
  <2> QED BY <1>3, <2>1, <2>2, <2>3, <2>4 DEF Genuine, Supporters
<1>6. JobOwn(n)'
  <2>1. /\ job'[n].pc = "ask" /\ job'[n].hash = chain[n]
        /\ attestation'[n].code = "raw" /\ attestation'[n] \in Attestations
    BY <1>1, <1>3 DEF TypeOK, Jobs, Attestations
  <2> QED BY <1>1, <1>3, <2>1, NoneAssumption DEF JobOwn
<1>7. RawOwn(n)'
  BY <1>3 DEF RawOwn
<1>8. LocalAt(n)'
  BY <1>1, <1>3, <1>5, <1>6, <1>7, KeepsAt DEF LocalAt
<1> QED BY <1>2, <1>8, Alone DEF CreateAttestation, TypeOK

(* Ending a round keeps the local part.                                    *)
LEMMA StopStep == ASSUME Local, NEW n \in Node, StopAsking(n) PROVE Local'
<1> USE DEF StopAsking
<1>1. LocalAt(n) /\ TypeOK
  BY LocalEverywhere
<1>2. /\ job' \in [Node -> Jobs] /\ job'[n].pc = "process" /\ job'[n].hash = job[n].hash
      /\ job'[n].answers = job[n].answers
  BY <1>1, JobGoesOn
<1>3. TypeOK'
  BY <1>1, <1>2 DEF TypeOK
<1>4. JobOwn(n)'
  BY <1>1, <1>2 DEF LocalAt, JobOwn
<1>5. Genuine(n)'
  BY <1>1, <1>2, KeepsGenuine
<1>6. LocalAt(n)'
  BY <1>1, <1>4, <1>5, KeepsAt DEF LocalAt
<1> QED BY <1>3, <1>6, Alone DEF TypeOK

(* Adding an answer to the ledger keeps the local part.                    *)
LEMMA ProcessStep ==
    ASSUME Local, NEW n \in Node, NEW a \in job[n].answers, ProcessBlockAttestationAsync(n, a)
    PROVE  Local'
<1> USE DEF ProcessBlockAttestationAsync
<1>1. LocalAt(n) /\ TypeOK /\ a \in Answers
  BY LocalEverywhere DEF TypeOK, Jobs
<1>2. PICK j : j = [job[n] EXCEPT !.answers = @ \ {a}]
  OBVIOUS
<1>3. /\ j \in Jobs /\ j.answers = job[n].answers \ {a} /\ j.pc = job[n].pc
      /\ j.hash = job[n].hash
  BY <1>1, <1>2 DEF TypeOK, Jobs
<1>4. job' = [job EXCEPT ![n] = j] /\ job'[n] = j
  BY <1>1, <1>2 DEF TypeOK
<1>5. ledger'[n] = [ledger[n] EXCEPT ![a.hash] = @ \cup a.validators]
  BY <1>1 DEF TypeOK
<1>6. TypeOK'
  <2>1. ledger' \in [Node -> [Block -> SUBSET Node]]
    BY <1>1 DEF TypeOK, Answers
  <2>2. job' \in [Node -> Jobs]
    BY <1>1, <1>3, <1>4 DEF TypeOK
  <2> QED BY <1>1, <2>1, <2>2 DEF TypeOK
<1>7. Genuine(n)'
  <2>1. a.validators \subseteq Supporters(a.hash)
    BY <1>1 DEF LocalAt, Genuine
  <2>2. \A b \in Block : ledger'[n][b] \subseteq Supporters(b)
    BY <1>1, <1>5, <2>1 DEF LocalAt, Genuine, TypeOK
  <2> QED BY <1>1, <1>3, <1>4, <2>2 DEF LocalAt, Genuine, Supporters
<1>8. JobOwn(n)'
  BY <1>1, <1>3, <1>4 DEF LocalAt, JobOwn
<1>9. LocalAt(n)'
  BY <1>1, <1>7, <1>8, KeepsAt DEF LocalAt
<1> QED BY <1>6, <1>9, Alone DEF TypeOK

(* The job of n ends, by itself or with the process.                       *)
LEMMA EndStep ==
    ASSUME Local, NEW n \in Node, job' = [job EXCEPT ![n] = NoJob],
           tasks' = tasks \/ tasks' = [tasks EXCEPT ![n] = {}],
           UNCHANGED <<chain, ledger, attestation, reached, confirmed, held>>
    PROVE  Local'
<1>1. LocalAt(n) /\ TypeOK
  BY LocalEverywhere
<1>2. TypeOK'
  BY <1>1 DEF TypeOK, Jobs, NoJob
<1>3. job'[n].pc = "none" /\ tasks'[n] \subseteq tasks[n]
  BY <1>1 DEF TypeOK, NoJob
<1>4. JobOwn(n)'
  BY <1>3 DEF JobOwn
<1>5. Genuine(n)'
  BY <1>1, <1>3, KeepsGenuine
<1>6. LocalAt(n)'
  BY <1>1, <1>3, <1>4, <1>5, KeepsAt DEF LocalAt
<1> QED BY <1>2, <1>6, Alone DEF TypeOK

(* While n decides, its preference is the block it has stored.             *)
LEMMA Deciding ==
    ASSUME Local, NEW n \in Node, job[n].pc = "process", NEW b \in Block
    PROVE  /\ Mine(n, b) <=> b = chain[n]
           /\ IsQuorum(ledger[n][b]) => IsQuorum(Supporters(b))
<1>1. LocalAt(n)
  BY LocalEverywhere
<1>2. attestation[n] # None /\ attestation[n].code = "raw" /\ attestation[n].hash = chain[n]
  BY <1>1 DEF LocalAt, JobOwn, RawOwn
<1>3. /\ ledger[n][b] \in SUBSET Node /\ Supporters(b) \in SUBSET Node
      /\ ledger[n][b] \subseteq Supporters(b)
  BY <1>1 DEF LocalAt, Genuine, Supporters
<1> QED BY <1>2, <1>3, QuorumGrows DEF Mine

(* Deciding keeps the local part.                                          *)
LEMMA CheckStep ==
    ASSUME Local, NEW n \in Node, NEW b \in Block, CheckAttestations(n, b)
    PROVE  Local'
<1>1. LocalAt(n) /\ TypeOK
  BY LocalEverywhere
<1>2. PICK v \in BOOLEAN : v = IsQuorum(ledger[n][b])
  <2>1. IsQuorum(ledger[n][b]) \in BOOLEAN
    BY DEF IsQuorum
  <2> QED BY <2>1, Zenon
<1>3. PICK a \in Attestations :
          /\ attestation' = [attestation EXCEPT ![n] = a]
          /\ a.code = "base58" /\ a.hash = b /\ a.support = ledger[n][b]
  <2>1. attestation' = [attestation EXCEPT ![n] =
            [hash |-> b, code |-> "base58", support |-> ledger[n][b], confirmed |-> v]]
    BY <1>2 DEF CheckAttestations, set_attestation
  <2>2. [hash |-> b, code |-> "base58", support |-> ledger[n][b], confirmed |-> v] \in Attestations
    BY <1>1 DEF TypeOK, Attestations
  <2> QED BY <2>1, <2>2
<1>4. PICK j \in Jobs :
          /\ job' = [job EXCEPT ![n] = j]
          /\ \/ j.pc = "none"
             \/ /\ j.pc = "confirm" /\ j.hash = chain[n] /\ chain[n] \in Block
                /\ IsQuorum(Supporters(chain[n]))
  <2>1. job[n].hash = chain[n] /\ job[n].pc = "process" /\ job[n] \in Jobs
    BY <1>1 DEF LocalAt, JobOwn, CheckAttestations, Decide, TypeOK
  <2>2. CASE IsQuorum(ledger[n][b])
    <3>1. b = chain[n] /\ IsQuorum(Supporters(b))
      BY <2>1, <2>2, Deciding DEF CheckAttestations
    <3>2. job' = [job EXCEPT ![n] = [job[n] EXCEPT !.pc = "confirm"]]
      BY <2>2 DEF CheckAttestations
    <3>3. [job[n] EXCEPT !.pc = "confirm"] \in Jobs
      BY <2>1 DEF Jobs
    <3> QED BY <2>1, <3>1, <3>2, <3>3 DEF Jobs
  <2>3. CASE ~IsQuorum(ledger[n][b])
    <3>1. job' = [job EXCEPT ![n] = NoJob]
      BY <2>3 DEF CheckAttestations
    <3>2. NoJob \in Jobs /\ NoJob.pc = "none"
      BY DEF Jobs, NoJob
    <3> QED BY <3>1, <3>2
  <2> QED BY <2>2, <2>3
<1>5. UNCHANGED <<chain, ledger, reached, confirmed, tasks, held>>
  BY DEF CheckAttestations
<1>6. TypeOK'
  BY <1>1, <1>3, <1>4, <1>5 DEF TypeOK
<1>7. attestation'[n] = a /\ job'[n] = j
  BY <1>1, <1>3, <1>4 DEF TypeOK
<1>8. Genuine(n)'
  BY <1>1, <1>3, <1>4, <1>5, <1>7 DEF LocalAt, Genuine, Supporters
<1>9. JobOwn(n)'
  BY <1>4, <1>5, <1>7 DEF JobOwn, Supporters, IsQuorum, get_quorum, ATTESTATION_QUORUM
<1>10. RawOwn(n)'
  BY <1>3, <1>7 DEF RawOwn
<1>11. LocalAt(n)'
  BY <1>1, <1>5, <1>8, <1>9, <1>10, KeepsAt DEF LocalAt
<1> QED BY <1>1, <1>3, <1>4, <1>5, <1>6, <1>11, Alone DEF TypeOK

(* The block that n leaves is not the one that a quorum has stored, so n   *)
(* had not confirmed it.                                                   *)
LEMMA ReorgLeaves ==
    ASSUME IInv, NEW n \in Node, NEW b \in Block, reorg_blockchain(n, b)
    PROVE  b # chain[n] /\ IsQuorum(Supporters(b)) /\ confirmed[n] = None
<1>1. b # chain[n] /\ IsQuorum(Supporters(b))
  BY Deciding DEF IInv, Local, reorg_blockchain, Decide
<1>2. ASSUME confirmed[n] # None PROVE FALSE
  <2>1. confirmed[n] = chain[n] /\ chain[n] \in Block /\ IsQuorum(Supporters(chain[n]))
    BY <1>2 DEF IInv, Own, ConfirmedOwn, TypeOK
  <2>2. IsQuorum(Loyal(chain[n])) /\ Loyal(chain[n]) \in SUBSET Node
        /\ Supporters(b) \in SUBSET Node
    BY <2>1 DEF IInv, Loyalty, Loyal, Supporters
  <2>3. PICK m \in Node : m \in Loyal(chain[n]) /\ m \in Supporters(b)
    BY <1>1, <2>2, QuorumsMeet
  <2> QED BY <1>1, <2>3 DEF Loyal, Supporters
<1> QED BY <1>1, <1>2

(* Leaving a block keeps the local part.                                   *)
LEMMA ReorgStep ==
    ASSUME IInv, NEW n \in Node, NEW b \in Block, reorg_blockchain(n, b)
    PROVE  Local'
<1>1. Local /\ TypeOK
  BY DEF IInv, Local
<1>2. TypeOK'
  BY <1>1 DEF reorg_blockchain, TypeOK, NoSupport, NoJob, Jobs
<1>3. /\ chain'[n] = None /\ ledger'[n] = NoSupport /\ attestation'[n] = None
      /\ confirmed'[n] = None /\ job'[n] = NoJob /\ tasks'[n] = {} /\ held' = held
  BY <1>1 DEF reorg_blockchain, TypeOK
<1>4. LocalAt(n)'
  BY <1>3 DEF LocalAt, Genuine, ChainHeld, JobOwn, RawOwn, TaskOwn, ConfirmedOwn, NoSupport, NoJob
<1>5. ASSUME NEW m \in Node, m # n PROVE LocalAt(m)'
  <2>1. /\ chain'[m] = chain[m] /\ ledger'[m] = ledger[m] /\ attestation'[m] = attestation[m]
        /\ confirmed'[m] = confirmed[m] /\ job'[m] = job[m] /\ tasks'[m] = tasks[m]
    BY <1>1, <1>5 DEF reorg_blockchain, TypeOK
  <2>2. LocalAt(m)
    BY <1>1, LocalEverywhere
  <2> QED BY <1>3, <2>1, <2>2 DEF LocalAt, Genuine, ChainHeld, JobOwn, RawOwn, TaskOwn,
          ConfirmedOwn, Supporters, IsQuorum, get_quorum, ATTESTATION_QUORUM
<1> QED BY <1>2, <1>4, <1>5 DEF Local, SupportIsGenuine, Own, LocalAt, Genuine

(* Confirming keeps the local part.                                        *)
LEMMA ConfirmStep == ASSUME Local, NEW n \in Node, StoreConfirmed(n) PROVE Local'
<1>1. LocalAt(n) /\ TypeOK
  BY LocalEverywhere
<1>2. job[n].hash = chain[n] /\ chain[n] \in Block /\ IsQuorum(Supporters(chain[n]))
  BY <1>1 DEF LocalAt, JobOwn, StoreConfirmed
<1>3. TypeOK'
  BY <1>1, <1>2 DEF StoreConfirmed, TypeOK, NoJob, Jobs
<1>4. /\ confirmed'[n] = chain[n] /\ job'[n] = NoJob
      /\ UNCHANGED <<chain, ledger, attestation, tasks, held>>
  BY <1>1, <1>2 DEF StoreConfirmed, TypeOK
<1>5. JobOwn(n)'
  BY <1>4 DEF JobOwn, NoJob
<1>6. Genuine(n)'
  BY <1>1, <1>4, KeepsGenuine DEF NoJob
<1>7. ConfirmedOwn(n)'
  BY <1>2, <1>4 DEF ConfirmedOwn, Supporters, IsQuorum, get_quorum, ATTESTATION_QUORUM
<1>8. LocalAt(n)'
  BY <1>1, <1>4, <1>5, <1>6, <1>7, KeepsAt DEF LocalAt
<1> QED BY <1>1, <1>3, <1>4, <1>8, Alone DEF StoreConfirmed, TypeOK

-----------------------------------------------------------------------------
(* The server's side.                                                      *)

(* What n goes on to do for a peer is what it was about to do before.      *)
Follows(n, t, u) ==
    /\ u \in Tasks /\ u.answer = t.answer /\ u.support = t.support
    /\ u.pc = "confirm" => IsQuorum(Supporters(chain[n]))
    /\ \A b \in Block : u.copy[b] \subseteq Supporters(b)

(* What n writes is genuine and about the block that it has stored.        *)
WritesOwn(n) ==
    /\ chain' = chain /\ job' = job /\ held' = held /\ reached' \in [Node -> BOOLEAN]
    /\ ledger' \in [Node -> [Block -> SUBSET Node]]
    /\ attestation' \in [Node -> Attestations \cup {None}]
    /\ confirmed' \in [Node -> Block \cup {None}]
    /\ \A m \in Node \ {n} : /\ ledger'[m] = ledger[m] /\ attestation'[m] = attestation[m]
                             /\ confirmed'[m] = confirmed[m]
    /\ \A b \in Block : ledger'[n][b] \subseteq Supporters(b)
    /\ \/ attestation'[n] = attestation[n]
       \/ /\ attestation'[n] \in Attestations /\ attestation'[n].code = "raw"
          /\ attestation'[n].hash = chain[n]
          /\ attestation'[n].support \subseteq Supporters(chain[n])
    /\ \/ confirmed'[n] = confirmed[n]
       \/ confirmed'[n] = chain[n] /\ IsQuorum(Supporters(chain[n]))

(* A task that moves on keeps the local part.                              *)
LEMMA AdvanceTasks ==
    ASSUME Local, NEW n \in Node, NEW t \in tasks[n], NEW next, Advance(n, t, next),
           WritesOwn(n), \A u \in next : Follows(n, t, u)
    PROVE  Local'
<1> USE DEF Follows, WritesOwn
<1>1. LocalAt(n) /\ TypeOK
  BY LocalEverywhere
<1>2. tasks' = [tasks EXCEPT ![n] = (tasks[n] \ {t}) \cup next]
  BY DEF Advance
<1>3. TypeOK'
  BY <1>1, <1>2 DEF TypeOK
<1>4. tasks'[n] = (tasks[n] \ {t}) \cup next
  BY <1>1, <1>2 DEF TypeOK
<1>5. Genuine(n)'
  BY <1>1, <1>4 DEF LocalAt, Genuine, Supporters
<1>6. TaskOwn(n)'
  <2>1. TaskOwn(n) /\ chain' = chain /\ held' = held
    BY <1>1 DEF LocalAt
  <2>2. \A u \in tasks'[n] : /\ u.answer.hash = chain[n]
                             /\ u.pc = "confirm" => IsQuorum(Supporters(chain[n]))
                             /\ \A b \in Block : u.copy[b] \subseteq Supporters(b)
    BY <1>4, <2>1 DEF TaskOwn
  <2> QED BY <2>1, <2>2, TasksOwn
<1>7. JobOwn(n)' /\ RawOwn(n)'
  BY <1>1, <1>4, NoneAssumption DEF LocalAt, JobOwn, RawOwn, Supporters, IsQuorum, get_quorum,
     ATTESTATION_QUORUM
<1>8. LocalAt(n)'
  BY <1>1, <1>4, <1>5, <1>6, <1>7 DEF LocalAt, ChainHeld, ConfirmedOwn, Supporters, IsQuorum,
     get_quorum, ATTESTATION_QUORUM
<1> QED BY <1>1, <1>2, <1>3, <1>8, Alone DEF TypeOK

(* A step that writes no database.                                         *)
LEMMA WritesNothing ==
    ASSUME Local, NEW n \in Node, reached' \in [Node -> BOOLEAN],
           UNCHANGED <<chain, ledger, attestation, confirmed, job, held>>
    PROVE  WritesOwn(n)
BY LocalEverywhere DEF TypeOK, LocalAt, Genuine, WritesOwn

(* What LocalAt and TypeOK say of a job that n does for a peer.            *)
LEMMA OfTask ==
    ASSUME Local, NEW n \in Node, NEW t \in tasks[n]
    PROVE  /\ t \in Tasks /\ t.answer.hash = chain[n] /\ chain[n] \in Block
           /\ t.support \in SUBSET Node /\ t.support \subseteq Supporters(chain[n])
           /\ t.copy \in [Block -> SUBSET Node]
           /\ \A b \in Block : t.copy[b] \subseteq Supporters(b)
           /\ t.pc = "confirm" => IsQuorum(Supporters(chain[n]))
<1>1. LocalAt(n) /\ t \in Tasks
  BY LocalEverywhere DEF TypeOK
<1> QED BY <1>1 DEF Tasks, Answers, LocalAt, Genuine, TaskOwn

(* A look at a request and its answer keeps the local part.                *)
LEMMA LookStep == ASSUME Local, NEW n \in Node, NEW t \in tasks[n], LookAt(n, t) PROVE Local'
<1>1. LocalAt(n) /\ TypeOK
  BY LocalEverywhere
<1>2. WritesOwn(n)
  <2>1. reached' \in [Node -> BOOLEAN]
    BY <1>1 DEF LookAt, TypeOK
  <2>2. UNCHANGED <<chain, ledger, attestation, confirmed, job, held>>
    BY DEF LookAt
  <2> QED BY <2>1, <2>2, WritesNothing
<1>3. CASE Confirms(t)
  <2> DEFINE s == [t EXCEPT !.pc = "confirm"]
  <2>1. Advance(n, t, {s})
    BY <1>3 DEF LookAt
  <2>2. IsQuorum(Supporters(chain[n]))
    <3>1. Supporters(chain[n]) \in SUBSET Node
      BY DEF Supporters
    <3> QED BY <1>3, <3>1, OfTask, QuorumGrows DEF Confirms
  <2>3. Follows(n, t, s)
    BY <2>2, OfTask DEF Tasks, Follows
  <2> HIDE DEF s
  <2> QED BY <1>2, <2>1, <2>3, AdvanceTasks
<1>4. CASE ~Confirms(t) /\ ledger[n][t.answer.hash] = {}
  <2>1. Advance(n, t, {})
    BY <1>4 DEF LookAt
  <2> QED BY <1>2, <2>1, AdvanceTasks
<1>5. CASE ~Confirms(t) /\ ledger[n][t.answer.hash] # {}
  <2> DEFINE c == [ledger[n] EXCEPT ![t.answer.hash] = t.support]
             s == [t EXCEPT !.pc = "store", !.copy = c]
  <2>1. Advance(n, t, {s})
    BY <1>5 DEF LookAt
  <2>2. c \in [Block -> SUBSET Node] /\ \A b \in Block : c[b] \subseteq Supporters(b)
    BY <1>1, OfTask DEF TypeOK, LocalAt, Genuine
  <2> HIDE DEF c
  <2>3. PICK r : r = [t EXCEPT !.pc = "store"]
    OBVIOUS
  <2>4. r \in Tasks /\ r.pc = "store" /\ r.answer = t.answer /\ r.support = t.support
    BY <2>3, OfTask DEF Tasks
  <2>5. s = [r EXCEPT !.copy = c]
    BY <2>3
  <2> HIDE DEF s
  <2>6. Follows(n, t, s)
    BY <2>2, <2>4, <2>5 DEF Tasks, Follows
  <2> QED BY <1>2, <2>1, <2>6, AdvanceTasks
<1> QED BY <1>3, <1>4, <1>5

(* Writing back a copy of the ledger keeps the local part.                 *)
LEMMA StoreLedgerStep ==
    ASSUME Local, NEW n \in Node, NEW t \in tasks[n], StoreLedger(n, t) PROVE Local'
<1> DEFINE s == [t EXCEPT !.pc = "attest", !.copy = NoSupport]
<1>1. LocalAt(n) /\ TypeOK
  BY LocalEverywhere
<1>2. Advance(n, t, {s})
  BY DEF StoreLedger
<1>3. Follows(n, t, s)
  <2>1. NoSupport \in [Block -> SUBSET Node] /\ \A b \in Block : NoSupport[b] = {}
    BY DEF NoSupport
  <2>2. PICK r : r = [t EXCEPT !.pc = "attest"]
    OBVIOUS
  <2>3. r \in Tasks /\ r.pc = "attest" /\ r.answer = t.answer /\ r.support = t.support
    BY <2>2, OfTask DEF Tasks
  <2>4. s = [r EXCEPT !.copy = NoSupport]
    BY <2>2
  <2> HIDE DEF s
  <2> QED BY <2>1, <2>3, <2>4 DEF Tasks, Follows
<1> HIDE DEF s
<1>4. WritesOwn(n)
  BY <1>1, OfTask DEF StoreLedger, TypeOK, WritesOwn
<1> QED BY <1>2, <1>3, <1>4, AdvanceTasks

(* Confirming what a peer asked for keeps the local part.                  *)
LEMMA ConfirmAskedStep ==
    ASSUME Local, NEW n \in Node, NEW t \in tasks[n], ConfirmAsked(n, t) PROVE Local'
<1> DEFINE s == [t EXCEPT !.pc = "attest"]
<1>1. LocalAt(n) /\ TypeOK
  BY LocalEverywhere
<1>2. Advance(n, t, {s}) /\ t.pc = "confirm"
  BY DEF ConfirmAsked
<1>3. Follows(n, t, s)
  BY OfTask DEF Tasks, Follows
<1> HIDE DEF s
<1>4. WritesOwn(n)
  BY <1>1, <1>2, OfTask DEF ConfirmAsked, TypeOK, WritesOwn, LocalAt, Genuine
<1> QED BY <1>2, <1>3, <1>4, AdvanceTasks

(* Writing a preference keeps the local part.                              *)
LEMMA StoreAttestationStep ==
    ASSUME Local, NEW n \in Node, NEW t \in tasks[n], StoreAttestation(n, t) PROVE Local'
<1>1. LocalAt(n) /\ TypeOK
  BY LocalEverywhere
<1>2. PICK v \in BOOLEAN : v = Confirms(t)
  <2>1. Confirms(t) \in BOOLEAN
    BY DEF Confirms
  <2> QED BY <2>1, Zenon
<1> DEFINE a == [hash |-> t.answer.hash, code |-> "raw", support |-> t.support, confirmed |-> v]
<1>3. attestation' = [attestation EXCEPT ![n] = a]
  BY <1>2 DEF StoreAttestation
<1>4. /\ a \in Attestations /\ a.code = "raw" /\ a.hash = chain[n]
      /\ a.support \subseteq Supporters(chain[n])
  BY OfTask DEF Attestations
<1> HIDE DEF a
<1>5. Advance(n, t, {}) /\ UNCHANGED <<chain, ledger, reached, confirmed, job, held>>
  BY DEF StoreAttestation
<1>6. WritesOwn(n)
  BY <1>1, <1>3, <1>4, <1>5 DEF TypeOK, LocalAt, Genuine, WritesOwn
<1> QED BY <1>5, <1>6, AdvanceTasks

-----------------------------------------------------------------------------
(* Asking and answering.                                                   *)

(* An answer is about the block that the peer has stored.                  *)
LEMMA AnswerOwn ==
    ASSUME Local, NEW p \in Node, NEW b \in Block, NEW a \in Answer(p, b)
    PROVE  /\ a \in Answers /\ a.hash = chain[p] /\ chain[p] \in Block
           /\ a.validators \subseteq Supporters(a.hash)
           /\ a.support => a.hash = b
<1>1. LocalAt(p) /\ TypeOK
  BY LocalEverywhere
<1>2. CASE attestation[p] # None
  <2>1. attestation[p] \in Attestations
    BY <1>1, <1>2 DEF TypeOK
  <2>2. /\ attestation[p].hash \in Block /\ attestation[p].support \in SUBSET Node
        /\ attestation[p].support \subseteq Supporters(attestation[p].hash)
    BY <1>1, <1>2, <2>1 DEF Attestations, LocalAt, Genuine
  <2>3. a \in has_preference_response(p, b)
    BY <1>2 DEF Answer
  <2>4. CASE attestation[p].code = "raw" /\ attestation[p].hash = b
    <3>1. a = [support |-> TRUE, hash |-> b, validators |-> attestation[p].support]
      BY <2>3, <2>4 DEF has_preference_response
    <3> QED BY <1>1, <1>2, <2>2, <2>4, <3>1 DEF Answers, LocalAt, RawOwn
  <2>5. CASE ~(attestation[p].code = "raw" /\ attestation[p].hash = b)
    <3>1. /\ a = [support |-> FALSE, hash |-> attestation[p].hash,
                  validators |-> attestation[p].support]
          /\ attestation[p].hash = chain[p]
      BY <2>3, <2>5 DEF has_preference_response
    <3> QED BY <2>2, <3>1 DEF Answers
  <2> QED BY <2>4, <2>5
<1>3. CASE attestation[p] = None
  <2>1. a \in no_preference_response(p)
    BY <1>3 DEF Answer
  <2>2. chain[p] # None /\ a = [support |-> FALSE, hash |-> chain[p], validators |-> {p}]
    BY <2>1 DEF no_preference_response
  <2>3. chain[p] \in Block /\ p \in Supporters(chain[p])
    BY <1>1, <2>2 DEF TypeOK, LocalAt, ChainHeld, Supporters
  <2> QED BY <2>2, <2>3 DEF Answers
<1> QED BY <1>2, <1>3

(* Asking a peer keeps the local part.                                     *)
LEMMA AskStep == ASSUME Local, NEW n \in Node, NEW p \in Node, Ask(n, p) PROVE Local'
<1> DEFINE answer == Answer(p, job[n].hash)
           new == {[pc |-> "look", answer |-> a, support |-> Named(n, a), copy |-> NoSupport] :
                      a \in answer}
<1>1. TypeOK /\ LocalAt(n) /\ LocalAt(p) /\ job[n].pc = "ask"
  BY LocalEverywhere DEF Ask
<1>2. job[n].hash = chain[n] /\ chain[n] \in Block /\ n \in Supporters(chain[n])
  BY <1>1, NoneAssumption DEF LocalAt, JobOwn, ChainHeld, Supporters
<1>3. \A a \in answer : /\ a \in Answers /\ a.hash = chain[p]
                        /\ a.validators \subseteq Supporters(a.hash)
                        /\ a.support => a.hash = chain[n]
  BY <1>2, AnswerOwn
<1>4. \A a \in answer : Named(n, a) \in SUBSET Node /\ Named(n, a) \subseteq Supporters(a.hash)
  BY <1>2, <1>3 DEF Named, Answers
<1>5. NoSupport \in [Block -> SUBSET Node] /\ \A b \in Block : NoSupport[b] = {}
  BY DEF NoSupport
<1>6. \A t \in new : /\ t \in Tasks /\ t.pc = "look" /\ t.answer.hash = chain[p]
                     /\ t.support \subseteq Supporters(t.answer.hash)
                     /\ \A b \in Block : t.copy[b] = {}
  BY <1>3, <1>4, <1>5 DEF Tasks
<1>7. /\ UNCHANGED <<chain, ledger, attestation, reached, confirmed, held>>
      /\ tasks' = [tasks EXCEPT ![p] = tasks[p] \cup (IF reached[p] THEN {} ELSE new)]
  BY DEF Ask
<1>8. PICK j \in Jobs : /\ job' = [job EXCEPT ![n] = j]
                        /\ j.pc \in {"ask", "process"} /\ j.hash = chain[n]
                        /\ j.answers \subseteq job[n].answers \cup answer
  <2>1. job[n] \in Jobs /\ p \in Node
    BY <1>1 DEF TypeOK
  <2>2. CASE job' = [job EXCEPT ![n].asked = @ \cup {p}, ![n].answers = @ \cup answer]
    <3>1. PICK k : k = [job[n] EXCEPT !.asked = @ \cup {p}]
      OBVIOUS
    <3>2. k \in Jobs /\ k.pc = "ask" /\ k.hash = chain[n] /\ k.answers = job[n].answers
      BY <1>1, <1>2, <2>1, <3>1 DEF Jobs
    <3>3. PICK i : i = [k EXCEPT !.answers = @ \cup answer]
      OBVIOUS
    <3>4. answer \subseteq Answers
      BY <1>3
    <3> HIDE DEF answer
    <3>5. i \in Jobs /\ i.pc = "ask" /\ i.hash = chain[n] /\ i.answers = job[n].answers \cup answer
      BY <3>2, <3>3, <3>4 DEF Jobs
    <3>6. job' = [job EXCEPT ![n] = i]
      BY <1>1, <2>2, <3>1, <3>3 DEF TypeOK
    <3> QED BY <3>5, <3>6
  <2>3. CASE job' = [job EXCEPT ![n].pc = "process"]
    <3>1. PICK k : k = [job[n] EXCEPT !.pc = "process"]
      OBVIOUS
    <3>2. k \in Jobs /\ k.pc = "process" /\ k.hash = chain[n] /\ k.answers = job[n].answers
      BY <1>2, <2>1, <3>1 DEF Jobs
    <3>3. job' = [job EXCEPT ![n] = k]
      BY <2>3, <3>1
    <3> QED BY <3>2, <3>3
  <2> QED BY <2>2, <2>3 DEF Ask
<1> HIDE DEF answer, new
<1>9. TypeOK'
  <2>1. job' \in [Node -> Jobs]
    BY <1>1, <1>8 DEF TypeOK
  <2>2. tasks' \in [Node -> SUBSET Tasks]
    BY <1>1, <1>6, <1>7 DEF TypeOK
  <2> QED BY <1>1, <1>7, <2>1, <2>2 DEF TypeOK
<1> SUFFICES ASSUME NEW m \in Node PROVE LocalAt(m)'
  BY <1>9 DEF Local, SupportIsGenuine, Own, LocalAt, Genuine
<1>10. LocalAt(m)
  BY LocalEverywhere
<1>11. /\ job'[m] = job[m] \/ (m = n /\ job'[m] = j)
       /\ tasks'[m] \subseteq tasks[m] \cup (IF m = p THEN new ELSE {})
  BY <1>1, <1>7, <1>8 DEF TypeOK
<1>12. Genuine(m)'
  BY <1>1, <1>3, <1>6, <1>7, <1>8, <1>10, <1>11 DEF LocalAt, Genuine, Supporters
<1>13. JobOwn(m)'
  BY <1>1, <1>2, <1>7, <1>8, <1>10, <1>11 DEF LocalAt, JobOwn, Supporters, IsQuorum, get_quorum,
     ATTESTATION_QUORUM
<1>14. TaskOwn(m)'
  <2>1. TaskOwn(m) /\ chain' = chain /\ held' = held
    BY <1>7, <1>10 DEF LocalAt
  <2>2. \A u \in tasks'[m] : /\ u.answer.hash = chain[m]
                             /\ u.pc = "confirm" => IsQuorum(Supporters(chain[m]))
                             /\ \A b \in Block : u.copy[b] \subseteq Supporters(b)
    BY <1>6, <1>11, <2>1 DEF TaskOwn
  <2> QED BY <2>1, <2>2, TasksOwn
<1> QED BY <1>7, <1>10, <1>12, <1>13, <1>14 DEF LocalAt, ChainHeld, RawOwn, ConfirmedOwn,
        Supporters, IsQuorum, get_quorum, ATTESTATION_QUORUM

-----------------------------------------------------------------------------
(* Every step.                                                             *)

(* Storing a broadcast block keeps the invariant.                          *)
LEMMA StoreStep ==
    ASSUME IInv, NEW n \in Node, NEW b \in Block, StoreBlock(n, b) PROVE IInv'
<1>1. TypeOK /\ Local /\ Take(n, b)
  BY DEF IInv, Local, StoreBlock
<1>2. PICK j : j = [NoJob EXCEPT !.pc = "create", !.hash = b]
  OBVIOUS
<1>3. j \in Jobs /\ j.pc = "create" /\ j.hash = b /\ j.answers = {}
  BY <1>2 DEF NoJob, Jobs
<1>4. job' = [job EXCEPT ![n] = j] /\ UNCHANGED <<ledger, attestation, reached, confirmed, tasks>>
  BY <1>2 DEF StoreBlock
<1>5. TypeOK'
  BY <1>1, <1>3, <1>4 DEF TypeOK, Take
<1>6. job'[n] = j /\ chain'[n] = b /\ \A m \in Node \ {n} : job'[m] = job[m]
  BY <1>1, <1>4 DEF TypeOK, Take
<1>7. JobOwn(n)'
  BY <1>3, <1>6 DEF JobOwn
<1>8. Local'
  BY <1>1, <1>3, <1>4, <1>5, <1>6, <1>7, TakeStep
<1> QED BY <1>1, <1>8, TakeKeepsLoyalty DEF IInv, Local

(* Storing a peer's block after a reorganisation keeps the invariant.      *)
LEMMA SyncStep == ASSUME IInv, NEW n \in Node, NEW p \in Node, SyncBlock(n, p) PROVE IInv'
<1>1. TypeOK /\ Local /\ Take(n, chain[p]) /\ chain[p] \in Block
  BY DEF IInv, Local, SyncBlock, TypeOK
<1>2. UNCHANGED <<ledger, attestation, reached, confirmed, job, tasks>>
  BY DEF SyncBlock
<1>3. TypeOK'
  BY <1>1, <1>2 DEF TypeOK, Take
<1>4. job[n].pc = "none"
  BY <1>1, NoneAssumption DEF Local, Own, JobOwn, Take
<1>5. JobOwn(n)'
  BY <1>2, <1>4 DEF JobOwn
<1>6. Local'
  BY <1>1, <1>2, <1>3, <1>5, TakeStep
<1> QED BY <1>1, <1>6, TakeKeepsLoyalty DEF IInv, Local

(* Leaving a block for one with a quorum keeps the invariant.              *)
LEMMA ReorgInv ==
    ASSUME IInv, NEW n \in Node, NEW b \in Block, reorg_blockchain(n, b) PROVE IInv'
<1>1. Local' /\ chain[n] # b /\ IsQuorum(Supporters(b))
  BY ReorgStep, ReorgLeaves
<1>2. chain' = [chain EXCEPT ![n] = None] /\ held' = held
  BY DEF reorg_blockchain
<1> QED BY <1>1, <1>2, ReorgKeepsLoyalty DEF IInv, Local

(* A step that stores and leaves no block.                                 *)
Quiet(n) ==
    \/ CreateAttestation(n)
    \/ \E p \in Node : Ask(n, p)
    \/ StopAsking(n)
    \/ \E a \in job[n].answers : ProcessBlockAttestationAsync(n, a)
    \/ CheckFails(n)
    \/ \E b \in Block : CheckAttestations(n, b)
    \/ StoreConfirmed(n)
    \/ Server(n)
    \/ Crash(n)

(* The steps that change no stored block keep the invariant.               *)
LEMMA QuietStep == ASSUME IInv, NEW n \in Node, Quiet(n) PROVE IInv'
<1>1. Local /\ Leaving /\ Loyalty
  BY DEF IInv, Local
<1>2. chain' = chain /\ held' = held
  BY DEF Quiet, CreateAttestation, Ask, StopAsking, ProcessBlockAttestationAsync, CheckFails,
     CheckAttestations, StoreConfirmed, Server, LookAt, StoreLedger, ConfirmAsked,
     StoreAttestation, Crash
<1>3. CASE CreateAttestation(n)
  BY <1>1, <1>3, CreateStep, SameStored, <1>2 DEF IInv, Local
<1>4. CASE \E p \in Node : Ask(n, p)
  BY <1>1, <1>4, AskStep, SameStored, <1>2 DEF IInv, Local
<1>5. CASE StopAsking(n)
  BY <1>1, <1>5, StopStep, SameStored, <1>2 DEF IInv, Local
<1>6. CASE \E a \in job[n].answers : ProcessBlockAttestationAsync(n, a)
  BY <1>1, <1>6, ProcessStep, SameStored, <1>2 DEF IInv, Local
<1>7. CASE CheckFails(n)
  <2>1. Local'
    BY <1>1, <1>7, EndStep DEF CheckFails
  <2> QED BY <1>1, <1>2, <2>1, SameStored DEF IInv, Local
<1>8. CASE \E b \in Block : CheckAttestations(n, b)
  BY <1>1, <1>8, CheckStep, SameStored, <1>2 DEF IInv, Local
<1>9. CASE StoreConfirmed(n)
  BY <1>1, <1>9, ConfirmStep, SameStored, <1>2 DEF IInv, Local
<1>10. CASE Server(n)
  <2>1. Local'
    BY <1>1, <1>10, LookStep, StoreLedgerStep, ConfirmAskedStep, StoreAttestationStep DEF Server
  <2> QED BY <1>1, <1>2, <2>1, SameStored DEF IInv, Local
<1>11. CASE Crash(n)
  <2>1. Local'
    BY <1>1, <1>11, EndStep DEF Crash
  <2> QED BY <1>1, <1>2, <2>1, SameStored DEF IInv, Local
<1> QED BY <1>3, <1>4, <1>5, <1>6, <1>7, <1>8, <1>9, <1>10, <1>11 DEF Quiet

(* The invariant is inductive.                                             *)
LEMMA StepInv == IInv /\ [Next]_vars => IInv'
<1> SUFFICES ASSUME IInv, [Next]_vars PROVE IInv'
  OBVIOUS
<1>1. ASSUME NEW n \in Node, NEW b \in Block, StoreBlock(n, b) PROVE IInv'
  BY <1>1, StoreStep
<1>2. ASSUME NEW n \in Node, NEW p \in Node, SyncBlock(n, p) PROVE IInv'
  BY <1>2, SyncStep
<1>3. ASSUME NEW n \in Node, NEW b \in Block, reorg_blockchain(n, b) PROVE IInv'
  BY <1>3, ReorgInv
<1>4. ASSUME NEW n \in Node, Quiet(n) PROVE IInv'
  BY <1>4, QuietStep
<1>5. CASE UNCHANGED vars
  <2>1. TypeOK'
    BY <1>5 DEF vars, IInv, TypeOK
  <2>2. SupportIsGenuine'
    BY <1>5 DEF vars, IInv, SupportIsGenuine, Supporters
  <2>3. ASSUME NEW n \in Node
        PROVE  (ChainHeld(n) /\ JobOwn(n) /\ RawOwn(n) /\ TaskOwn(n) /\ ConfirmedOwn(n))'
    <3>1. LocalAt(n)
      BY LocalEverywhere DEF IInv, Local
    <3>2. ChainHeld(n)' /\ RawOwn(n)'
      BY <1>5, <3>1 DEF vars, LocalAt, ChainHeld, RawOwn
    <3>3. JobOwn(n)' /\ ConfirmedOwn(n)'
      BY <1>5, <3>1 DEF vars, LocalAt, JobOwn, ConfirmedOwn, Supporters, IsQuorum, get_quorum,
         ATTESTATION_QUORUM
    <3>4. TaskOwn(n)'
      BY <1>5, <3>1 DEF vars, LocalAt, TaskOwn, Supporters, IsQuorum, get_quorum,
         ATTESTATION_QUORUM
    <3> QED BY <3>2, <3>3, <3>4
  <2>4. Leaving' /\ Loyalty'
    BY <1>5, SameStored DEF vars, IInv
  <2> QED BY <2>1, <2>2, <2>3, <2>4 DEF IInv, Own
<1> QED BY <1>1, <1>2, <1>3, <1>4, <1>5 DEF Next, Client, Quiet

-----------------------------------------------------------------------------
(* The theorems.                                                           *)

(* Two quorums of stake share a validator that is loyal to one block.      *)
LEMMA OneQuorum ==
    ASSUME IInv, NEW b \in Block, NEW c \in Block,
           IsQuorum(Supporters(b)), IsQuorum(Supporters(c))
    PROVE  b = c
<1>1. IsQuorum(Loyal(b)) /\ Loyal(b) \in SUBSET Node /\ Supporters(c) \in SUBSET Node
  BY DEF IInv, Loyalty, Loyal, Supporters
<1>2. PICK m \in Node : m \in Loyal(b) /\ m \in Supporters(c)
  BY <1>1, QuorumsMeet
<1> QED BY <1>2 DEF Loyal, Supporters

(* The invariant implies agreement.                                        *)
LEMMA IInvAgreement == IInv => Agreement
<1> SUFFICES ASSUME IInv, NEW m \in Node, NEW n \in Node,
                    confirmed[m] # None, confirmed[n] # None
             PROVE  confirmed[m] = confirmed[n]
  BY DEF Agreement
<1>1. /\ confirmed[m] \in Block /\ IsQuorum(Supporters(confirmed[m]))
      /\ confirmed[n] \in Block /\ IsQuorum(Supporters(confirmed[n]))
  BY DEF IInv, TypeOK, Own, ConfirmedOwn
<1> QED BY <1>1, OneQuorum

(* Every variable keeps its type, and what a validator counts as support   *)
(* is genuine, in every instance.                                          *)
THEOREM GenuineAlways == Spec => [](TypeOK /\ SupportIsGenuine)
<1>1. IInv => TypeOK /\ SupportIsGenuine
  BY DEF IInv
<1> QED BY InitInv, StepInv, <1>1, PTL DEF Spec

(* No two validators ever confirm different blocks of a height, and each   *)
(* confirms the one it has stored, for any validators, stakes and blocks,  *)
(* any loss of answers and any crashes.                                    *)
THEOREM AgreementAlways == Spec => []ConfirmedOnce
<1>1. IInv => ConfirmedIsStored
  BY DEF IInv, Own, ConfirmedOwn, ConfirmedIsStored
<1>2. IInv => ConfirmedOnce
  BY <1>1, IInvAgreement DEF IInv, ConfirmedOnce
<1> QED BY InitInv, StepInv, <1>2, PTL DEF Spec

-----------------------------------------------------------------------------
(* One confirmation per height.                                            *)

(* A block with a quorum is the settled one.                               *)
LEMMA SettledIs ==
    ASSUME IInv, NEW b \in Block, IsQuorum(Supporters(b))
    PROVE  Settled = b
<1>1. \A c \in Block : IsQuorum(Supporters(c)) => c = b
  BY OneQuorum
<1> QED BY <1>1 DEF Settled

(* A step that stores no block settles none.                               *)
LEMMA SettledStays == ASSUME held' = held PROVE Settled' = Settled
BY DEF Settled, Supporters, IsQuorum, get_quorum, ATTESTATION_QUORUM

(* Storing a block settles it or nothing.                                  *)
LEMMA TakeRefines ==
    ASSUME IInv, IInv', NEW n \in Node, NEW b \in Block, Take(n, b), confirmed' = confirmed
    PROVE  (\E c \in Block : C!Settle(c)) \/ Settled' = Settled
<1>1. \A c \in Block : Supporters(c) \subseteq Supporters(c)' /\ Supporters(c)' \in SUBSET Node
                       /\ Supporters(c) \in SUBSET Node
  BY DEF Take, Supporters, IInv, TypeOK
<1>2. ASSUME NEW c \in Block, NEW d \in Block, IsQuorum(Supporters(c)'), IsQuorum(Supporters(d)')
      PROVE  c = d
  <2>1. IsQuorum(Loyal(c)') /\ Loyal(c)' \in SUBSET Node
    BY <1>2 DEF IInv, Loyalty, Loyal, IsQuorum, get_quorum, ATTESTATION_QUORUM
  <2>2. PICK m \in Node : m \in Loyal(c)' /\ m \in Supporters(d)'
    BY <1>1, <1>2, <2>1, QuorumsMeet
  <2> QED BY <2>2 DEF Loyal, Supporters
<1>3. Settled' = IF \E c \in Block : IsQuorum(Supporters(c)')
                 THEN CHOOSE c \in Block : IsQuorum(Supporters(c)') ELSE None
  BY DEF Settled, IsQuorum, get_quorum, ATTESTATION_QUORUM
<1>4. CASE \E c \in Block : IsQuorum(Supporters(c))
  <2>1. PICK c \in Block : IsQuorum(Supporters(c))
    BY <1>4
  <2>2. IsQuorum(Supporters(c)')
    BY <1>1, <2>1, QuorumGrows
  <2>3. Settled' = c
    BY <1>2, <1>3, <2>2
  <2> QED BY <2>1, <2>3, SettledIs
<1>5. CASE ~\E c \in Block : IsQuorum(Supporters(c))
  <2>1. Settled = None
    BY <1>5 DEF Settled
  <2>2. Settled' \in Block \cup {None}
    BY <1>3
  <2> QED BY <2>1, <2>2 DEF C!Settle
<1> QED BY <1>4, <1>5

(* Confirming is confirming the settled block.                             *)
LEMMA ConfirmRefines ==
    ASSUME IInv, NEW n \in Node, NEW b \in Block, IsQuorum(Supporters(b)),
           confirmed' = [confirmed EXCEPT ![n] = b], held' = held
    PROVE  C!Confirm(n)
BY SettledIs, SettledStays, NoneAssumption DEF C!Confirm

(* Every step is a step of the abstract specification or a stutter.        *)
LEMMA StepRefines ==
    ASSUME IInv, IInv', [Next]_vars PROVE [C!Next]_<<Settled, confirmed>>
<1>1. ASSUME NEW n \in Node, NEW b \in Block, Take(n, b), confirmed' = confirmed
      PROVE  [C!Next]_<<Settled, confirmed>>
  BY <1>1, TakeRefines DEF C!Next
<1>2. ASSUME held' = held, confirmed' = confirmed PROVE [C!Next]_<<Settled, confirmed>>
  BY <1>2, SettledStays
<1>3. ASSUME NEW n \in Node, NEW b \in Block, StoreBlock(n, b)
      PROVE  [C!Next]_<<Settled, confirmed>>
  BY <1>1, <1>3 DEF StoreBlock
<1>4. ASSUME NEW n \in Node, NEW p \in Node, SyncBlock(n, p)
      PROVE  [C!Next]_<<Settled, confirmed>>
  <2>1. chain[p] \in Block
    BY <1>4 DEF SyncBlock, IInv, TypeOK
  <2> QED BY <1>1, <1>4, <2>1 DEF SyncBlock
<1>5. ASSUME NEW n \in Node, NEW b \in Block, reorg_blockchain(n, b)
      PROVE  [C!Next]_<<Settled, confirmed>>
  <2>1. confirmed[n] = None
    BY <1>5, ReorgLeaves
  <2>2. confirmed' = confirmed /\ held' = held
    BY <1>5, <2>1 DEF reorg_blockchain, IInv, TypeOK
  <2> QED BY <1>2, <2>2
<1>6. ASSUME NEW n \in Node, StoreConfirmed(n) PROVE [C!Next]_<<Settled, confirmed>>
  <2>1. /\ job[n].hash \in Block /\ IsQuorum(Supporters(job[n].hash))
        /\ confirmed' = [confirmed EXCEPT ![n] = job[n].hash] /\ held' = held
    BY <1>6 DEF StoreConfirmed, IInv, Own, JobOwn
  <2> QED BY <2>1, ConfirmRefines DEF C!Next
<1>7. ASSUME NEW n \in Node, NEW t \in tasks[n], ConfirmAsked(n, t)
      PROVE  [C!Next]_<<Settled, confirmed>>
  <2>1. chain[n] \in Block /\ IsQuorum(Supporters(chain[n])) /\ t.answer.hash = chain[n]
    BY <1>7, OfTask DEF IInv, Local, ConfirmAsked
  <2>2. confirmed' = [confirmed EXCEPT ![n] = chain[n]] /\ held' = held
    BY <1>7, <2>1 DEF ConfirmAsked
  <2> QED BY <2>1, <2>2, ConfirmRefines DEF C!Next
<1>8. ASSUME NEW n \in Node,
             \/ CreateAttestation(n) \/ StopAsking(n) \/ CheckFails(n) \/ Crash(n)
             \/ \E p \in Node : Ask(n, p)
             \/ \E a \in job[n].answers : ProcessBlockAttestationAsync(n, a)
             \/ \E b \in Block : CheckAttestations(n, b)
             \/ \E t \in tasks[n] : LookAt(n, t) \/ StoreLedger(n, t) \/ StoreAttestation(n, t)
      PROVE  held' = held /\ confirmed' = confirmed
  BY <1>8 DEF CreateAttestation, StopAsking, CheckFails, Crash, Ask, ProcessBlockAttestationAsync,
     CheckAttestations, LookAt, StoreLedger, StoreAttestation
<1>9. CASE UNCHANGED vars
  BY <1>2, <1>9 DEF vars
<1> QED BY <1>2, <1>3, <1>4, <1>5, <1>6, <1>7, <1>8, <1>9 DEF Next, Client, Server

(* The first state is one of the abstract specification.                   *)
LEMMA InitRefines == ASSUME Init PROVE C!Init
<1>1. \A b \in Block : ~IsQuorum(Supporters(b))
  <2>1. \A b \in Block : Supporters(b) = {}
    BY DEF Init, Supporters
  <2> QED BY <2>1, NobodyIsNoQuorum
<1> QED BY <1>1 DEF C!Init, Init, Settled

(* The validators implement one confirmation per height: a block is        *)
(* settled once, and nobody confirms another one or takes that back.       *)
THEOREM ConfirmationImplemented == Spec => ImplementsConfirmation
<1>1. Init => C!Init
  BY InitRefines
<1>2. IInv /\ IInv' /\ [Next]_vars => [C!Next]_<<Settled, confirmed>>
  BY StepRefines
<1> QED BY InitInv, StepInv, <1>1, <1>2, PTL DEF Spec, ImplementsConfirmation, C!Spec

-----------------------------------------------------------------------------
(* Votes on proposals: what is true of Voting at every moment. *)

(* Votes, delegations and payments that wait are finite, and well-formed.  *)
AVote == [by : Wallet, id : Proposal, choice : Choice, with : Seq(Wallet)]
APayment == [from : Wallet, to : Wallet, in : Instrument, amount : Nat]

WaitingTyped ==
    /\ waiting.votes \subseteq AVote /\ IsFiniteSet(waiting.votes)
    /\ waiting.delegations \subseteq MayDelegate /\ IsFiniteSet(waiting.delegations)
    /\ waiting.payments \subseteq APayment /\ IsFiniteSet(waiting.payments)
    /\ DOMAIN waiting = {"votes", "delegations", "payments"}

HistoryTyped ==
    /\ cast \in [Wallet -> [Proposal -> SUBSET Choice]]
    /\ own \in [Wallet -> [Proposal -> Choice \union {NoVote}]]
    /\ raced \in [Wallet -> [Proposal -> BOOLEAN]]
    /\ overwritten \subseteq Proposal

VotingTypes == VotesTyped /\ WaitingTyped /\ HistoryTyped

(* A wallet waits with one vote on a proposal at most; those that vote     *)
(* with it had no record of a vote, and may delegate to it.                *)
WaitingVotes ==
    /\ \A v, x \in waiting.votes : v.by = x.by /\ v.id = x.id => v = x
    /\ \A v \in waiting.votes : \A w \in Range(v.with) :
          priority[w] = NoVote /\ v.by \in Delegates[w]

RecipientsDelegated ==
    \A w \in Wallet : \A k \in DOMAIN recipients[w] :
        \E m \in MayDelegate : m.by = recipients[w][k].by /\ m.to = w

(* A wallet that voted has a record of it; one that holds nothing is       *)
(* counted for nothing.                                                    *)
OwnRecorded ==
    \A w \in Wallet, p \in Proposal :
        /\ own[w][p] # NoVote => priority[w] # NoVote
        /\ given[w][p] # NoVote => \E i \in Instrument : amount[w][i] # NoKey

(* Proposals counted through others only, and votes that wait to be.       *)
ThroughOthers(w) == {p \in Proposal : given[w][p] # NoVote /\ cast[w][p] = {}}
WaitingFor(w) == {v \in waiting.votes : w \in Range(v.with)}
PaidAhead ==
    \A w \in Wallet :
        Paid(w) >= VoteFee * (Cardinality(ThroughOthers(w)) + Cardinality(WaitingFor(w)))

(* What a wallet holds when the waiting payments are made.                 *)
NewBalance(w, i) ==
    LET c == Change(waiting.payments, w, i) IN Balance(w, i) + c.in - c.out

(* Payments are covered, and nothing is lost or made by them.              *)
Supply(i) == SumFunction([w \in Wallet |->
                 IF FirstAmount[w][i] = NoKey THEN 0 ELSE FirstAmount[w][i]])
Covered ==
    \A i \in Instrument :
        /\ \A w \in Wallet : NewBalance(w, i) >= 0
        /\ SumFunction([w \in Wallet |-> NewBalance(w, i)]) = Supply(i)

(* Whoever is counted for a choice is in its tally.                        *)
InTally ==
    \A p \in Proposal \ overwritten : \A w \in Wallet, i \in Instrument :
        given[w][p] # NoVote => tally[p][given[w][p]][i] # NoKey /\ amount[w][i] # NoKey

-----------------------------------------------------------------------------
(* The search for those who vote with a wallet. *)

(* What the search carries, and what is true of it from a root.            *)
Search == [todo : Seq(Wallet), seen : SUBSET Wallet, wallets : Seq(Wallet),
           fund : [Wallet -> Nat]]

Charged(s) ==
    \A u \in Wallet :
        /\ s.fund[u] <= fund[u]
        /\ u \in Range(s.wallets) => priority[u] = NoVote /\ s.fund[u] + VoteFee <= fund[u]

SearchFrom(root) ==
    {s \in Search : Charged(s) /\ \A u \in Range(s.todo) \union Range(s.wallets) :
                                      root \in Delegates[u]}

(* Steps that are left: the list, and the wallets not come to yet.         *)
Unseen(seen) == [w \in Wallet |-> IF w \in seen THEN 0 ELSE Len(recipients[w]) + 1]
StepsLeft(s) == Len(s.todo) + SumFunctionOnSet(Unseen(s.seen), Wallet)

(* A delegate of a delegate is a delegate.                                 *)
LEMMA DelegatesThrough ==
    ASSUME NEW m \in MayDelegate, NEW root \in Wallet, root \in Delegates[m.to]
    PROVE  root \in Delegates[m.by]
<1>1. m.by \in Wallet /\ m.to \in Wallet
  BY VotingAssumption
<1>2. \A ws \in SUBSET Wallet : m.to \in ws /\ Closed(ws) => root \in ws
  BY <1>1 DEF Delegates
<1> SUFFICES ASSUME NEW ws \in SUBSET Wallet, m.by \in ws, Closed(ws)
             PROVE  root \in ws
  BY <1>1 DEF Delegates
<1> QED BY <1>2 DEF Closed

(* Everybody is a delegate of its own.                                     *)
LEMMA DelegatesSelf == ASSUME NEW w \in Wallet PROVE w \in Delegates[w]
BY DEF Delegates

(* The members of sequences.                                               *)
LEMMA RangeTail ==
    ASSUME NEW S, NEW s \in Seq(S), s # <<>>
    PROVE  /\ Head(s) \in S /\ Head(s) \in Range(s)
           /\ Tail(s) \in Seq(S) /\ Range(Tail(s)) \subseteq Range(s)
           /\ Len(Tail(s)) = Len(s) - 1
<1>1. /\ Head(s) \in S /\ Tail(s) \in Seq(S) /\ Len(Tail(s)) = Len(s) - 1
      /\ \A i \in 1 .. Len(Tail(s)) : Tail(s)[i] = s[i + 1]
  BY HeadTailProperties
<1>2. Len(s) \in Nat \ {0} /\ DOMAIN s = 1 .. Len(s) /\ DOMAIN Tail(s) = 1 .. Len(Tail(s))
  BY <1>1, EmptySeq, LenProperties
<1>3. Head(s) = s[1]
  OBVIOUS
<1>4. \A i \in 1 .. Len(Tail(s)) : i + 1 \in 1 .. Len(s)
  BY <1>1, <1>2
<1> QED BY <1>1, <1>2, <1>3, <1>4 DEF Range

(* The members of two sequences joined.                                   *)
LEMMA RangeConcat ==
    ASSUME NEW S, NEW s \in Seq(S), NEW t \in Seq(S)
    PROVE  /\ s \o t \in Seq(S) /\ Len(s \o t) = Len(s) + Len(t)
           /\ Range(s \o t) \subseteq Range(s) \union Range(t)
<1>1. /\ s \o t \in Seq(S) /\ Len(s \o t) = Len(s) + Len(t)
      /\ \A i \in 1 .. Len(s) + Len(t) :
            (s \o t)[i] = IF i <= Len(s) THEN s[i] ELSE t[i - Len(s)]
  BY ConcatProperties
<1>2. /\ Len(s) \in Nat /\ Len(t) \in Nat /\ DOMAIN s = 1 .. Len(s) /\ DOMAIN t = 1 .. Len(t)
      /\ DOMAIN (s \o t) = 1 .. Len(s \o t)
  BY <1>1, LenProperties
<1> DEFINE st == s \o t
<1> SUFFICES ASSUME NEW i \in DOMAIN st
             PROVE  st[i] \in Range(s) \union Range(t)
  BY <1>1 DEF Range
<1>3. i \in 1 .. Len(s) + Len(t)
  BY <1>1, <1>2
<1>4. CASE i <= Len(s)
  <2>1. i \in DOMAIN s /\ st[i] = s[i]
    BY <1>1, <1>2, <1>3, <1>4
  <2> QED BY <2>1 DEF Range
<1>5. CASE ~ (i <= Len(s))
  <2>1. i - Len(s) \in DOMAIN t /\ st[i] = t[i - Len(s)]
    BY <1>1, <1>2, <1>3, <1>5
  <2> QED BY <2>1 DEF Range
<1> QED BY <1>4, <1>5

(* The members of a sequence and one more.                                 *)
LEMMA RangeAppend ==
    ASSUME NEW S, NEW s \in Seq(S), NEW x \in S
    PROVE  /\ Append(s, x) \in Seq(S) /\ Range(Append(s, x)) = Range(s) \union {x}
           /\ Len(Append(s, x)) = Len(s) + 1
<1>1. /\ Append(s, x) \in Seq(S) /\ Len(Append(s, x)) = Len(s) + 1
      /\ DOMAIN s = 1 .. Len(s) /\ Len(s) \in Nat
  BY LenProperties
<1>2. DOMAIN Append(s, x) = 1 .. Len(s) + 1
  BY <1>1, LenProperties
<1>3. \A i \in 1 .. Len(s) : Append(s, x)[i] = s[i]
  BY <1>1
<1>4. Append(s, x)[Len(s) + 1] = x
  BY <1>1
<1> DEFINE a == Append(s, x)
<1> HIDE DEF a
<1>5. \A i \in DOMAIN a : i \in DOMAIN s \/ i = Len(s) + 1
  BY <1>1, <1>2 DEF a
<1>6. \A i \in DOMAIN s : i \in DOMAIN a
  BY <1>1, <1>2 DEF a
<1>7. Len(s) + 1 \in DOMAIN a
  BY <1>1, <1>2 DEF a
<1>8. Range(a) = Range(s) \union {x}
  BY <1>1, <1>3, <1>4, <1>5, <1>6, <1>7 DEF Range, a
<1> QED BY <1>1, <1>8 DEF a

(* The members of a sequence are in its set.                               *)
LEMMA RangeWallets ==
    ASSUME NEW S, NEW s \in Seq(S)
    PROVE  \A x \in Range(s) : x \in S
<1> SUFFICES ASSUME NEW k \in DOMAIN s PROVE s[k] \in S
  BY DEF Range
<1>1. k \in 1 .. Len(s)
  BY LenProperties
<1> QED BY <1>1, ElementOfSeq

(* A wallet's share of a sum changes.                                      *)
LEMMA WalletSum ==
    ASSUME NEW f, NEW g, NEW w \in Wallet,
           \A u \in Wallet : f[u] \in Int /\ g[u] \in Int,
           \A u \in Wallet : u # w => g[u] = f[u]
    PROVE  SumFunctionOnSet(g, Wallet) = SumFunctionOnSet(f, Wallet) + g[w] - f[w]
<1>1. \A u \in Wallet \ {w} : g[u] = f[u]
  OBVIOUS
<1>2. IsFiniteSet(Wallet)
  BY VotingAssumption
<1> QED BY <1>1, <1>2, SumChange

(* Who delegates to a wallet.                                              *)
LEMMA DelegatorsType ==
    ASSUME VotingTypes, RecipientsDelegated, NEW w \in Wallet
    PROVE  /\ Delegators(w) \in Seq(Wallet) /\ Len(Delegators(w)) = Len(recipients[w])
           /\ \A u \in Range(Delegators(w)) : \A root \in Delegates[w] : root \in Delegates[u]
<1>1. recipients[w] \in Seq([by : Wallet, priority : Nat])
  BY DEF VotingTypes, VotesTyped
<1>2. Len(recipients[w]) \in Nat /\ DOMAIN recipients[w] = 1 .. Len(recipients[w])
  BY <1>1, LenProperties
<1>3. \A k \in 1 .. Len(recipients[w]) : recipients[w][k].by \in Wallet
  <2> SUFFICES ASSUME NEW k \in 1 .. Len(recipients[w]) PROVE recipients[w][k].by \in Wallet
    OBVIOUS
  <2>1. recipients[w][k] \in [by : Wallet, priority : Nat]
    BY <1>1, ElementOfSeq
  <2> QED BY <2>1
<1>4. Delegators(w) \in [1 .. Len(recipients[w]) -> Wallet]
  BY <1>2, <1>3 DEF Delegators
<1>5. Delegators(w) \in Seq(Wallet) /\ Len(Delegators(w)) = Len(recipients[w])
  BY <1>2, <1>4
<1>6. ASSUME NEW u \in Range(Delegators(w)), NEW root \in Delegates[w]
      PROVE  root \in Delegates[u]
  <2>1. PICK k \in DOMAIN recipients[w] : u = recipients[w][k].by
    BY <1>6 DEF Range, Delegators
  <2>2. PICK m \in MayDelegate : m.by = u /\ m.to = w
    BY <2>1 DEF RecipientsDelegated
  <2>3. root \in Wallet
    BY <1>6 DEF Delegates
  <2> QED BY <1>6, <2>2, <2>3, DelegatesThrough
<1> QED BY <1>5, <1>6

(* Steps left are a number.                                                *)
LEMMA StepsLeftType ==
    ASSUME VotingTypes, NEW seen \in SUBSET Wallet
    PROVE  /\ SumFunctionOnSet(Unseen(seen), Wallet) \in Nat
           /\ \A w \in Wallet : Unseen(seen)[w] \in Nat
<1>1. \A w \in Wallet : Len(recipients[w]) \in Nat
  <2> SUFFICES ASSUME NEW w \in Wallet PROVE Len(recipients[w]) \in Nat
    OBVIOUS
  <2>1. recipients[w] \in Seq([by : Wallet, priority : Nat])
    BY DEF VotingTypes, VotesTyped
  <2> QED BY <2>1, LenProperties
<1>2. \A w \in Wallet : Unseen(seen)[w] \in Nat
  BY <1>1 DEF Unseen
<1> QED BY <1>2, SumNat, VotingAssumption

(* Charging takes the fee from the fund of a wallet that votes with root.  *)
LEMMA ChargeStep ==
    ASSUME VotingTypes, NEW root \in Wallet, NEW s \in SearchFrom(root), NEW w \in Wallet,
           priority[w] = NoVote, root \in Delegates[w]
    PROVE  LET t == process_delegated_fees(w, s)
           IN  t \in SearchFrom(root) /\ t.todo = s.todo /\ t.seen = s.seen
<1> DEFINE t == [s EXCEPT !.wallets = Append(@, w), !.fund[w] = @ - VoteFee]
<1>1. s \in Search /\ Charged(s)
  BY DEF SearchFrom
<1>2. /\ s.todo \in Seq(Wallet) /\ s.seen \subseteq Wallet /\ s.wallets \in Seq(Wallet)
      /\ s.fund \in [Wallet -> Nat] /\ fund \in [Wallet -> Nat] /\ VoteFee \in Nat
  BY <1>1, VotingAssumption DEF Search, VotingTypes, VotesTyped
<1>3. CASE ~ (w \in allowed /\ s.fund[w] >= VoteFee)
  BY <1>3 DEF process_delegated_fees
<1>4. CASE w \in allowed /\ s.fund[w] >= VoteFee
  <2>1. process_delegated_fees(w, s) = t
    BY <1>4 DEF process_delegated_fees
  <2>2. /\ t.todo = s.todo /\ t.seen = s.seen /\ t.wallets = Append(s.wallets, w)
        /\ t.fund = [s.fund EXCEPT ![w] = @ - VoteFee]
    BY <1>1 DEF Search
  <2>3. /\ t.wallets \in Seq(Wallet) /\ Range(t.wallets) = Range(s.wallets) \union {w}
    BY <1>2, <2>2, RangeAppend
  <2>4. s.fund[w] - VoteFee \in Nat
    BY <1>2, <1>4
  <2>5. t.fund \in [Wallet -> Nat]
    BY <1>2, <2>2, <2>4
  <2>6. t \in Search
    BY <1>1, <1>2, <2>2, <2>3, <2>5 DEF Search
  <2> HIDE DEF t
  <2>7. Charged(t)
    <3> SUFFICES ASSUME NEW u \in Wallet
                 PROVE  /\ t.fund[u] <= fund[u]
                        /\ u \in Range(t.wallets) => priority[u] = NoVote /\ t.fund[u] + VoteFee <= fund[u]
      BY DEF Charged
    <3>1. /\ s.fund[u] <= fund[u]
          /\ u \in Range(s.wallets) => priority[u] = NoVote /\ s.fund[u] + VoteFee <= fund[u]
      BY <1>1 DEF Charged
    <3>2. s.fund[u] \in Nat /\ fund[u] \in Nat
      BY <1>2
    <3>3. t.fund[u] = IF u = w THEN s.fund[w] - VoteFee ELSE s.fund[u]
      BY <1>2, <2>2
    <3> QED BY <1>2, <2>3, <3>1, <3>2, <3>3
  <2>8. \A u \in Range(t.todo) \union Range(t.wallets) : root \in Delegates[u]
    BY <2>2, <2>3 DEF SearchFrom
  <2> QED BY <2>1, <2>2, <2>6, <2>7, <2>8 DEF SearchFrom
<1> QED BY <1>3, <1>4

(* A step of the search.                                                   *)
LEMMA SearchStep ==
    ASSUME VotingTypes, RecipientsDelegated, NEW root \in Wallet, NEW s \in SearchFrom(root)
    PROVE  /\ check_delegates(s) \in SearchFrom(root)
           /\ s.todo # <<>> => StepsLeft(check_delegates(s)) = StepsLeft(s) - 1
           /\ s.todo = <<>> => check_delegates(s).todo = <<>>
<1> DEFINE w == Head(s.todo)
           rest == [s EXCEPT !.todo = Tail(@)]
           deeper == [s EXCEPT !.seen = @ \union {w}, !.todo = Delegators(w) \o @]
<1>1. CASE s.todo = <<>>
  BY <1>1 DEF check_delegates
<1>2. ASSUME s.todo # <<>>
      PROVE  /\ check_delegates(s) \in SearchFrom(root)
             /\ StepsLeft(check_delegates(s)) = StepsLeft(s) - 1
  <2>1. s \in Search /\ Charged(s)
    BY DEF SearchFrom
  <2>2. /\ s.todo \in Seq(Wallet) /\ s.seen \subseteq Wallet /\ s.wallets \in Seq(Wallet)
        /\ s.fund \in [Wallet -> Nat]
    BY <2>1 DEF Search
  <2>3. /\ w \in Wallet /\ w \in Range(s.todo)
        /\ Tail(s.todo) \in Seq(Wallet) /\ Range(Tail(s.todo)) \subseteq Range(s.todo)
        /\ Len(Tail(s.todo)) = Len(s.todo) - 1
    BY <1>2, <2>2, RangeTail
  <2>4. root \in Delegates[w]
    BY <2>3 DEF SearchFrom
  <2>5. Len(s.todo) \in Nat
    BY <2>2, LenProperties
  <2>6. SumFunctionOnSet(Unseen(s.seen), Wallet) \in Nat
    BY <2>2, StepsLeftType
  <2>7. CASE w \notin s.seen
    <3>1. check_delegates(s) = deeper
      BY <1>2, <2>7 DEF check_delegates
    <3>2. /\ deeper.todo = Delegators(w) \o s.todo /\ deeper.seen = s.seen \union {w}
          /\ deeper.wallets = s.wallets /\ deeper.fund = s.fund
      BY <2>1 DEF Search
    <3>3. /\ Delegators(w) \in Seq(Wallet) /\ Len(Delegators(w)) = Len(recipients[w])
          /\ \A u \in Range(Delegators(w)) : root \in Delegates[u]
      BY <2>3, <2>4, DelegatorsType
    <3>4. /\ deeper.todo \in Seq(Wallet) /\ Len(deeper.todo) = Len(recipients[w]) + Len(s.todo)
          /\ Range(deeper.todo) \subseteq Range(Delegators(w)) \union Range(s.todo)
      <4> HIDE DEF deeper, w
      <4>1. /\ Delegators(w) \o s.todo \in Seq(Wallet)
            /\ Len(Delegators(w) \o s.todo) = Len(Delegators(w)) + Len(s.todo)
            /\ Range(Delegators(w) \o s.todo) \subseteq Range(Delegators(w)) \union Range(s.todo)
        BY <2>2, <3>3, RangeConcat
      <4> QED BY <3>2, <3>3, <4>1
    <3>5. deeper \in Search
      BY <2>1, <2>2, <2>3, <3>2, <3>4 DEF Search
    <3> HIDE DEF deeper, w
    <3>6. Charged(deeper)
      BY <2>1, <3>2 DEF Charged
    <3>7. \A u \in Range(deeper.todo) \union Range(deeper.wallets) : root \in Delegates[u]
      BY <3>2, <3>3, <3>4 DEF SearchFrom
    <3>8. deeper \in SearchFrom(root)
      BY <3>5, <3>6, <3>7 DEF SearchFrom
    <3> DEFINE f == Unseen(s.seen)
               g == Unseen(deeper.seen)
    <3>9. deeper.seen \in SUBSET Wallet
      BY <2>2, <2>3, <3>2
    <3>10. \A u \in Wallet : f[u] \in Nat /\ g[u] \in Nat
      BY <2>2, <3>9, StepsLeftType
    <3>11. g[w] = 0 /\ f[w] = Len(recipients[w]) + 1 /\ \A u \in Wallet : u # w => g[u] = f[u]
      BY <2>3, <2>7, <3>2 DEF Unseen
    <3> HIDE DEF f, g
    <3>12. SumFunctionOnSet(g, Wallet) = SumFunctionOnSet(f, Wallet) + g[w] - f[w]
      <4>1. \A u \in Wallet : f[u] \in Int /\ g[u] \in Int
        BY <3>10
      <4>2. IsFiniteSet(Wallet) /\ w \in Wallet
        BY <2>3, VotingAssumption
      <4> QED BY <3>11, <4>1, <4>2, WalletSum
    <3>13. f[w] \in Nat /\ SumFunctionOnSet(f, Wallet) \in Nat
      BY <2>3, <2>6, <3>10 DEF f
    <3>14. Len(recipients[w]) \in Nat
      BY <3>3, LenProperties
    <3>15. StepsLeft(deeper) = StepsLeft(s) - 1
      <4>1. StepsLeft(deeper) = Len(deeper.todo) + SumFunctionOnSet(g, Wallet)
        BY DEF StepsLeft, g
      <4>2. StepsLeft(s) = Len(s.todo) + SumFunctionOnSet(f, Wallet)
        BY DEF StepsLeft, f
      <4>3. SumFunctionOnSet(g, Wallet) = SumFunctionOnSet(f, Wallet) - (Len(recipients[w]) + 1)
        BY <3>11, <3>12, <3>13, <3>14
      <4>4. Len(deeper.todo) = Len(recipients[w]) + Len(s.todo)
        BY <3>4
      <4>5. SumFunctionOnSet(f, Wallet) \in Nat
        BY <3>13
      <4> DEFINE a == SumFunctionOnSet(f, Wallet)
                 b == SumFunctionOnSet(g, Wallet)
                 k == Len(recipients[w])
                 l == Len(s.todo)
      <4>6. /\ a \in Nat /\ k \in Nat /\ l \in Nat /\ b = a - (k + 1)
            /\ StepsLeft(deeper) = (k + l) + b /\ StepsLeft(s) = l + a
        BY <2>5, <3>14, <4>1, <4>2, <4>3, <4>4, <4>5
      <4> HIDE DEF a, b, k, l
      <4> QED BY <4>6
    <3> QED BY <3>1, <3>8, <3>15
  <2>8. CASE w \in s.seen
    <3>1. check_delegates(s) = IF priority[w] = NoVote THEN process_delegated_fees(w, rest) ELSE rest
      BY <1>2, <2>8 DEF check_delegates
    <3>2. /\ rest.todo = Tail(s.todo) /\ rest.seen = s.seen
          /\ rest.wallets = s.wallets /\ rest.fund = s.fund
      BY <2>1 DEF Search
    <3>3. rest \in Search
      BY <2>1, <2>2, <2>3, <3>2 DEF Search
    <3> HIDE DEF rest
    <3>4. Charged(rest)
      BY <2>1, <3>2 DEF Charged
    <3>5. \A u \in Range(rest.todo) \union Range(rest.wallets) : root \in Delegates[u]
      BY <2>3, <3>2 DEF SearchFrom
    <3>6. rest \in SearchFrom(root)
      BY <3>3, <3>4, <3>5 DEF SearchFrom
    <3>7. StepsLeft(rest) = StepsLeft(s) - 1
      BY <2>3, <2>5, <2>6, <3>2 DEF StepsLeft
    <3>8. priority[w] = NoVote =>
              LET t == process_delegated_fees(w, rest)
              IN  t \in SearchFrom(root) /\ t.todo = rest.todo /\ t.seen = rest.seen
      BY <2>3, <2>4, <3>6, ChargeStep
    <3> QED BY <3>1, <3>6, <3>7, <3>8 DEF StepsLeft
  <2> QED BY <2>7, <2>8
<1> QED BY <1>1, <1>2

(* The whole search: it comes to its end, and finds delegators of root     *)
(* that had no record and pays for each.                                   *)
LEMMA SearchResult ==
    ASSUME VotingTypes, RecipientsDelegated, NEW root \in Wallet
    PROVE  process_delegated(root) \in SearchFrom(root) /\ process_delegated(root).todo = <<>>
<1> DEFINE D == SearchFrom(root)
           n == SearchSteps
           first == [todo |-> Delegators(root), seen |-> {root}, wallets |-> <<>>, fund |-> fund]
           F == [x \in D \X (1..n) |-> check_delegates(x[1])]
           seq == [k \in 1..n |-> k]
           P(k) == k = [s \in SUBSET DOMAIN seq |->
                           IF s = {} THEN first ELSE check_delegates(k[s \ {Max(s)}])]
           g == CHOOSE k : P(k)
<1>1. process_delegated(root) = g[DOMAIN seq]
  BY DEF process_delegated, FoldLeft, MapThenFoldSet
<1>2. DOMAIN seq = 1..n
  OBVIOUS
<1>3. \A w \in Wallet : Unseen({})[w] = Len(recipients[w]) + 1
  BY DEF Unseen
<1>4. n = SumFunctionOnSet(Unseen({}), Wallet) /\ n \in Nat
  <2>1. Unseen({}) = [w \in Wallet |-> Len(recipients[w]) + 1]
    BY DEF Unseen
  <2>2. SumFunctionOnSet(Unseen({}), Wallet) \in Nat
    BY StepsLeftType
  <2> QED BY <2>1, <2>2 DEF SearchSteps, SumFunction
<1>5. /\ Delegators(root) \in Seq(Wallet) /\ Len(Delegators(root)) = Len(recipients[root])
      /\ \A u \in Range(Delegators(root)) : root \in Delegates[u]
  BY DelegatorsType, DelegatesSelf
<1>6. first \in D
  <2>1. <<>> \in Seq(Wallet) /\ Range(<<>>) = {}
    BY DEF Range
  <2>2. first \in Search
    BY <1>5, <2>1 DEF Search, VotingTypes, VotesTyped
  <2>3. fund \in [Wallet -> Nat]
    BY DEF VotingTypes, VotesTyped
  <2>4. Charged(first)
    BY <2>1, <2>3 DEF Charged
  <2>5. \A u \in Range(first.todo) \union Range(first.wallets) : root \in Delegates[u]
    BY <1>5, <2>1
  <2> QED BY <2>2, <2>4, <2>5 DEF SearchFrom
<1>7. StepsLeft(first) = n - 1
  <2> DEFINE f == Unseen({})
             h == Unseen({root})
  <2>1. \A u \in Wallet : f[u] \in Nat /\ h[u] \in Nat
    BY StepsLeftType
  <2>2. \A u \in Wallet : f[u] \in Int /\ h[u] \in Int
    BY <2>1
  <2>3. h[root] = 0 /\ f[root] = Len(recipients[root]) + 1 /\ \A u \in Wallet : u # root => h[u] = f[u]
    BY DEF Unseen
  <2>4. first.seen = {root} /\ first.todo = Delegators(root)
    OBVIOUS
  <2>5. StepsLeft(first) = Len(recipients[root]) + SumFunctionOnSet(h, Wallet)
    BY <1>5, <2>4 DEF StepsLeft
  <2> HIDE DEF f, h, n, first
  <2>6. SumFunctionOnSet(h, Wallet) = SumFunctionOnSet(f, Wallet) + h[root] - f[root]
    BY <2>2, <2>3, WalletSum
  <2>7. SumFunctionOnSet(f, Wallet) = n /\ n \in Nat
    BY <1>4 DEF f
  <2>8. Len(recipients[root]) \in Nat
    BY <1>5, LenProperties
  <2> QED BY <2>3, <2>5, <2>6, <2>7, <2>8
<1>8. \A s \in D : check_delegates(s) \in D
  BY SearchStep
<1> HIDE DEF D, n, first, seq
<1>9. F \in [D \X (1..n) -> D]
  BY <1>8
<1>10. \A s \in D, i \in 1..n : F[<<s, i>>] = check_delegates(s)
  OBVIOUS
<1> HIDE DEF F
<1>11. PICK k : IsFold(k, F, first, 1..n) /\ \A s \in SUBSET (1..n) : k[s] \in D
  BY <1>4, <1>6, <1>9, FoldWithin
<1>12. \A s \in SUBSET (1..n) : s # {} => Max(s) \in 1..n /\ s \ {Max(s)} \in SUBSET (1..n)
  BY <1>4, MaxOfIndexes
<1>13. P(k)
  BY <1>2, <1>10, <1>11, <1>12 DEF IsFold
<1>14. P(g)
  BY <1>13
<1> HIDE DEF g
<1>15. FoldsBy(g, F, first, n, D)
  BY <1>2, <1>10, <1>12, <1>14 DEF FoldsBy
<1>16. PICK h : Unfolds(h, g, F, first, n, D)
  BY <1>4, <1>6, <1>9, <1>15, FoldSteps
<1> DEFINE T == {i \in 0..n : h[i].todo = <<>> \/ StepsLeft(h[i]) <= n - 1 - i}
<1>17. 0 \in T
  BY <1>4, <1>7, <1>16 DEF Unfolds
<1>18. ASSUME NEW i \in 1..n, i - 1 \in T PROVE i \in T
  <2>1. i - 1 \in 0..n /\ i \in 0..n
    BY <1>4
  <2>2. h[i - 1] \in D
    BY <1>16, <2>1 DEF Unfolds
  <2>3. h[i] = check_delegates(h[i - 1])
    BY <1>10, <1>16, <2>2 DEF Unfolds
  <2>4. /\ h[i - 1].todo # <<>> => StepsLeft(h[i]) = StepsLeft(h[i - 1]) - 1
        /\ h[i - 1].todo = <<>> => h[i].todo = <<>>
    BY <2>2, <2>3, SearchStep DEF D
  <2>5. StepsLeft(h[i - 1]) \in Int
    <3>1. /\ h[i - 1].todo \in Seq(Wallet) /\ h[i - 1].seen \in SUBSET Wallet
      BY <2>2 DEF D, SearchFrom, Search
    <3>2. Len(h[i - 1].todo) \in Nat /\ SumFunctionOnSet(Unseen(h[i - 1].seen), Wallet) \in Nat
      BY <3>1, LenProperties, StepsLeftType
    <3> QED BY <3>2 DEF StepsLeft
  <2> QED BY <1>4, <1>18, <2>1, <2>4, <2>5
<1> HIDE DEF T
<1>19. 0..n \subseteq T
  BY <1>4, <1>17, <1>18, PrefixInduction
<1>20. n \in T /\ n \in 0..n
  BY <1>4, <1>19
<1>21. h[n] \in D
  BY <1>16, <1>20 DEF Unfolds
<1>22. h[n].todo = <<>>
  <2>1. h[n].todo \in Seq(Wallet) /\ h[n].seen \in SUBSET Wallet
    BY <1>21 DEF D, SearchFrom, Search
  <2>2. Len(h[n].todo) \in Nat /\ SumFunctionOnSet(Unseen(h[n].seen), Wallet) \in Nat
    BY <2>1, LenProperties, StepsLeftType
  <2>3. StepsLeft(h[n]) >= 0
    BY <2>2 DEF StepsLeft
  <2>4. h[n].todo = <<>> \/ StepsLeft(h[n]) <= n - 1 - n
    BY <1>20 DEF T
  <2>5. StepsLeft(h[n]) \in Nat
    BY <2>2 DEF StepsLeft
  <2> QED BY <1>4, <2>3, <2>4, <2>5
<1> QED BY <1>1, <1>2, <1>16, <1>21, <1>22 DEF D, Unfolds

-----------------------------------------------------------------------------
(* What payments change. *)

(* What is moved on one side of a set of payments.                         *)
MovedOn(pay, side, w, i) ==
    SumFunction([x \in pay |-> IF x[side] = w /\ x.in = i THEN x.amount ELSE 0])

(* What payments change is what they move to and from a wallet.            *)
LEMMA ChangeIs ==
    ASSUME NEW pay, NEW w, NEW i
    PROVE  Change(pay, w, i) = [in |-> MovedOn(pay, "to", w, i), out |-> MovedOn(pay, "from", w, i)]
BY DEF Change, MovedOn

(* It is a natural number.                                                 *)
LEMMA MovedType ==
    ASSUME NEW pay \in SUBSET APayment, IsFiniteSet(pay), NEW side \in {"to", "from"},
           NEW w, NEW i
    PROVE  MovedOn(pay, side, w, i) \in Nat
<1> DEFINE f == [x \in pay |-> IF x[side] = w /\ x.in = i THEN x.amount ELSE 0]
<1>1. \A x \in pay : f[x] \in Nat
  BY DEF APayment
<1>2. DOMAIN f = pay
  OBVIOUS
<1> HIDE DEF f
<1>3. SumFunctionOnSet(f, pay) \in Nat
  BY <1>1, SumNat
<1> QED BY <1>2, <1>3 DEF MovedOn, SumFunction, f

(* No payments move nothing.                                               *)
LEMMA MovedNothing ==
    ASSUME NEW side, NEW w, NEW i
    PROVE  MovedOn({}, side, w, i) = 0
<1> DEFINE f == [x \in {} |-> IF x[side] = w /\ x.in = i THEN x.amount ELSE 0]
<1>1. DOMAIN f = {}
  OBVIOUS
<1> HIDE DEF f
<1>2. SumFunctionOnSet(f, DOMAIN f) = 0
  BY <1>1, SumEmpty
<1> QED BY <1>2 DEF MovedOn, SumFunction, f

(* One payment more.                                                       *)
LEMMA MovedMore ==
    ASSUME NEW pay \in SUBSET APayment, IsFiniteSet(pay), NEW side \in {"to", "from"},
           NEW w, NEW i, NEW y \in APayment, y \notin pay
    PROVE  MovedOn(pay \union {y}, side, w, i) =
               MovedOn(pay, side, w, i) + (IF y[side] = w /\ y.in = i THEN y.amount ELSE 0)
<1> DEFINE all == pay \union {y}
           f == [x \in pay |-> IF x[side] = w /\ x.in = i THEN x.amount ELSE 0]
           g == [x \in all |-> IF x[side] = w /\ x.in = i THEN x.amount ELSE 0]
<1>1. IsFiniteSet(all) /\ all \ {y} = pay /\ y \in all
  BY FS_AddElement
<1>2. \A x \in all : g[x] \in Nat
  BY DEF APayment
<1>3. \A x \in pay : f[x] = g[x]
  OBVIOUS
<1>4. g[y] = IF y[side] = w /\ y.in = i THEN y.amount ELSE 0
  OBVIOUS
<1>5. DOMAIN f = pay /\ DOMAIN g = all
  OBVIOUS
<1>6. /\ MovedOn(pay, side, w, i) = SumFunctionOnSet(f, pay)
      /\ MovedOn(all, side, w, i) = SumFunctionOnSet(g, all)
  BY <1>5 DEF MovedOn, SumFunction
<1> HIDE DEF f, g
<1>7. SumFunctionOnSet(f, pay) = SumFunctionOnSet(g, pay)
  BY <1>3, SumSame
<1>8. \A x \in all : g[x] \in Int
  BY <1>2
<1>9. SumFunctionOnSet(g, all) = g[y] + SumFunctionOnSet(g, all \ {y})
  BY <1>1, <1>8, SumTake
<1>10. SumFunctionOnSet(g, pay) \in Nat /\ g[y] \in Nat
  BY <1>1, <1>2, SumNat
<1>11. SumFunctionOnSet(g, all) = g[y] + SumFunctionOnSet(g, pay)
  BY <1>1, <1>9
<1> HIDE DEF all
<1> QED BY <1>4, <1>6, <1>7, <1>10, <1>11 DEF all

(* Balances and what becomes of them.                                      *)
LEMMA NewBalanceIs ==
    ASSUME VotingTypes, NEW w \in Wallet, NEW i \in Instrument
    PROVE  /\ Balance(w, i) \in Nat
           /\ Change(waiting.payments, w, i).in \in Nat /\ Change(waiting.payments, w, i).out \in Nat
           /\ NewBalance(w, i) = Balance(w, i) + Change(waiting.payments, w, i).in
                                     - Change(waiting.payments, w, i).out
           /\ NewBalance(w, i) \in Int
           /\ NewAmount(w, i) \in {amount[w][i], NewBalance(w, i)}
           /\ NewBalance(w, i) >= 0 =>
                 /\ NewAmount(w, i) = NoKey => amount[w][i] = NoKey
                 /\ NewAmount(w, i) \in Nat \union {NoKey}
                 /\ NewBalance(w, i) = IF NewAmount(w, i) = NoKey THEN 0 ELSE NewAmount(w, i)
           /\ Change(waiting.payments, w, i) = [in |-> 0, out |-> 0] =>
                 NewAmount(w, i) = amount[w][i] /\ NewBalance(w, i) = Balance(w, i)
<1> DEFINE c == Change(waiting.payments, w, i)
<1>1. amount[w][i] \in Nat \union {NoKey}
  BY DEF VotingTypes, VotesTyped
<1>2. Balance(w, i) \in Nat /\ (amount[w][i] = NoKey => Balance(w, i) = 0)
      /\ (amount[w][i] # NoKey => Balance(w, i) = amount[w][i])
  BY <1>1 DEF Balance
<1>3. waiting.payments \in SUBSET APayment /\ IsFiniteSet(waiting.payments)
  BY DEF VotingTypes, WaitingTyped
<1>4. c.in \in Nat /\ c.out \in Nat
  BY <1>3, ChangeIs, MovedType
<1>5. NewBalance(w, i) = Balance(w, i) + c.in - c.out
  BY DEF NewBalance
<1>6. NewAmount(w, i) = IF c.in + c.out = 0 THEN amount[w][i] ELSE NewBalance(w, i)
  BY <1>5 DEF NewAmount
<1>7. c = [in |-> 0, out |-> 0] => c.in = 0 /\ c.out = 0
  OBVIOUS
<1> HIDE DEF c
<1>8. c.in + c.out = 0 => c.in = 0 /\ c.out = 0
  BY <1>4
<1>9. NewBalance(w, i) \in Int
  BY <1>2, <1>4, <1>5
<1>10. NoKey \notin Nat
  BY VotingAssumption
<1> QED BY <1>1, <1>2, <1>4, <1>5, <1>6, <1>7, <1>8, <1>9, <1>10 DEF c

-----------------------------------------------------------------------------
(* Counting the votes of a block. *)

(* The databases that a block's votes change, while they are counted.      *)
Tallies == [Choice -> [Instrument -> Nat \union {NoKey}]]
DB == [tally : [Proposal -> Tallies],
       given : [Wallet -> [Proposal -> Choice \union {NoVote}]],
       priority : [Wallet -> [Proposal -> Nat \union {NoVote}] \union {NoVote}]]

(* A wallet that will have a key of an instrument.                         *)
Holds(w) == \E i \in Instrument : NewAmount(w, i) # NoKey

(* The tallies of the proposals that payments leave alone are backed by    *)
(* what those counted for them will hold.                                  *)
Backing(d, p, c, i) == [w \in Wallet |-> IF d.given[w][p] = c THEN NewBalance(w, i) ELSE 0]
Number(n) == IF n = NoKey THEN 0 ELSE n
Sound(d) ==
    \A p \in Proposal \ (Adjusted \union overwritten), i \in Instrument :
        /\ \A w \in Wallet : d.given[w][p] # NoVote =>
              d.tally[p][d.given[w][p]][i] # NoKey /\ NewAmount(w, i) # NoKey
        /\ \A c \in Choice :
              Number(d.tally[p][c][i]) = SumFunctionOnSet(Backing(d, p, c, i), Wallet)
KeepsSound(d, e) == Len(Instruments) = 1 /\ Sound(d) => Sound(e)

(* What counting one wallet for a vote may change.                         *)
WalletCounted(d, e, w, v) ==
    /\ e \in DB /\ e.priority = d.priority
    /\ \A u \in Wallet, q \in Proposal :
          ~ (u = w /\ q = v.id) => e.given[u][q] = d.given[u][q]
    /\ \/ e.given[w][v.id] = d.given[w][v.id]
       \/ e.given[w][v.id] = v.choice /\ Holds(w)
    /\ \A q \in Proposal : q # v.id => e.tally[q] = d.tally[q]
    /\ KeepsSound(d, e)

(* The changes of a tally.                                                 *)
LEMMA RemoveVotes ==
    ASSUME NEW t \in Tallies, NEW n \in Nat, NEW old \in Choice \union {NoVote},
           NEW i \in Instrument
    PROVE  LET r == remove_votes(t, n, old, i) IN
           /\ r \in Tallies
           /\ \A c \in Choice, j \in Instrument :
                 r[c][j] = IF c = old /\ j = i /\ t[c][j] # NoKey THEN (t[c][j] - n) % Wrap
                                                                  ELSE t[c][j]
<1>1. NoVote \notin Choice /\ Wrap \in Nat \ {0} /\ NoKey \notin Nat
  BY VotingAssumption
<1>2. CASE old = NoVote \/ t[old][i] = NoKey
  BY <1>1, <1>2 DEF remove_votes
<1>3. CASE ~ (old = NoVote \/ t[old][i] = NoKey)
  <2>1. remove_votes(t, n, old, i) = [t EXCEPT ![old][i] = (@ - n) % Wrap]
    BY <1>3 DEF remove_votes
  <2>2. old \in Choice /\ t[old][i] \in Nat
    BY <1>3 DEF Tallies
  <2> DEFINE m == (t[old][i] - n) % Wrap
  <2>3. m \in Nat
    <3>1. t[old][i] - n \in Int
      BY <2>2
    <3> QED BY <1>1, <3>1
  <2>4. [t EXCEPT ![old][i] = (@ - n) % Wrap] = [t EXCEPT ![old] = [t[old] EXCEPT ![i] = m]]
    BY <2>2 DEF Tallies
  <2> HIDE DEF m
  <2>5. [t[old] EXCEPT ![i] = m] \in [Instrument -> Nat \union {NoKey}]
    BY <2>2, <2>3 DEF Tallies
  <2>6. [t EXCEPT ![old] = [t[old] EXCEPT ![i] = m]] \in Tallies
    BY <2>2, <2>5 DEF Tallies
  <2>7. \A c \in Choice, j \in Instrument :
            [t EXCEPT ![old] = [t[old] EXCEPT ![i] = m]][c][j] =
                IF c = old /\ j = i THEN m ELSE t[c][j]
    BY <2>2 DEF Tallies
  <2>8. \A c \in Choice, j \in Instrument : c = old /\ j = i => t[c][j] # NoKey
    BY <1>3
  <2> QED BY <2>1, <2>4, <2>6, <2>7, <2>8 DEF m
<1> QED BY <1>2, <1>3

(* Adding votes to a choice's tally.                                       *)
LEMMA AddVotes ==
    ASSUME NEW t \in Tallies, NEW n \in Nat, NEW x \in Choice, NEW i \in Instrument
    PROVE  LET r == add_votes(t, n, x, i) IN
           /\ r \in Tallies
           /\ \A c \in Choice, j \in Instrument :
                 r[c][j] = IF c = x /\ j = i
                           THEN IF t[c][j] = NoKey THEN n ELSE (t[c][j] + n) % Wrap
                           ELSE t[c][j]
<1>1. Wrap \in Nat \ {0} /\ NoKey \notin Nat
  BY VotingAssumption
<1> DEFINE m == IF t[x][i] = NoKey THEN n ELSE (t[x][i] + n) % Wrap
<1>2. t[x][i] \in Nat \union {NoKey} /\ t[x] \in [Instrument -> Nat \union {NoKey}]
  BY DEF Tallies
<1>3. m \in Nat
  <2>1. CASE t[x][i] = NoKey
    BY <2>1
  <2>2. CASE t[x][i] # NoKey
    <3>1. t[x][i] + n \in Int
      BY <1>2, <2>2
    <3> QED BY <1>1, <2>2, <3>1
  <2> QED BY <2>1, <2>2
<1>4. add_votes(t, n, x, i) = [t EXCEPT ![x] = [t[x] EXCEPT ![i] = m]]
  BY <1>2 DEF add_votes, Tallies
<1> HIDE DEF m
<1>5. [t[x] EXCEPT ![i] = m] \in [Instrument -> Nat \union {NoKey}]
  BY <1>2, <1>3
<1>6. [t EXCEPT ![x] = [t[x] EXCEPT ![i] = m]] \in Tallies
  BY <1>5 DEF Tallies
<1>7. \A c \in Choice, j \in Instrument :
          [t EXCEPT ![x] = [t[x] EXCEPT ![i] = m]][c][j] =
              IF c = x /\ j = i THEN m ELSE t[c][j]
  BY <1>2 DEF Tallies
<1> QED BY <1>4, <1>6, <1>7 DEF m

(* What the wallets counted for a choice hold is within the width.         *)
LEMMA BackingBounds ==
    ASSUME VotingTypes, Covered, NEW d \in DB, NEW p \in Proposal, NEW c \in Choice,
           NEW i \in Instrument
    PROVE  /\ \A u \in Wallet : Backing(d, p, c, i)[u] \in Nat
           /\ SumFunctionOnSet(Backing(d, p, c, i), Wallet) \in Nat
           /\ SumFunctionOnSet(Backing(d, p, c, i), Wallet) < Wrap
<1> DEFINE all == [w \in Wallet |-> NewBalance(w, i)]
           b == Backing(d, p, c, i)
<1>1. \A u \in Wallet : NewBalance(u, i) \in Nat
  <2> SUFFICES ASSUME NEW u \in Wallet PROVE NewBalance(u, i) \in Nat
    OBVIOUS
  <2>1. NewBalance(u, i) \in Int /\ NewBalance(u, i) >= 0
    BY NewBalanceIs DEF Covered
  <2> QED BY <2>1
<1>2. \A u \in Wallet : all[u] \in Nat /\ b[u] \in Nat /\ b[u] <= all[u]
  BY <1>1 DEF Backing
<1>3. DOMAIN all = Wallet
  OBVIOUS
<1>4. SumFunctionOnSet(all, Wallet) = Supply(i)
  BY <1>3 DEF Covered, SumFunction
<1> HIDE DEF all, b
<1>5. IsFiniteSet(Wallet) /\ Wrap \in Nat /\ Supply(i) < Wrap
  BY VotingAssumption, HoldingAssumption DEF Supply
<1>6. \A u \in Wallet : all[u] \in Int /\ b[u] \in Int
  BY <1>2
<1>7. SumFunctionOnSet(b, Wallet) <= SumFunctionOnSet(all, Wallet)
  BY <1>2, <1>5, <1>6, SumAtMost
<1>8. SumFunctionOnSet(b, Wallet) \in Nat /\ SumFunctionOnSet(all, Wallet) \in Nat
  BY <1>2, <1>5, SumNat
<1>9. SumFunctionOnSet(b, Wallet) < Wrap
  BY <1>4, <1>5, <1>7, <1>8
<1> QED BY <1>2, <1>8, <1>9 DEF b

(* Taking votes from one choice and giving them to another.                *)
Swapped(a, t, n, old, x, i) ==
    /\ a \in Tallies
    /\ \A c \in Choice, j \in Instrument :
          a[c][j] = IF j # i THEN t[c][j]
                    ELSE IF c = x
                         THEN IF t[c][j] = NoKey THEN n ELSE (t[c][j] + n) % Wrap
                         ELSE IF c = old /\ t[c][j] # NoKey THEN (t[c][j] - n) % Wrap
                                                            ELSE t[c][j]

(* A wallet that changes its vote swaps its votes.                         *)
LEMMA SwapVotes ==
    ASSUME NEW t \in Tallies, NEW n \in Nat, NEW old \in Choice \union {NoVote},
           NEW x \in Choice, old # x, NEW i \in Instrument
    PROVE  Swapped(add_votes(remove_votes(t, n, old, i), n, x, i), t, n, old, x, i)
<1>1. PICK r \in Tallies :
          /\ r = remove_votes(t, n, old, i)
          /\ \A c \in Choice, j \in Instrument :
                r[c][j] = IF c = old /\ j = i /\ t[c][j] # NoKey THEN (t[c][j] - n) % Wrap
                                                                 ELSE t[c][j]
  BY RemoveVotes
<1>2. PICK a \in Tallies :
          /\ a = add_votes(r, n, x, i)
          /\ \A c \in Choice, j \in Instrument :
                a[c][j] = IF c = x /\ j = i
                          THEN IF r[c][j] = NoKey THEN n ELSE (r[c][j] + n) % Wrap
                          ELSE r[c][j]
  BY AddVotes
<1>3. ASSUME NEW c \in Choice, NEW j \in Instrument
      PROVE  a[c][j] = IF j # i THEN t[c][j]
                       ELSE IF c = x
                            THEN IF t[c][j] = NoKey THEN n ELSE (t[c][j] + n) % Wrap
                            ELSE IF c = old /\ t[c][j] # NoKey THEN (t[c][j] - n) % Wrap
                                                               ELSE t[c][j]
  <2>1. CASE c = x /\ j = i
    <3>1. r[c][j] = t[c][j]
      BY <1>1, <2>1
    <3> QED BY <1>2, <2>1, <3>1
  <2>2. CASE ~ (c = x /\ j = i)
    <3>1. a[c][j] = r[c][j]
      BY <1>2, <2>2
    <3> QED BY <1>1, <2>2, <3>1
  <2> QED BY <2>1, <2>2
<1>4. a = add_votes(remove_votes(t, n, old, i), n, x, i)
  BY <1>1, <1>2
<1> HIDE <1>4
<1>5. Swapped(a, t, n, old, x, i)
  BY <1>2, <1>3 DEF Swapped
<1> QED BY <1>4, <1>5

(* One vote of one wallet in one instrument that is not counted yet.       *)
LEMMA SomethingIs ==
    ASSUME VotingTypes, NEW d \in DB, NEW w \in Wallet, NEW i \in Instrument, NEW v \in AVote,
           NewAmount(w, i) \in Nat, d.given[w][v.id] # v.choice
    PROVE  LET e == something(d, w, i, v)
               n == NewAmount(w, i)
               old == d.given[w][v.id]
               t == d.tally[v.id]
           IN  /\ e \in DB /\ e.priority = d.priority
               /\ \A u \in Wallet, q \in Proposal :
                     e.given[u][q] = IF u = w /\ q = v.id THEN v.choice ELSE d.given[u][q]
               /\ \A q \in Proposal : q # v.id => e.tally[q] = d.tally[q]
               /\ Swapped(e.tally[v.id], t, n, old, v.choice, i)
<1> DEFINE e == something(d, w, i, v)
           n == NewAmount(w, i)
           old == d.given[w][v.id]
           t == d.tally[v.id]
           a == add_votes(remove_votes(t, n, old, i), n, v.choice, i)
<1>1. /\ d.tally \in [Proposal -> Tallies] /\ t \in Tallies
      /\ d.given \in [Wallet -> [Proposal -> Choice \union {NoVote}]]
      /\ old \in Choice \union {NoVote} /\ v.id \in Proposal /\ v.choice \in Choice
  BY DEF DB, AVote
<1>2. n # NoKey /\ n \in Nat /\ old # v.choice
  BY VotingAssumption
<1>3. e = [d EXCEPT !.tally[v.id] = a, !.given[w][v.id] = v.choice]
  BY <1>2 DEF something
<1> HIDE DEF n, old, t
<1>4. Swapped(a, t, n, old, v.choice, i)
  BY <1>1, <1>2, SwapVotes
<1> HIDE DEF a
<1>5. /\ e.tally = [d.tally EXCEPT ![v.id] = a] /\ e.priority = d.priority
      /\ e.given = [d.given EXCEPT ![w] = [d.given[w] EXCEPT ![v.id] = v.choice]]
  BY <1>1, <1>3 DEF DB
<1>6. e.tally \in [Proposal -> Tallies]
  BY <1>1, <1>4, <1>5 DEF Swapped
<1>7. e.given \in [Wallet -> [Proposal -> Choice \union {NoVote}]]
  BY <1>1, <1>5
<1>8. e = [tally |-> e.tally, given |-> e.given, priority |-> e.priority]
  BY <1>3 DEF DB
<1>9. e \in DB
  BY <1>5, <1>6, <1>7, <1>8 DEF DB
<1> HIDE DEF e
<1>10. \A u \in Wallet, q \in Proposal :
          e.given[u][q] = IF u = w /\ q = v.id THEN v.choice ELSE d.given[u][q]
  BY <1>1, <1>5
<1>11. e.tally[v.id] = a /\ \A q \in Proposal : q # v.id => e.tally[q] = d.tally[q]
  BY <1>1, <1>5
<1> QED BY <1>4, <1>5, <1>9, <1>10, <1>11 DEF e, n, old, t

(* With one instrument, tallies that are backed stay so.                   *)
LEMMA SomethingSound ==
    ASSUME VotingTypes, Covered, Len(Instruments) = 1, NEW d \in DB, Sound(d),
           NEW w \in Wallet, NEW i \in Instrument, NEW v \in AVote,
           NewAmount(w, i) \in Nat, d.given[w][v.id] # v.choice
    PROVE  Sound(something(d, w, i, v))
<1> DEFINE e == something(d, w, i, v)
           n == NewAmount(w, i)
           old == d.given[w][v.id]
           t == d.tally[v.id]
<1>1. /\ e \in DB /\ e.priority = d.priority
      /\ \A u \in Wallet, q \in Proposal :
            e.given[u][q] = IF u = w /\ q = v.id THEN v.choice ELSE d.given[u][q]
      /\ \A q \in Proposal : q # v.id => e.tally[q] = d.tally[q]
      /\ Swapped(e.tally[v.id], t, n, old, v.choice, i)
  BY SomethingIs
<1>2. Instrument = {i}
  <2>1. Instruments \in Seq(Instrument)
    BY VotingAssumption
  <2>2. DOMAIN Instruments = 1 .. 1
    BY <2>1, LenProperties
  <2>3. Range(Instruments) = {Instruments[1]}
    BY <2>2 DEF Range
  <2> QED BY <2>3 DEF Instrument
<1>3. v.id \in Proposal /\ v.choice \in Choice /\ Wrap \in Nat \ {0} /\ NoKey \notin Nat
      /\ NoVote \notin Choice
  BY VotingAssumption DEF AVote
<1>4. n = NewBalance(w, i) /\ n \in Nat
  BY <1>3, NewBalanceIs DEF Covered
<1>5. old \in Choice \union {NoVote} /\ old # v.choice
  BY <1>3 DEF DB
<1>6. t \in Tallies /\ old = d.given[w][v.id] /\ n = NewAmount(w, i)
  BY <1>3 DEF DB
<1> HIDE DEF e, n, old
<1> SUFFICES ASSUME NEW p \in Proposal \ (Adjusted \union overwritten)
             PROVE  /\ \A u \in Wallet : e.given[u][p] # NoVote =>
                          e.tally[p][e.given[u][p]][i] # NoKey /\ NewAmount(u, i) # NoKey
                    /\ \A c \in Choice :
                          Number(e.tally[p][c][i]) = SumFunctionOnSet(Backing(e, p, c, i), Wallet)
  BY <1>2 DEF Sound, e
<1>7. /\ \A u \in Wallet : d.given[u][p] # NoVote =>
            d.tally[p][d.given[u][p]][i] # NoKey /\ NewAmount(u, i) # NoKey
      /\ \A c \in Choice :
            Number(d.tally[p][c][i]) = SumFunctionOnSet(Backing(d, p, c, i), Wallet)
  BY DEF Sound
<1>8. CASE p # v.id
  <2>1. e.tally[p] = d.tally[p]
    BY <1>1, <1>8
  <2>2. \A u \in Wallet : e.given[u][p] = d.given[u][p]
    BY <1>1, <1>8
  <2>3. \A c \in Choice : Backing(e, p, c, i) = Backing(d, p, c, i)
    BY <2>2 DEF Backing
  <2> QED BY <1>7, <2>1, <2>2, <2>3
<1>9. CASE p = v.id
  <2>1. /\ \A u \in Wallet : d.given[u][p] # NoVote =>
              t[d.given[u][p]][i] # NoKey /\ NewAmount(u, i) # NoKey
        /\ \A c \in Choice : Number(t[c][i]) = SumFunctionOnSet(Backing(d, p, c, i), Wallet)
    BY <1>7, <1>9
  <2> HIDE DEF t
  <2>2. \A c \in Choice :
            /\ c = v.choice => e.tally[p][c][i] = IF t[c][i] = NoKey THEN n ELSE (t[c][i] + n) % Wrap
            /\ c # v.choice => e.tally[p][c][i] =
                  IF c = old /\ t[c][i] # NoKey THEN (t[c][i] - n) % Wrap ELSE t[c][i]
    BY <1>1, <1>9 DEF Swapped
  <2>3. \A c \in Choice : t[c][i] \in Nat \union {NoKey}
    BY <1>6 DEF Tallies
  <2>4. /\ e.given[w][p] = v.choice /\ d.given[w][p] = old
        /\ \A u \in Wallet : u # w => e.given[u][p] = d.given[u][p]
        /\ \A u \in Wallet : d.given[u][p] \in Choice \union {NoVote}
    BY <1>1, <1>6, <1>9 DEF DB
  <2>5. \A c \in Choice : t[c][i] # NoKey =>
            ((t[c][i] + n) % Wrap) \in Nat /\ ((t[c][i] - n) % Wrap) \in Nat
    <3> SUFFICES ASSUME NEW c \in Choice, t[c][i] # NoKey
                 PROVE  ((t[c][i] + n) % Wrap) \in Nat /\ ((t[c][i] - n) % Wrap) \in Nat
      OBVIOUS
    <3>1. t[c][i] + n \in Int /\ t[c][i] - n \in Int
      BY <1>4, <2>3
    <3> QED BY <1>3, <3>1
  <2>6. \A c \in Choice : c = v.choice \/ t[c][i] # NoKey => e.tally[p][c][i] # NoKey
    BY <1>3, <1>4, <2>2, <2>5
  <2>7. ASSUME NEW u \in Wallet, e.given[u][p] # NoVote
        PROVE  e.tally[p][e.given[u][p]][i] # NoKey /\ NewAmount(u, i) # NoKey
    <3>1. CASE u = w
      <4>1. e.given[u][p] = v.choice /\ NewAmount(u, i) # NoKey
        BY <1>3, <1>4, <1>6, <2>4, <3>1
      <4> QED BY <1>3, <2>6, <4>1
    <3>2. CASE u # w
      <4>1. e.given[u][p] = d.given[u][p] /\ d.given[u][p] \in Choice
        BY <2>4, <2>7, <3>2
      <4>2. t[d.given[u][p]][i] # NoKey /\ NewAmount(u, i) # NoKey
        BY <2>1, <2>7, <4>1
      <4> QED BY <2>6, <4>1, <4>2
    <3> QED BY <3>1, <3>2
  <2>8. ASSUME NEW c \in Choice
        PROVE  Number(e.tally[p][c][i]) = SumFunctionOnSet(Backing(e, p, c, i), Wallet)
    <3> DEFINE f == Backing(d, p, c, i)
               g == Backing(e, p, c, i)
    <3>1. /\ \A u \in Wallet : f[u] \in Nat /\ g[u] \in Nat
          /\ SumFunctionOnSet(f, Wallet) \in Nat /\ SumFunctionOnSet(f, Wallet) < Wrap
          /\ SumFunctionOnSet(g, Wallet) \in Nat /\ SumFunctionOnSet(g, Wallet) < Wrap
      BY <1>1, BackingBounds
    <3>2. /\ f[w] = IF c = old THEN n ELSE 0
          /\ g[w] = IF c = v.choice THEN n ELSE 0
          /\ \A u \in Wallet : u # w => g[u] = f[u]
      BY <1>4, <2>4 DEF Backing
    <3>3. Number(t[c][i]) = SumFunctionOnSet(f, Wallet)
      BY <2>1
    <3>4. (c = old => t[c][i] # NoKey)
      BY <1>3, <2>4, <2>1
    <3> HIDE DEF f, g
    <3>5. \A u \in Wallet : f[u] \in Int /\ g[u] \in Int
      BY <3>1
    <3>6. SumFunctionOnSet(g, Wallet) = SumFunctionOnSet(f, Wallet) + g[w] - f[w]
      BY <3>2, <3>5, WalletSum
    <3> DEFINE x == SumFunctionOnSet(f, Wallet)
               y == SumFunctionOnSet(g, Wallet)
               s == t[c][i]
               z == e.tally[p][c][i]
    <3>7. /\ x \in Nat /\ y \in Nat /\ x < Wrap /\ y < Wrap
          /\ (c = v.choice => y = x + n) /\ (c = old => y = x - n)
          /\ (c # v.choice /\ c # old => y = x)
      BY <1>4, <1>5, <3>1, <3>2, <3>6
    <3>8. /\ s \in Nat \union {NoKey} /\ Number(s) = x /\ (c = old => s # NoKey)
          /\ (c = v.choice => z = IF s = NoKey THEN n ELSE (s + n) % Wrap)
          /\ (c # v.choice => z = IF c = old /\ s # NoKey THEN (s - n) % Wrap ELSE s)
      BY <2>2, <2>3, <3>3, <3>4
    <3> HIDE DEF x, y, s, z
    <3>9. s # NoKey => s = x /\ s \in Nat
      BY <3>8 DEF Number
    <3>10. \A m \in Nat : m < Wrap => m % Wrap = m
      BY <1>3
    <3>11. CASE c = v.choice
      <4>1. CASE s = NoKey
        <5>1. x = 0 /\ z = n /\ y = n
          BY <3>7, <3>8, <3>11, <4>1, <1>4 DEF Number
        <5> QED BY <1>3, <1>4, <5>1 DEF z, y, g, Number
      <4>2. CASE s # NoKey
        <5>1. z = (x + n) % Wrap /\ y = x + n
          BY <3>7, <3>8, <3>9, <3>11, <4>2
        <5>2. z = y
          BY <3>7, <3>10, <5>1
        <5> QED BY <1>3, <3>7, <5>2 DEF z, y, g, Number
      <4> QED BY <4>1, <4>2
    <3>12. CASE c # v.choice /\ c = old
      <4>1. z = (x - n) % Wrap /\ y = x - n
        BY <3>7, <3>8, <3>9, <3>12
      <4>2. z = y
        BY <3>7, <3>10, <4>1
      <4> QED BY <1>3, <3>7, <4>2 DEF z, y, g, Number
    <3>13. CASE c # v.choice /\ c # old
      <4>1. z = s /\ y = x
        BY <3>7, <3>8, <3>13
      <4> QED BY <3>8, <4>1 DEF z, y, g
    <3> QED BY <3>11, <3>12, <3>13
  <2> QED BY <2>7, <2>8, Zenon
<1> QED BY <1>8, <1>9, Zenon

(* One vote of one wallet in one instrument.                               *)
LEMMA SomethingStep ==
    ASSUME VotingTypes, Covered, NEW d \in DB, NEW w \in Wallet, NEW i \in Instrument,
           NEW v \in AVote
    PROVE  LET e == something(d, w, i, v) IN
           /\ WalletCounted(d, e, w, v)
           /\ NewAmount(w, i) # NoKey => e.given[w][v.id] = v.choice
<1> DEFINE e == something(d, w, i, v)
<1>1. CASE d.given[w][v.id] = v.choice \/ NewAmount(w, i) = NoKey
  <2>1. e = d
    BY <1>1 DEF something
  <2> QED BY <1>1, <2>1 DEF WalletCounted, KeepsSound
<1>2. CASE ~ (d.given[w][v.id] = v.choice \/ NewAmount(w, i) = NoKey)
  <2>1. NewAmount(w, i) \in Nat
    BY <1>2, NewBalanceIs DEF Covered
  <2>2. v.id \in Proposal
    BY DEF AVote
  <2>3. /\ e \in DB /\ e.priority = d.priority
        /\ \A u \in Wallet, q \in Proposal :
              e.given[u][q] = IF u = w /\ q = v.id THEN v.choice ELSE d.given[u][q]
        /\ \A q \in Proposal : q # v.id => e.tally[q] = d.tally[q]
    BY <1>2, <2>1, SomethingIs
  <2>4. KeepsSound(d, e)
    BY <1>2, <2>1, SomethingSound DEF KeepsSound
  <2>5. Holds(w)
    BY <1>2 DEF Holds
  <2> HIDE DEF e
  <2>6. WalletCounted(d, e, w, v) /\ e.given[w][v.id] = v.choice
    BY <2>2, <2>3, <2>4, <2>5 DEF WalletCounted
  <2> QED BY <2>6 DEF e
<1> QED BY <1>1, <1>2

(* One vote of one wallet, in all instruments.                             *)
LEMMA CountWalletStep ==
    ASSUME VotingTypes, Covered, NEW d \in DB, NEW w \in Wallet, NEW v \in AVote
    PROVE  LET e == CountWallet(d, w, v) IN
           /\ WalletCounted(d, e, w, v)
           /\ Holds(w) => e.given[w][v.id] = v.choice
<1> DEFINE n == Len(Instruments)
           F == [x \in DB \X (1..n) |-> something(x[1], w, Instruments[x[2]], v)]
           P(k) == k = [s \in SUBSET DOMAIN Instruments |->
                           IF s = {} THEN d
                           ELSE something(k[s \ {Max(s)}], w, Instruments[Max(s)], v)]
           g == CHOOSE k : P(k)
<1>1. CountWallet(d, w, v) = g[DOMAIN Instruments]
  BY DEF CountWallet, FoldLeft, MapThenFoldSet
<1>2. /\ n \in Nat /\ DOMAIN Instruments = 1..n /\ \A i \in 1..n : Instruments[i] \in Instrument
      /\ \A j \in Instrument : \E i \in 1..n : j = Instruments[i]
  <2>1. Instruments \in Seq(Instrument)
    BY VotingAssumption
  <2>2. n \in Nat /\ DOMAIN Instruments = 1..n
    BY <2>1, LenProperties
  <2> QED BY <2>2 DEF Instrument, Range
<1>3. \A x \in DB, i \in 1..n :
          LET e == something(x, w, Instruments[i], v) IN
          /\ WalletCounted(x, e, w, v)
          /\ NewAmount(w, Instruments[i]) # NoKey => e.given[w][v.id] = v.choice
  BY <1>2, SomethingStep
<1>4. \A x \in DB, i \in 1..n : something(x, w, Instruments[i], v) \in DB
  BY <1>3 DEF WalletCounted
<1> HIDE DEF n
<1>5. F \in [DB \X (1..n) -> DB]
  BY <1>4
<1>6. \A x \in DB, i \in 1..n : F[<<x, i>>] = something(x, w, Instruments[i], v)
  OBVIOUS
<1> HIDE DEF F
<1>7. PICK k : IsFold(k, F, d, 1..n) /\ \A s \in SUBSET (1..n) : k[s] \in DB
  BY <1>2, <1>5, FoldWithin
<1>8. \A s \in SUBSET (1..n) : s # {} => Max(s) \in 1..n /\ s \ {Max(s)} \in SUBSET (1..n)
  BY <1>2, MaxOfIndexes
<1>9. P(k)
  BY <1>2, <1>6, <1>7, <1>8 DEF IsFold
<1>10. P(g)
  BY <1>9
<1> HIDE DEF g
<1>11. FoldsBy(g, F, d, n, DB)
  <2>1. g[{}] = d
    BY <1>10
  <2>2. ASSUME NEW s \in SUBSET (1..n), s # {}, g[s \ {Max(s)}] \in DB
        PROVE  g[s] = F[<<g[s \ {Max(s)}], Max(s)>>]
    <3>1. g[s] = something(g[s \ {Max(s)}], w, Instruments[Max(s)], v)
      BY <1>2, <1>10, <2>2
    <3>2. Max(s) \in 1..n
      BY <1>8, <2>2
    <3> QED BY <1>6, <2>2, <3>1, <3>2
  <2> QED BY <2>1, <2>2 DEF FoldsBy
<1>12. PICK h : Unfolds(h, g, F, d, n, DB)
  BY <1>2, <1>5, <1>11, FoldSteps
<1> DEFINE T == {i \in 0..n : /\ WalletCounted(d, h[i], w, v)
                              /\ \A j \in 1..i : NewAmount(w, Instruments[j]) # NoKey =>
                                                     h[i].given[w][v.id] = v.choice}
<1>13. 0 \in T
  <2>1. h[0] = d /\ 0 \in 0..n /\ 1..0 = {}
    BY <1>2, <1>12 DEF Unfolds
  <2> QED BY <2>1 DEF WalletCounted, KeepsSound
<1>14. ASSUME NEW i \in 1..n, i - 1 \in T PROVE i \in T
  <2>1. i - 1 \in 0..n /\ i \in 0..n
    BY <1>2
  <2>2. h[i - 1] \in DB
    BY <1>12, <2>1 DEF Unfolds
  <2>3. h[i] = something(h[i - 1], w, Instruments[i], v)
    BY <1>6, <1>12, <2>2 DEF Unfolds
  <2>4. /\ WalletCounted(h[i - 1], h[i], w, v)
        /\ NewAmount(w, Instruments[i]) # NoKey => h[i].given[w][v.id] = v.choice
    BY <1>3, <2>2, <2>3
  <2>5. /\ WalletCounted(d, h[i - 1], w, v)
        /\ \A j \in 1..(i - 1) : NewAmount(w, Instruments[j]) # NoKey =>
                                     h[i - 1].given[w][v.id] = v.choice
    BY <1>14
  <2>6. WalletCounted(d, h[i], w, v)
    BY <2>4, <2>5 DEF WalletCounted, KeepsSound
  <2>7. ASSUME NEW j \in 1..i, NewAmount(w, Instruments[j]) # NoKey
        PROVE  h[i].given[w][v.id] = v.choice
    <3>1. CASE j = i
      BY <2>4, <2>7, <3>1
    <3>2. CASE j # i
      <4>1. j \in 1..(i - 1)
        BY <1>2, <3>2
      <4>2. h[i - 1].given[w][v.id] = v.choice
        BY <2>5, <2>7, <4>1
      <4> QED BY <2>4, <4>2 DEF WalletCounted
    <3> QED BY <3>1, <3>2
  <2> QED BY <2>1, <2>6, <2>7
<1> HIDE DEF T
<1>15. 0..n \subseteq T
  BY <1>2, <1>13, <1>14, PrefixInduction
<1>16. n \in T
  BY <1>2, <1>15
<1>17. /\ WalletCounted(d, h[n], w, v)
       /\ \A j \in 1..n : NewAmount(w, Instruments[j]) # NoKey => h[n].given[w][v.id] = v.choice
  BY <1>16 DEF T
<1>18. Holds(w) => h[n].given[w][v.id] = v.choice
  BY <1>2, <1>17 DEF Holds
<1>19. CountWallet(d, w, v) = h[n]
  BY <1>1, <1>2, <1>12 DEF Unfolds
<1> QED BY <1>17, <1>18, <1>19

(* What counting a vote may change.                                        *)
VoteCounted(d, e, v) ==
    /\ e \in DB
    /\ \A u \in Wallet : e.priority[u] = NoVote => d.priority[u] = NoVote
    /\ \A u \in Wallet, q \in Proposal :
          \/ e.given[u][q] = d.given[u][q]
          \/ /\ q = v.id /\ e.given[u][q] = v.choice /\ Holds(u)
             /\ u \in Range(v.with) \union {v.by}
    /\ \A q \in Proposal : q # v.id => e.tally[q] = d.tally[q]
    /\ KeepsSound(d, e)

(* One change after another.                                               *)
LEMMA VoteCountedThen ==
    ASSUME NEW d, NEW e, NEW f, NEW v, VoteCounted(d, e, v), VoteCounted(e, f, v)
    PROVE  VoteCounted(d, f, v)
<1>1. \A u \in Wallet, q \in Proposal :
          \/ f.given[u][q] = d.given[u][q]
          \/ /\ q = v.id /\ f.given[u][q] = v.choice /\ Holds(u)
             /\ u \in Range(v.with) \union {v.by}
  BY DEF VoteCounted
<1>2. KeepsSound(d, f)
  BY DEF VoteCounted, KeepsSound
<1> QED BY <1>1, <1>2 DEF VoteCounted

(* Nothing changes.                                                        *)
LEMMA VoteCountedNone ==
    ASSUME NEW d \in DB, NEW v
    PROVE  VoteCounted(d, d, v)
BY DEF VoteCounted, KeepsSound

(* Counting a wallet that votes with the voter, or the voter itself.       *)
LEMMA WalletIsVote ==
    ASSUME NEW d, NEW e, NEW v, NEW w \in Range(v.with) \union {v.by}, WalletCounted(d, e, w, v)
    PROVE  VoteCounted(d, e, v)
<1>1. \A u \in Wallet, q \in Proposal :
          \/ e.given[u][q] = d.given[u][q]
          \/ /\ q = v.id /\ e.given[u][q] = v.choice /\ Holds(u)
             /\ u \in Range(v.with) \union {v.by}
  BY DEF WalletCounted
<1> QED BY <1>1 DEF WalletCounted, VoteCounted

(* A record of a vote is kept.                                             *)
LEMMA PriorityKept ==
    ASSUME NEW d \in DB, NEW w \in Wallet, NEW p \in Proposal, NEW n \in Nat
    PROVE  LET e == SetPriority(d, w, p, n) IN
           /\ e \in DB /\ e.tally = d.tally /\ e.given = d.given
           /\ e.priority[w] # NoVote
           /\ \A u \in Wallet : u # w => e.priority[u] = d.priority[u]
<1> DEFINE x == IF d.priority[w] = NoVote
                THEN [q \in Proposal |-> IF q = p THEN n ELSE NoVote]
                ELSE [d.priority[w] EXCEPT ![p] = n]
           e == SetPriority(d, w, p, n)
<1>1. d.priority \in [Wallet -> [Proposal -> Nat \union {NoVote}] \union {NoVote}]
  BY DEF DB
<1>2. x \in [Proposal -> Nat \union {NoVote}]
  <2>1. CASE d.priority[w] = NoVote
    BY <2>1
  <2>2. CASE d.priority[w] # NoVote
    <3>1. d.priority[w] \in [Proposal -> Nat \union {NoVote}]
      BY <1>1, <2>2
    <3> QED BY <2>2, <3>1
  <2> QED BY <2>1, <2>2
<1>3. e = [d EXCEPT !.priority[w] = x]
  BY <1>1 DEF SetPriority, DB
<1> HIDE DEF x
<1>4. /\ e.tally = d.tally /\ e.given = d.given
      /\ e.priority = [d.priority EXCEPT ![w] = x]
      /\ e = [tally |-> e.tally, given |-> e.given, priority |-> e.priority]
  BY <1>3 DEF DB
<1> HIDE DEF e
<1>5. e.priority \in [Wallet -> [Proposal -> Nat \union {NoVote}] \union {NoVote}]
  BY <1>1, <1>2, <1>4
<1>6. e \in DB
  BY <1>4, <1>5 DEF DB
<1>7. x # NoVote
  BY <1>2, VotingAssumption
<1> QED BY <1>1, <1>4, <1>6, <1>7 DEF e

(* Only a record of a vote is added, which leaves the tallies alone.       *)
LEMMA PriorityIsVote ==
    ASSUME NEW d \in DB, NEW e \in DB, NEW w \in Wallet, NEW v, e.tally = d.tally,
           e.given = d.given, e.priority[w] # NoVote \/ e.priority = d.priority,
           \A u \in Wallet : u # w => e.priority[u] = d.priority[u]
    PROVE  VoteCounted(d, e, v)
<1>1. \A p, c, i : Backing(e, p, c, i) = Backing(d, p, c, i)
  BY DEF Backing
<1>2. KeepsSound(d, e)
  BY <1>1 DEF KeepsSound, Sound
<1> QED BY <1>2 DEF VoteCounted

(* The priority of a delegate.                                             *)
LEMMA VotedPriority ==
    ASSUME VotingTypes, NEW d \in DB, NEW v \in AVote, NEW w \in Wallet
    PROVE  VoteCounted(d, store_voted_priority(d, w, v), v)
<1> DEFINE known == {k \in DOMAIN recipients[v.by] : recipients[v.by][k].by = w}
           k == CHOOSE l \in known : TRUE
           n == recipients[v.by][k].priority
<1>1. CASE known = {}
  BY <1>1, VoteCountedNone DEF store_voted_priority
<1>2. CASE known # {}
  <2>1. store_voted_priority(d, w, v) = SetPriority(d, w, v.id, n)
    BY <1>2 DEF store_voted_priority
  <2>2. k \in DOMAIN recipients[v.by]
    BY <1>2
  <2>3. recipients[v.by] \in Seq([by : Wallet, priority : Nat])
    BY DEF VotingTypes, VotesTyped, AVote
  <2>4. k \in 1 .. Len(recipients[v.by])
    BY <2>2, <2>3, LenProperties
  <2> HIDE DEF k
  <2>5. recipients[v.by][k] \in [by : Wallet, priority : Nat]
    BY <2>3, <2>4, ElementOfSeq
  <2>6. n \in Nat /\ v.id \in Proposal
    BY <2>5 DEF AVote
  <2> HIDE DEF n
  <2> DEFINE e == SetPriority(d, w, v.id, n)
  <2>7. /\ e \in DB /\ e.tally = d.tally /\ e.given = d.given
        /\ e.priority[w] # NoVote
        /\ \A u \in Wallet : u # w => e.priority[u] = d.priority[u]
    BY <2>6, PriorityKept
  <2> HIDE DEF e
  <2>8. VoteCounted(d, e, v)
    BY <2>7, PriorityIsVote
  <2> QED BY <2>1, <2>8 DEF e
<1> QED BY <1>1, <1>2

(* A vote: those who vote with the voter, then itself.                     *)
LEMMA CountVoteStep ==
    ASSUME VotingTypes, Covered, NEW d \in DB, NEW v \in AVote
    PROVE  LET e == CountVote(d, v) IN
           /\ VoteCounted(d, e, v)
           /\ e.priority[v.by] # NoVote
           /\ Holds(v.by) => e.given[v.by][v.id] = v.choice
<1> DEFINE marked == store_own_priority(d, v.by, v.id)
           Step(e, w) == CountWallet(store_voted_priority(e, w, v), w, v)
           n == Len(v.with)
           F == [x \in DB \X (1..n) |-> Step(x[1], v.with[x[2]])]
           P(k) == k = [s \in SUBSET DOMAIN v.with |->
                           IF s = {} THEN marked ELSE Step(k[s \ {Max(s)}], v.with[Max(s)])]
           g == CHOOSE k : P(k)
<1>1. /\ v.by \in Wallet /\ v.id \in Proposal /\ v.choice \in Choice /\ v.with \in Seq(Wallet)
  BY DEF AVote
<1>2. /\ n \in Nat /\ DOMAIN v.with = 1..n /\ \A i \in 1..n : v.with[i] \in Wallet
      /\ \A i \in 1..n : v.with[i] \in Range(v.with)
  BY <1>1, LenProperties, ElementOfSeq DEF Range
<1>3. d.tally[v.id] # NoVote
  <2>1. d.tally[v.id] \in [Choice -> [Instrument -> Nat \union {NoKey}]]
    BY <1>1 DEF DB, Tallies
  <2> QED BY <2>1, VotingAssumption
<1>4. CountVote(d, v) = CountWallet(g[DOMAIN v.with], v.by, v)
  BY <1>3 DEF CountVote, FoldLeft, MapThenFoldSet
<1>5. /\ marked \in DB /\ marked.priority[v.by] # NoVote /\ VoteCounted(d, marked, v)
  <2>1. /\ marked \in DB /\ marked.tally = d.tally /\ marked.given = d.given
        /\ marked.priority[v.by] # NoVote
        /\ \A u \in Wallet : u # v.by => marked.priority[u] = d.priority[u]
    BY <1>1, PriorityKept DEF store_own_priority
  <2> HIDE DEF marked
  <2> QED BY <1>1, <2>1, PriorityIsVote
<1>6. ASSUME NEW x \in DB, NEW w \in Range(v.with), w \in Wallet
      PROVE  VoteCounted(x, Step(x, w), v) /\ Step(x, w) \in DB
  <2> DEFINE y == store_voted_priority(x, w, v)
  <2>1. VoteCounted(x, y, v)
    BY <1>6, VotedPriority
  <2>2. y \in DB
    BY <2>1 DEF VoteCounted
  <2> HIDE DEF y
  <2>3. WalletCounted(y, CountWallet(y, w, v), w, v)
    BY <1>6, <2>2, CountWalletStep
  <2>4. VoteCounted(y, CountWallet(y, w, v), v)
    BY <1>6, <2>3, WalletIsVote
  <2>5. VoteCounted(x, CountWallet(y, w, v), v)
    BY <2>1, <2>4, VoteCountedThen
  <2> QED BY <2>5 DEF y, VoteCounted
<1> HIDE DEF Step, marked, n
<1>7. F \in [DB \X (1..n) -> DB]
  BY <1>2, <1>6
<1>8. \A x \in DB, i \in 1..n : F[<<x, i>>] = Step(x, v.with[i])
  OBVIOUS
<1> HIDE DEF F
<1>9. PICK k : IsFold(k, F, marked, 1..n) /\ \A s \in SUBSET (1..n) : k[s] \in DB
  BY <1>2, <1>5, <1>7, FoldWithin
<1>10. \A s \in SUBSET (1..n) : s # {} => Max(s) \in 1..n /\ s \ {Max(s)} \in SUBSET (1..n)
  BY <1>2, MaxOfIndexes
<1>11. P(k)
  BY <1>2, <1>8, <1>9, <1>10 DEF IsFold
<1>12. P(g)
  BY <1>11
<1> HIDE DEF g
<1>13. FoldsBy(g, F, marked, n, DB)
  <2>1. g[{}] = marked
    BY <1>12
  <2>2. ASSUME NEW s \in SUBSET (1..n), s # {}, g[s \ {Max(s)}] \in DB
        PROVE  g[s] = F[<<g[s \ {Max(s)}], Max(s)>>]
    <3>1. g[s] = Step(g[s \ {Max(s)}], v.with[Max(s)])
      BY <1>2, <1>12, <2>2
    <3>2. Max(s) \in 1..n
      BY <1>10, <2>2
    <3> QED BY <1>8, <2>2, <3>1, <3>2
  <2> QED BY <2>1, <2>2 DEF FoldsBy
<1>14. PICK h : Unfolds(h, g, F, marked, n, DB)
  BY <1>2, <1>5, <1>7, <1>13, FoldSteps
<1> DEFINE T == {i \in 0..n : VoteCounted(marked, h[i], v)}
<1>15. 0 \in T
  BY <1>2, <1>5, <1>14, VoteCountedNone DEF Unfolds
<1>16. ASSUME NEW i \in 1..n, i - 1 \in T PROVE i \in T
  <2>1. i - 1 \in 0..n /\ i \in 0..n
    BY <1>2
  <2>2. h[i - 1] \in DB /\ VoteCounted(marked, h[i - 1], v)
    BY <1>14, <1>16, <2>1 DEF Unfolds
  <2>3. h[i] = Step(h[i - 1], v.with[i])
    BY <1>8, <1>14, <2>2 DEF Unfolds
  <2>4. VoteCounted(h[i - 1], h[i], v)
    BY <1>2, <1>6, <2>2, <2>3
  <2> QED BY <2>1, <2>2, <2>4, VoteCountedThen
<1> HIDE DEF T
<1>17. 0..n \subseteq T
  BY <1>2, <1>15, <1>16, PrefixInduction
<1>18. VoteCounted(marked, h[n], v)
  BY <1>2, <1>17 DEF T
<1>19. h[n] \in DB
  BY <1>18 DEF VoteCounted
<1> DEFINE e == CountWallet(h[n], v.by, v)
<1>20. WalletCounted(h[n], e, v.by, v) /\ (Holds(v.by) => e.given[v.by][v.id] = v.choice)
  BY <1>1, <1>19, CountWalletStep
<1>21. CountVote(d, v) = e
  BY <1>2, <1>4, <1>14 DEF Unfolds
<1> HIDE DEF e
<1>22. VoteCounted(h[n], e, v)
  BY <1>20, WalletIsVote
<1>23. VoteCounted(marked, e, v)
  BY <1>18, <1>22, VoteCountedThen
<1>24. VoteCounted(d, e, v)
  BY <1>5, <1>23, VoteCountedThen
<1>25. e.priority[v.by] # NoVote
  BY <1>1, <1>5, <1>23 DEF VoteCounted
<1> QED BY <1>20, <1>21, <1>24, <1>25

(* The votes of a block, counted in some order: what is left of h[0], ..., *)
(* h[n], one for each vote.                                                *)
Counting(h, order, n) ==
    /\ n \in Nat /\ n = Cardinality(waiting.votes)
    /\ order \in [1..n -> waiting.votes] /\ \A v \in waiting.votes : \E i \in 1..n : order[i] = v
    /\ h \in [0..n -> DB]
    /\ h[0] = [tally |-> tally, given |-> given, priority |-> priority]
    /\ \A i \in 1..n :
          /\ VoteCounted(h[i - 1], h[i], order[i])
          /\ h[i].priority[order[i].by] # NoVote
          /\ Holds(order[i].by) => h[i].given[order[i].by][order[i].id] = order[i].choice
    /\ batch_votes(order) = h[n]

(* An order of the votes has each of them.                                 *)
LEMMA OrderOfVotes ==
    ASSUME VotingTypes, NEW order \in SetToSeqs(waiting.votes)
    PROVE  LET n == Cardinality(waiting.votes) IN
           /\ n \in Nat /\ order \in [1..n -> waiting.votes]
           /\ \A v \in waiting.votes : \E i \in 1..n : order[i] = v
<1> DEFINE n == Cardinality(waiting.votes)
           S == waiting.votes
<1>1. IsFiniteSet(S)
  BY DEF VotingTypes, WaitingTyped
<1>2. n \in Nat
  BY <1>1, FS_CardinalityType
<1>3. order \in [1..n -> S] /\ \A i, j \in 1..n : i # j => order[i] # order[j]
  BY DEF SetToSeqs
<1> HIDE DEF n, S
<1>4. order \in Injection(1..n, S)
  BY <1>3 DEF Injection, IsInjective
<1>5. Cardinality(1..n) = n /\ IsFiniteSet(1..n)
  BY <1>2, FS_Interval
<1>6. n = Cardinality(S)
  BY DEF n, S
<1>7. order \in Surjection(1..n, S)
  BY <1>1, <1>4, <1>5, <1>6, FS_Injection
<1> QED BY <1>2, <1>3, <1>7 DEF Surjection, n, S

(* The votes of a block are counted one after another.                     *)
LEMMA BatchVotes ==
    ASSUME VotingTypes, Covered, NEW order \in SetToSeqs(waiting.votes)
    PROVE  \E h : Counting(h, order, Cardinality(waiting.votes))
<1> DEFINE n == Cardinality(waiting.votes)
           first == [tally |-> tally, given |-> given, priority |-> priority]
           F == [x \in DB \X (1..n) |-> CountVote(x[1], order[x[2]])]
           P(k) == k = [s \in SUBSET DOMAIN order |->
                           IF s = {} THEN first ELSE CountVote(k[s \ {Max(s)}], order[Max(s)])]
           g == CHOOSE k : P(k)
<1>1. batch_votes(order) = g[DOMAIN order]
  BY DEF batch_votes, FoldLeft, MapThenFoldSet
<1>2. /\ n \in Nat /\ order \in [1..n -> waiting.votes] /\ DOMAIN order = 1..n
      /\ \A v \in waiting.votes : \E i \in 1..n : order[i] = v
  BY OrderOfVotes
<1>3. \A i \in 1..n : order[i] \in AVote
  BY <1>2 DEF VotingTypes, WaitingTyped
<1>4. first \in DB
  BY DEF DB, Tallies, VotingTypes, VotesTyped
<1>5. \A x \in DB, i \in 1..n :
          LET e == CountVote(x, order[i]) IN
          /\ VoteCounted(x, e, order[i])
          /\ e.priority[order[i].by] # NoVote
          /\ Holds(order[i].by) => e.given[order[i].by][order[i].id] = order[i].choice
  BY <1>3, CountVoteStep
<1>6. \A x \in DB, i \in 1..n : CountVote(x, order[i]) \in DB
  BY <1>5 DEF VoteCounted
<1> HIDE DEF first, n
<1>7. F \in [DB \X (1..n) -> DB]
  BY <1>6
<1>8. \A x \in DB, i \in 1..n : F[<<x, i>>] = CountVote(x, order[i])
  OBVIOUS
<1> HIDE DEF F
<1>9. PICK k : IsFold(k, F, first, 1..n) /\ \A s \in SUBSET (1..n) : k[s] \in DB
  BY <1>2, <1>4, <1>7, FoldWithin
<1>10. \A s \in SUBSET (1..n) : s # {} => Max(s) \in 1..n /\ s \ {Max(s)} \in SUBSET (1..n)
  BY <1>2, MaxOfIndexes
<1>11. P(k)
  BY <1>2, <1>8, <1>9, <1>10 DEF IsFold
<1>12. P(g)
  BY <1>11
<1> HIDE DEF g
<1>13. FoldsBy(g, F, first, n, DB)
  <2>1. g[{}] = first
    BY <1>12
  <2>2. ASSUME NEW s \in SUBSET (1..n), s # {}, g[s \ {Max(s)}] \in DB
        PROVE  g[s] = F[<<g[s \ {Max(s)}], Max(s)>>]
    <3>1. g[s] = CountVote(g[s \ {Max(s)}], order[Max(s)])
      BY <1>2, <1>12, <2>2
    <3>2. Max(s) \in 1..n
      BY <1>10, <2>2
    <3> QED BY <1>8, <2>2, <3>1, <3>2
  <2> QED BY <2>1, <2>2 DEF FoldsBy
<1>14. PICK h : Unfolds(h, g, F, first, n, DB)
  BY <1>2, <1>4, <1>7, <1>13, FoldSteps
<1>15. ASSUME NEW i \in 1..n
       PROVE  /\ VoteCounted(h[i - 1], h[i], order[i])
              /\ h[i].priority[order[i].by] # NoVote
              /\ Holds(order[i].by) => h[i].given[order[i].by][order[i].id] = order[i].choice
  <2>1. i - 1 \in 0..n
    BY <1>2
  <2>2. h[i - 1] \in DB
    BY <1>14, <2>1 DEF Unfolds
  <2>3. h[i] = CountVote(h[i - 1], order[i])
    BY <1>8, <1>14, <2>2 DEF Unfolds
  <2> QED BY <1>5, <2>2, <2>3
<1>16. batch_votes(order) = h[n] /\ h \in [0..n -> DB] /\ h[0] = first
  BY <1>1, <1>2, <1>14 DEF Unfolds
<1>17. Counting(h, order, n)
  BY <1>2, <1>15, <1>16 DEF Counting, first, n
<1> QED BY <1>17 DEF n

(* What the votes of a block have done to the databases in the end.        *)
BlockCounted(d) ==
    /\ d \in DB
    /\ \A u \in Wallet : d.priority[u] = NoVote => priority[u] = NoVote
    /\ \A u \in Wallet, q \in Proposal :
          \/ d.given[u][q] = given[u][q]
          \/ \E v \in waiting.votes : /\ v.id = q /\ d.given[u][q] = v.choice /\ Holds(u)
                                      /\ u \in Range(v.with) \union {v.by}
    /\ \A q \in Proposal : (\A v \in waiting.votes : v.id # q) => d.tally[q] = tally[q]
    /\ \A v \in waiting.votes :
          /\ d.priority[v.by] # NoVote
          /\ Holds(v.by) /\ ~ VotedFor(v.by, v.id) => d.given[v.by][v.id] = v.choice
    /\ KeepsSound([tally |-> tally, given |-> given, priority |-> priority], d)

(* By induction over the votes: what was there and what a vote changed is  *)
(* kept, and a wallet's own vote is replaced only if another voted for it  *)
(* in the same block.                                                      *)
LEMMA CountingEnds ==
    ASSUME VotingTypes, WaitingVotes, NEW h, NEW order, NEW n, Counting(h, order, n)
    PROVE  BlockCounted(h[n])
<1> DEFINE first == [tally |-> tally, given |-> given, priority |-> priority]
           Given(d) == \A u \in Wallet, q \in Proposal :
               \/ d.given[u][q] = given[u][q]
               \/ \E v \in waiting.votes : /\ v.id = q /\ d.given[u][q] = v.choice /\ Holds(u)
                                           /\ u \in Range(v.with) \union {v.by}
           Kept(d) ==
               /\ \A u \in Wallet : d.priority[u] = NoVote => priority[u] = NoVote
               /\ \A q \in Proposal : (\A v \in waiting.votes : v.id # q) => d.tally[q] = tally[q]
               /\ KeepsSound(first, d)
           Stands(d, v) ==
               /\ d.priority[v.by] # NoVote
               /\ Holds(v.by) /\ ~ VotedFor(v.by, v.id) => d.given[v.by][v.id] = v.choice
           T == {i \in 0..n : Given(h[i]) /\ Kept(h[i]) /\ \A j \in 1..n : j <= i => Stands(h[i], order[j])}
<1>1. /\ n \in Nat /\ order \in [1..n -> waiting.votes]
      /\ \A v \in waiting.votes : \E i \in 1..n : order[i] = v
      /\ h \in [0..n -> DB] /\ h[0] = first
      /\ \A i \in 1..n :
          /\ VoteCounted(h[i - 1], h[i], order[i])
          /\ h[i].priority[order[i].by] # NoVote
          /\ Holds(order[i].by) => h[i].given[order[i].by][order[i].id] = order[i].choice
  BY DEF Counting
<1>2. \A v \in waiting.votes : v.by \in Wallet /\ v.id \in Proposal /\ v \in AVote
  BY DEF VotingTypes, WaitingTyped, AVote
<1>3. 0 \in T
  <2>1. Given(first) /\ Kept(first)
    BY DEF KeepsSound
  <2>2. \A j \in 1..n : ~ (j <= 0)
    OBVIOUS
  <2> HIDE DEF Given, Kept, Stands, first
  <2> QED BY <1>1, <2>1, <2>2
<1>4. ASSUME NEW i \in 1..n, i - 1 \in T PROVE i \in T
  <2> DEFINE x == order[i]
             d == h[i - 1]
             e == h[i]
  <2>1. i - 1 \in 0..n /\ i \in 0..n /\ x \in waiting.votes
    BY <1>1
  <2>2. Given(d) /\ Kept(d) /\ \A j \in 1..n : j <= i - 1 => Stands(d, order[j])
    BY <1>4
  <2>3. VoteCounted(d, e, x) /\ e.priority[x.by] # NoVote
        /\ (Holds(x.by) => e.given[x.by][x.id] = x.choice)
    BY <1>1
  <2> HIDE DEF d, e, x
  <2>4. Given(e)
    <3> SUFFICES ASSUME NEW u \in Wallet, NEW q \in Proposal
                 PROVE
               \/ e.given[u][q] = given[u][q]
               \/ \E v \in waiting.votes : /\ v.id = q /\ e.given[u][q] = v.choice /\ Holds(u)
                                           /\ u \in Range(v.with) \union {v.by}
      OBVIOUS
    <3>1. CASE e.given[u][q] = d.given[u][q]
      BY <2>2, <3>1
    <3>2. CASE ~ (e.given[u][q] = d.given[u][q])
      <4>1. /\ q = x.id /\ e.given[u][q] = x.choice /\ Holds(u)
            /\ u \in Range(x.with) \union {x.by}
        BY <2>3, <3>2 DEF VoteCounted
      <4> QED BY <2>1, <4>1
    <3> QED BY <3>1, <3>2
  <2>5. Kept(e)
    <3>1. \A u \in Wallet : e.priority[u] = NoVote => priority[u] = NoVote
      BY <2>2, <2>3 DEF VoteCounted
    <3>2. \A q \in Proposal : (\A v \in waiting.votes : v.id # q) => e.tally[q] = tally[q]
      BY <2>1, <2>2, <2>3 DEF VoteCounted
    <3>3. KeepsSound(first, e)
      BY <2>2, <2>3 DEF VoteCounted, KeepsSound
    <3> QED BY <3>1, <3>2, <3>3
  <2>6. ASSUME NEW j \in 1..n, j <= i PROVE Stands(e, order[j])
    <3> DEFINE y == order[j]
    <3>1. y \in waiting.votes /\ y.by \in Wallet /\ y.id \in Proposal
      BY <1>1, <1>2
    <3>2. CASE j = i
      BY <2>3, <3>2 DEF x
    <3>3. CASE j # i
      <4>1. j <= i - 1
        BY <1>1, <2>6, <3>3
      <4>2. Stands(d, y)
        BY <2>2, <4>1
      <4> HIDE DEF y
      <4>3. e.priority[y.by] # NoVote
        BY <2>3, <3>1, <4>2 DEF VoteCounted
      <4>4. ASSUME Holds(y.by), ~ VotedFor(y.by, y.id)
            PROVE  e.given[y.by][y.id] = y.choice
        <5>1. d.given[y.by][y.id] = y.choice
          BY <4>2, <4>4
        <5>2. \/ e.given[y.by][y.id] = d.given[y.by][y.id]
              \/ /\ y.id = x.id /\ e.given[y.by][y.id] = x.choice
                 /\ y.by \in Range(x.with) \union {x.by}
          BY <2>3, <3>1 DEF VoteCounted
        <5>3. y.id = x.id /\ y.by = x.by => y = x
          BY <2>1, <3>1 DEF WaitingVotes
        <5>4. ~ (y.id = x.id /\ x.by # y.by /\ y.by \in Range(x.with))
          BY <2>1, <4>4 DEF VotedFor
        <5> QED BY <5>1, <5>2, <5>3, <5>4
      <4> QED BY <4>3, <4>4 DEF y
    <3> QED BY <3>2, <3>3
  <2> HIDE DEF Given, Kept, Stands
  <2> QED BY <2>1, <2>4, <2>5, <2>6 DEF e
<1> HIDE DEF T, Given, Kept, Stands
<1>5. 0..n \subseteq T
  BY <1>1, <1>3, <1>4, PrefixInduction
<1>6. Given(h[n]) /\ Kept(h[n]) /\ \A j \in 1..n : j <= n => Stands(h[n], order[j])
  BY <1>1, <1>5 DEF T
<1>7. \A v \in waiting.votes : Stands(h[n], v)
  BY <1>1, <1>6
<1>8. h[n] \in DB
  BY <1>1
<1> QED BY <1>6, <1>7, <1>8 DEF Given, Kept, Stands, BlockCounted

(* The same of a block.                                                    *)
LEMMA BlockVotes ==
    ASSUME VotingTypes, Covered, WaitingVotes, NEW order \in SetToSeqs(waiting.votes)
    PROVE  BlockCounted(batch_votes(order))
<1>1. PICK h : Counting(h, order, Cardinality(waiting.votes))
  BY BatchVotes
<1> DEFINE n == Cardinality(waiting.votes)
<1>2. Counting(h, order, n)
  BY <1>1
<1> HIDE DEF n
<1>3. batch_votes(order) = h[n]
  BY <1>2 DEF Counting
<1> QED BY <1>2, <1>3, CountingEnds

-----------------------------------------------------------------------------
(* Votes are authorised. *)

AuthorisedInv ==
    /\ VotingTypes /\ Covered /\ WaitingVotes /\ RecipientsDelegated /\ OwnRecorded
    /\ OwnVotePrevails /\ VotesDelegated /\ PaidAhead

(* Where no payments wait, what a wallet holds is its balance.             *)
LEMMA NothingMoves ==
    ASSUME waiting.payments = {}, NEW w \in Wallet, NEW i \in Instrument,
           amount[w][i] \in Nat \union {NoKey}
    PROVE  Change(waiting.payments, w, i) = [in |-> 0, out |-> 0]
           /\ NewBalance(w, i) = Balance(w, i) /\ Balance(w, i) \in Nat
<1>1. Change(waiting.payments, w, i) = [in |-> 0, out |-> 0]
  BY ChangeIs, MovedNothing
<1>2. Balance(w, i) \in Nat
  BY DEF Balance
<1> QED BY <1>1, <1>2 DEF NewBalance

(* At first.                                                               *)
LEMMA VotingStarts == ASSUME VotingInit PROVE VotingTypes /\ Covered /\ AuthorisedInv
<1> USE DEF VotingInit
<1>1. NoKey \notin Nat /\ NoVote \notin Choice
  BY VotingAssumption
<1>2. VotesTyped
  <2>1. <<>> \in Seq([by : Wallet, priority : Nat])
    OBVIOUS
  <2> QED BY <2>1, HoldingAssumption DEF VotesTyped, NoVotes
<1>3. WaitingTyped
  BY FS_EmptySet DEF WaitingTyped
<1>4. HistoryTyped
  BY DEF HistoryTyped
<1>5. VotingTypes
  BY <1>2, <1>3, <1>4 DEF VotingTypes
<1>6. Covered
  <2> SUFFICES ASSUME NEW i \in Instrument
               PROVE  /\ \A w \in Wallet : NewBalance(w, i) >= 0
                      /\ SumFunction([w \in Wallet |-> NewBalance(w, i)]) = Supply(i)
    BY DEF Covered
  <2>1. \A w \in Wallet : amount[w][i] \in Nat \union {NoKey}
    BY <1>2 DEF VotesTyped
  <2>2. \A w \in Wallet : NewBalance(w, i) = Balance(w, i) /\ Balance(w, i) \in Nat
    BY <2>1, NothingMoves
  <2>3. \A w \in Wallet :
            NewBalance(w, i) = IF FirstAmount[w][i] = NoKey THEN 0 ELSE FirstAmount[w][i]
    BY <2>2 DEF Balance
  <2>4. [w \in Wallet |-> NewBalance(w, i)] =
            [w \in Wallet |-> IF FirstAmount[w][i] = NoKey THEN 0 ELSE FirstAmount[w][i]]
    BY <2>3
  <2>5. \A w \in Wallet : NewBalance(w, i) >= 0
    BY <2>2
  <2>6. SumFunction([w \in Wallet |-> NewBalance(w, i)]) = Supply(i)
    BY <2>4, Zenon DEF Supply
  <2> QED BY <2>5, <2>6
<1>7. WaitingVotes
  BY DEF WaitingVotes
<1>8. RecipientsDelegated
  BY DEF RecipientsDelegated
<1>9. OwnRecorded /\ OwnVotePrevails /\ VotesDelegated
  BY DEF OwnRecorded, OwnVotePrevails, VotesDelegated
<1>10. PaidAhead
  <2> SUFFICES ASSUME NEW w \in Wallet
               PROVE  Paid(w) >= VoteFee * (Cardinality(ThroughOthers(w)) + Cardinality(WaitingFor(w)))
    BY DEF PaidAhead
  <2>1. ThroughOthers(w) = {} /\ WaitingFor(w) = {}
    BY DEF ThroughOthers, WaitingFor
  <2>2. FirstCoins[w] \in Nat
    BY HoldingAssumption
  <2>3. Paid(w) = 0
    BY <2>2 DEF Paid
  <2>4. VoteFee * (0 + 0) = 0
    BY VotingAssumption
  <2> QED BY <2>1, <2>3, <2>4, FS_EmptySet
<1> QED BY <1>5, <1>6, <1>7, <1>8, <1>9, <1>10 DEF AuthorisedInv

(* What is set aside for one more vote.                                    *)
LEMMA FeesAtLeast ==
    ASSUME NEW a \in Nat, NEW b \in Nat, a <= b
    PROVE  VoteFee * a <= VoteFee * b
<1>1. VoteFee \in Nat
  BY VotingAssumption
<1>2. VoteFee * b = VoteFee * a + VoteFee * (b - a)
  BY <1>1
<1>3. b - a \in Nat
  OBVIOUS
<1>4. VoteFee * (b - a) \in Nat /\ VoteFee * a \in Nat
  BY <1>1, <1>3
<1> QED BY <1>2, <1>4

(* The sets that are counted are finite.                                   *)
LEMMA CountsFinite ==
    ASSUME VotingTypes, NEW w \in Wallet
    PROVE  /\ IsFiniteSet(ThroughOthers(w)) /\ Cardinality(ThroughOthers(w)) \in Nat
           /\ IsFiniteSet(WaitingFor(w)) /\ Cardinality(WaitingFor(w)) \in Nat
           /\ Paid(w) \in Int
<1>1. ThroughOthers(w) \subseteq Proposal /\ WaitingFor(w) \subseteq waiting.votes
  BY DEF ThroughOthers, WaitingFor
<1>2. IsFiniteSet(Proposal) /\ IsFiniteSet(waiting.votes)
  BY VotingAssumption DEF VotingTypes, WaitingTyped
<1>3. FirstCoins[w] \in Nat /\ coins[w] \in Nat /\ fund[w] \in Nat
  BY HoldingAssumption DEF VotingTypes, VotesTyped
<1>4. Paid(w) \in Int
  BY <1>3 DEF Paid
<1> QED BY <1>1, <1>2, <1>4, FS_Subset, FS_CardinalityType

(* A wallet has paid for being counted.                                    *)
LEMMA PaidForVotes == ASSUME VotingTypes, PaidAhead PROVE VotePaid
<1> SUFFICES ASSUME NEW w \in Wallet
             PROVE  Paid(w) >= VoteFee * Cardinality(ThroughOthers(w))
  BY DEF VotePaid, ThroughOthers
<1>1. /\ Cardinality(ThroughOthers(w)) \in Nat /\ Cardinality(WaitingFor(w)) \in Nat
      /\ Paid(w) \in Int
  BY CountsFinite
<1> DEFINE a == Cardinality(ThroughOthers(w))
           b == Cardinality(ThroughOthers(w)) + Cardinality(WaitingFor(w))
<1>2. Paid(w) >= VoteFee * b
  BY DEF PaidAhead
<1>3. a \in Nat /\ b \in Nat /\ a <= b
  BY <1>1
<1>4. VoteFee * a \in Nat /\ VoteFee * b \in Nat
  BY <1>3, VotingAssumption
<1> HIDE DEF a, b
<1>5. VoteFee * a <= VoteFee * b
  BY <1>3, FeesAtLeast
<1>6. Paid(w) >= VoteFee * a
  BY <1>1, <1>2, <1>4, <1>5
<1> QED BY <1>6 DEF a

(* Where neither payments nor balances change, they stay covered.          *)
LEMMA CoveredKept ==
    ASSUME Covered, waiting'.payments = waiting.payments, amount' = amount
    PROVE  Covered'
<1>1. \A w, i : Balance(w, i)' = Balance(w, i)
  BY DEF Balance
<1>2. \A w, i : Change(waiting.payments, w, i)' = Change(waiting.payments, w, i)
  BY DEF Change
<1>3. \A w, i : NewBalance(w, i)' = NewBalance(w, i)
  BY <1>1, <1>2 DEF NewBalance
<1> QED BY <1>3 DEF Covered, Supply

(* Where the databases do not change, what is true of them stays so.       *)
LEMMA DatabasesKept ==
    ASSUME RecipientsDelegated, OwnRecorded, OwnVotePrevails, VotesDelegated,
           UNCHANGED <<amount, databases, history>>
    PROVE  RecipientsDelegated' /\ OwnRecorded' /\ OwnVotePrevails' /\ VotesDelegated'
<1> USE DEF databases, history
<1>1. RecipientsDelegated'
  BY DEF RecipientsDelegated
<1>2. OwnRecorded'
  BY DEF OwnRecorded
<1>3. OwnVotePrevails'
  BY DEF OwnVotePrevails
<1>4. VotesDelegated'
  BY DEF VotesDelegated
<1> QED BY <1>1, <1>2, <1>3, <1>4

(* What waits, when one part of it changes.                                *)
LEMMA WaitingParts ==
    ASSUME WaitingTyped, NEW x
    PROVE  /\ LET y == [waiting EXCEPT !.votes = x] IN
              /\ y.votes = x /\ y.delegations = waiting.delegations
              /\ y.payments = waiting.payments /\ DOMAIN y = DOMAIN waiting
           /\ LET y == [waiting EXCEPT !.delegations = x] IN
              /\ y.votes = waiting.votes /\ y.delegations = x
              /\ y.payments = waiting.payments /\ DOMAIN y = DOMAIN waiting
           /\ LET y == [waiting EXCEPT !.payments = x] IN
              /\ y.votes = waiting.votes /\ y.delegations = waiting.delegations
              /\ y.payments = x /\ DOMAIN y = DOMAIN waiting
BY DEF WaitingTyped

(* A vote is pre-processed.                                                *)
LEMMA VoteKeeps ==
    ASSUME AuthorisedInv, NEW w \in Wallet, NEW p \in Proposal, NEW c \in Choice, Vote(w, p, c)
    PROVE  AuthorisedInv'
<1> DEFINE found == process_delegated(w)
           v == [by |-> w, id |-> p, choice |-> c, with |-> found.wallets]
<1> USE DEF AuthorisedInv
<1>1. /\ waiting' = [waiting EXCEPT !.votes = waiting.votes \union {v}]
      /\ fund' = found.fund
      /\ UNCHANGED <<amount, coins, databases, payments, history>>
      /\ \A x \in waiting.votes : ~ (x.by = w /\ x.id = p)
  <2>1. /\ waiting' = [waiting EXCEPT !.votes = @ \union {v}]
        /\ fund' = found.fund
        /\ UNCHANGED <<amount, coins, databases, payments, history>>
        /\ \A x \in waiting.votes : ~ (x.by = w /\ x.id = p)
    BY DEF Vote
  <2>2. [waiting EXCEPT !.votes = @ \union {v}] = [waiting EXCEPT !.votes = waiting.votes \union {v}]
    OBVIOUS
  <2> HIDE DEF v
  <2> QED BY <2>1, <2>2
<1>2. found \in Search /\ Charged(found) /\ \A u \in Range(found.wallets) : w \in Delegates[u]
  BY SearchResult DEF SearchFrom
<1>3. found.wallets \in Seq(Wallet) /\ found.fund \in [Wallet -> Nat]
  BY <1>2 DEF Search
<1> HIDE DEF found
<1>4. v \in AVote /\ v.by = w /\ v.id = p /\ v.choice = c /\ v.with = found.wallets
  BY <1>3 DEF AVote
<1> HIDE DEF v
<1>5. /\ waiting'.votes = waiting.votes \union {v} /\ waiting'.delegations = waiting.delegations
      /\ waiting'.payments = waiting.payments /\ DOMAIN waiting' = DOMAIN waiting
  BY <1>1, WaitingParts DEF VotingTypes
<1>6. v \notin waiting.votes
  BY <1>1, <1>4
<1>7. IsFiniteSet(waiting.votes) /\ IsFiniteSet(waiting'.votes)
  BY <1>5, FS_AddElement DEF VotingTypes, WaitingTyped
<1>8. VotingTypes'
  <2>1. VotesTyped'
    BY <1>1, <1>3 DEF VotingTypes, VotesTyped, databases
  <2>2. WaitingTyped'
    BY <1>4, <1>5, <1>7 DEF VotingTypes, WaitingTyped
  <2>3. HistoryTyped'
    BY <1>1 DEF VotingTypes, HistoryTyped, history
  <2> QED BY <2>1, <2>2, <2>3 DEF VotingTypes
<1>9. Covered'
  BY <1>1, <1>5, CoveredKept
<1>10. WaitingVotes'
  <2>1. priority' = priority
    BY <1>1 DEF databases
  <2>2. \A u \in Range(v.with) : priority[u] = NoVote /\ v.by \in Delegates[u]
    <3>1. \A u \in Range(found.wallets) : u \in Wallet
      BY <1>3, RangeWallets
    <3> QED BY <1>2, <1>4, <3>1 DEF Charged
  <2>3. \A x, y \in waiting'.votes : x.by = y.by /\ x.id = y.id => x = y
    BY <1>1, <1>4, <1>5 DEF WaitingVotes
  <2>4. \A x \in waiting'.votes : \A u \in Range(x.with) :
            priority'[u] = NoVote /\ x.by \in Delegates[u]
    BY <1>5, <2>1, <2>2 DEF WaitingVotes
  <2> QED BY <2>3, <2>4 DEF WaitingVotes
<1>11. RecipientsDelegated' /\ OwnRecorded' /\ OwnVotePrevails' /\ VotesDelegated'
  BY <1>1, DatabasesKept
<1>12. PaidAhead'
  <2> SUFFICES ASSUME NEW u \in Wallet
               PROVE  Paid(u)' >= VoteFee * (Cardinality(ThroughOthers(u)') + Cardinality(WaitingFor(u)'))
    BY DEF PaidAhead
  <2>1. ThroughOthers(u)' = ThroughOthers(u)
    BY <1>1 DEF ThroughOthers, databases, history
  <2>2. /\ Cardinality(ThroughOthers(u)) \in Nat /\ IsFiniteSet(WaitingFor(u))
        /\ Cardinality(WaitingFor(u)) \in Nat /\ Paid(u) \in Int
    BY CountsFinite
  <2> DEFINE a == Cardinality(ThroughOthers(u))
             b == Cardinality(WaitingFor(u))
  <2>3. Paid(u) >= VoteFee * (a + b)
    BY DEF PaidAhead
  <2>4. found.fund[u] <= fund[u] /\ (u \in Range(v.with) => found.fund[u] + VoteFee <= fund[u])
    BY <1>2, <1>4 DEF Charged
  <2>5. FirstCoins[u] \in Nat /\ coins[u] \in Nat /\ fund[u] \in Nat /\ found.fund[u] \in Nat
        /\ VoteFee \in Nat
    BY <1>3, VotingAssumption, HoldingAssumption DEF VotingTypes, VotesTyped
  <2>6. Paid(u)' = FirstCoins[u] - (coins[u] + found.fund[u])
        /\ Paid(u) = FirstCoins[u] - (coins[u] + fund[u])
    BY <1>1 DEF Paid
  <2>7. CASE u \in Range(v.with)
    <3>1. WaitingFor(u)' = WaitingFor(u) \union {v}
      BY <1>5, <2>7 DEF WaitingFor
    <3>2. v \notin WaitingFor(u)
      BY <1>6 DEF WaitingFor
    <3>3. Cardinality(WaitingFor(u)') = b + 1
      BY <2>2, <3>1, <3>2, FS_AddElement
    <3>4. Paid(u)' >= Paid(u) + VoteFee
      BY <2>4, <2>5, <2>6, <2>7
    <3>5. VoteFee * (a + (b + 1)) = VoteFee * (a + b) + VoteFee /\ VoteFee * (a + b) \in Nat
      <4> HIDE DEF a, b
      <4> QED BY <2>2, <2>5 DEF a, b
    <3>6. Paid(u)' \in Int
      BY <2>5, <2>6
    <3>7. Paid(u)' >= VoteFee * (a + (b + 1))
      <4> DEFINE x == VoteFee * (a + b)
                 y == VoteFee * (a + (b + 1))
                 q == Paid(u)
                 r == Paid(u)'
      <4>1. x \in Nat /\ y = x + VoteFee /\ q >= x /\ r >= q + VoteFee /\ q \in Int /\ r \in Int
        BY <2>2, <2>3, <3>4, <3>5, <3>6
      <4> HIDE DEF x, y, q, r
      <4>2. r >= y
        BY <2>5, <4>1
      <4> QED BY <4>2 DEF r, y
    <3> QED BY <2>1, <3>3, <3>7
  <2>8. CASE u \notin Range(v.with)
    <3>1. WaitingFor(u)' = WaitingFor(u)
      BY <1>5, <2>8 DEF WaitingFor
    <3>2. Paid(u)' >= Paid(u) /\ Paid(u)' \in Int
      BY <2>4, <2>5, <2>6
    <3>3. VoteFee * (a + b) \in Nat
      BY <2>2, <2>5
    <3> QED BY <2>1, <2>2, <2>3, <3>1, <3>2, <3>3
  <2> QED BY <2>7, <2>8
<1> QED BY <1>8, <1>9, <1>10, <1>11, <1>12

(* A delegation is pre-processed.                                          *)
LEMMA DelegateKeeps ==
    ASSUME AuthorisedInv, NEW m \in MayDelegate, NEW deposit \in Deposits, Delegate(m, deposit)
    PROVE  AuthorisedInv'
<1> USE DEF AuthorisedInv
<1>1. /\ coins[m.by] + fund[m.by] >= deposit
      /\ coins' = [coins EXCEPT ![m.by] = @ + fund[m.by] - deposit]
      /\ fund' = [fund EXCEPT ![m.by] = deposit]
      /\ waiting' = [waiting EXCEPT !.delegations = waiting.delegations \union {m}]
      /\ UNCHANGED <<amount, databases, payments, history>>
  <2>1. [waiting EXCEPT !.delegations = @ \union {m}]
            = [waiting EXCEPT !.delegations = waiting.delegations \union {m}]
    OBVIOUS
  <2> QED BY <2>1 DEF Delegate
<1>2. /\ waiting'.votes = waiting.votes /\ waiting'.delegations = waiting.delegations \union {m}
      /\ waiting'.payments = waiting.payments /\ DOMAIN waiting' = DOMAIN waiting
  BY <1>1, WaitingParts DEF VotingTypes
<1>3. /\ m.by \in Wallet /\ deposit \in Nat
      /\ coins \in [Wallet -> Nat] /\ fund \in [Wallet -> Nat]
  BY VotingAssumption DEF VotingTypes, VotesTyped
<1>4. coins[m.by] + fund[m.by] - deposit \in Nat
  BY <1>1, <1>3
<1>5. coins' \in [Wallet -> Nat] /\ fund' \in [Wallet -> Nat]
  BY <1>1, <1>3, <1>4
<1>6. VotingTypes'
  <2>1. VotesTyped'
    BY <1>1, <1>5 DEF VotingTypes, VotesTyped, databases
  <2>2. IsFiniteSet(waiting'.delegations)
    BY <1>2, FS_AddElement DEF VotingTypes, WaitingTyped
  <2>3. WaitingTyped'
    BY <1>2, <2>2 DEF VotingTypes, WaitingTyped
  <2>4. HistoryTyped'
    BY <1>1 DEF VotingTypes, HistoryTyped, history
  <2> QED BY <2>1, <2>3, <2>4 DEF VotingTypes
<1>7. Covered'
  BY <1>1, <1>2, CoveredKept
<1>8. WaitingVotes'
  BY <1>1, <1>2 DEF WaitingVotes, databases
<1>9. RecipientsDelegated' /\ OwnRecorded' /\ OwnVotePrevails' /\ VotesDelegated'
  BY <1>1, DatabasesKept
<1>10. PaidAhead'
  <2> SUFFICES ASSUME NEW u \in Wallet
               PROVE  Paid(u)' >= VoteFee * (Cardinality(ThroughOthers(u)') + Cardinality(WaitingFor(u)'))
    BY DEF PaidAhead
  <2>1. ThroughOthers(u)' = ThroughOthers(u)
    BY <1>1 DEF ThroughOthers, databases, history
  <2>2. WaitingFor(u)' = WaitingFor(u)
    BY <1>2 DEF WaitingFor
  <2>3. coins[u] + fund[u] = coins'[u] + fund'[u]
    <3>1. CASE u = m.by
      BY <1>1, <1>3, <1>4, <3>1
    <3>2. CASE u # m.by
      BY <1>1, <1>3, <3>2
    <3> QED BY <3>1, <3>2
  <2>4. Paid(u)' = Paid(u)
    BY <2>3 DEF Paid
  <2> QED BY <2>1, <2>2, <2>4 DEF PaidAhead
<1> QED BY <1>6, <1>7, <1>8, <1>9, <1>10

(* A payment moves what it moves, and is covered.                          *)
LEMMA PaymentCovered ==
    ASSUME VotingTypes, Covered, NEW from \in Wallet, NEW to \in Wallet, NEW i \in Instrument,
           NEW n \in Nat, from # to,
           n + Change(waiting.payments, from, i).out
               <= Balance(from, i) + Change(waiting.payments, from, i).in,
           \A x \in waiting.payments : x.from # from,
           waiting'.payments = waiting.payments \union
               {[from |-> from, to |-> to, in |-> i, amount |-> n]},
           amount' = amount
    PROVE  Covered'
<1> DEFINE y == [from |-> from, to |-> to, in |-> i, amount |-> n]
           pay == waiting.payments
<1>1. pay \in SUBSET APayment /\ IsFiniteSet(pay)
  BY DEF VotingTypes, WaitingTyped
<1>2. y \in APayment /\ y \notin pay
  BY DEF APayment
<1>3. \A w, j : Balance(w, j)' = Balance(w, j)
  BY DEF Balance
<1>4. ASSUME NEW w \in Wallet, NEW j \in Instrument
      PROVE  NewBalance(w, j)' = NewBalance(w, j) + (IF w = to /\ j = i THEN n ELSE 0)
                                     - (IF w = from /\ j = i THEN n ELSE 0)
  <2>1. \A side \in {"to", "from"} :
            MovedOn(pay \union {y}, side, w, j) =
                MovedOn(pay, side, w, j) + (IF y[side] = w /\ y.in = j THEN y.amount ELSE 0)
    <3> HIDE DEF pay, y
    <3> QED BY <1>1, <1>2, MovedMore
  <2>2. MovedOn(pay, "to", w, j) \in Nat /\ MovedOn(pay, "from", w, j) \in Nat
    BY <1>1, MovedType
  <2>3. /\ NewBalance(w, j) = Balance(w, j) + MovedOn(pay, "to", w, j) - MovedOn(pay, "from", w, j)
        /\ NewBalance(w, j)' = Balance(w, j) + MovedOn(pay \union {y}, "to", w, j)
                                   - MovedOn(pay \union {y}, "from", w, j)
    BY <1>3, ChangeIs DEF NewBalance
  <2>4. Balance(w, j) \in Nat
    BY NewBalanceIs
  <2>5. /\ MovedOn(pay \union {y}, "to", w, j) =
               MovedOn(pay, "to", w, j) + (IF w = to /\ j = i THEN n ELSE 0)
        /\ MovedOn(pay \union {y}, "from", w, j) =
               MovedOn(pay, "from", w, j) + (IF w = from /\ j = i THEN n ELSE 0)
    BY <2>1
  <2> HIDE DEF pay, y
  <2> QED BY <2>2, <2>3, <2>4, <2>5
<1>5. NewBalance(from, i) >= n
  BY NewBalanceIs
<1>6. \A w \in Wallet, j \in Instrument : NewBalance(w, j) \in Int /\ NewBalance(w, j) >= 0
  BY NewBalanceIs DEF Covered
<1> HIDE DEF y, pay
<1>7. \A w \in Wallet, j \in Instrument : NewBalance(w, j)' \in Int /\ NewBalance(w, j)' >= 0
  <2> SUFFICES ASSUME NEW w \in Wallet, NEW j \in Instrument
               PROVE  NewBalance(w, j)' \in Int /\ NewBalance(w, j)' >= 0
    OBVIOUS
  <2>1. NewBalance(w, j) \in Int /\ NewBalance(w, j) >= 0
    BY <1>6
  <2>2. CASE w = from /\ j = i
    BY <1>4, <1>5, <2>1, <2>2
  <2>3. CASE ~ (w = from /\ j = i)
    BY <1>4, <2>1, <2>3
  <2> QED BY <2>2, <2>3
<1>8. ASSUME NEW j \in Instrument
      PROVE  SumFunction([w \in Wallet |-> NewBalance(w, j)])' = Supply(j)
  <2> DEFINE f == [w \in Wallet |-> NewBalance(w, j)]
             g == [w \in Wallet |-> IF w = from /\ j = i THEN NewBalance(w, j) - n
                                                         ELSE NewBalance(w, j)]
             k == [w \in Wallet |-> NewBalance(w, j)']
  <2>1. \A w \in Wallet : f[w] \in Int /\ g[w] \in Int /\ k[w] \in Int
    BY <1>6, <1>7
  <2>2. \A w \in Wallet : w # from => g[w] = f[w]
    OBVIOUS
  <2>3. \A w \in Wallet : w # to => k[w] = g[w]
    <3> SUFFICES ASSUME NEW w \in Wallet, w # to PROVE k[w] = g[w]
      OBVIOUS
    <3>1. NewBalance(w, j)' = NewBalance(w, j) - (IF w = from /\ j = i THEN n ELSE 0)
      BY <1>4, <1>6
    <3> QED BY <1>6, <3>1
  <2>4. /\ g[from] = f[from] - (IF j = i THEN n ELSE 0)
        /\ k[to] = g[to] + (IF j = i THEN n ELSE 0)
    <3>1. NewBalance(to, j)' = NewBalance(to, j) + (IF j = i THEN n ELSE 0)
      BY <1>4, <1>6
    <3> QED BY <1>6, <3>1
  <2>5. DOMAIN f = Wallet /\ DOMAIN k = Wallet
    OBVIOUS
  <2>6. SumFunctionOnSet(f, Wallet) = Supply(j)
    BY <2>5, Zenon DEF Covered, SumFunction
  <2>7. SumFunction([w \in Wallet |-> NewBalance(w, j)])' = SumFunctionOnSet(k, Wallet)
    BY <2>5, Zenon DEF SumFunction
  <2> HIDE DEF f, g, k
  <2>8. SumFunctionOnSet(g, Wallet) = SumFunctionOnSet(f, Wallet) + g[from] - f[from]
    BY <2>1, <2>2, WalletSum
  <2>9. SumFunctionOnSet(k, Wallet) = SumFunctionOnSet(g, Wallet) + k[to] - g[to]
    BY <2>1, <2>3, WalletSum
  <2>10. SumFunctionOnSet(f, Wallet) \in Int
    BY <2>1, VotingAssumption, SumInt
  <2>11. SumFunctionOnSet(k, Wallet) = SumFunctionOnSet(f, Wallet)
    BY <2>1, <2>4, <2>8, <2>9, <2>10
  <2> QED BY <2>6, <2>7, <2>11
<1>9. \A j \in Instrument : Supply(j)' = Supply(j)
  BY DEF Supply
<1>10. \A j \in Instrument :
          /\ \A w \in Wallet : NewBalance(w, j)' >= 0
          /\ SumFunction([w \in Wallet |-> NewBalance(w, j)])' = Supply(j)'
  BY <1>7, <1>8, <1>9, Zenon
<1> QED BY <1>10, Zenon DEF Covered

(* A payment is pre-processed.                                             *)
LEMMA PayKeeps ==
    ASSUME AuthorisedInv, NEW from \in Wallet, NEW to \in Wallet, NEW i \in Instrument,
           NEW n \in 1 .. Balance(from, i), Pay(from, to, i, n)
    PROVE  AuthorisedInv'
<1> DEFINE y == [from |-> from, to |-> to, in |-> i, amount |-> n]
<1> USE DEF AuthorisedInv
<1>1. /\ from # to
      /\ n + Change(waiting.payments, from, i).out
             <= Balance(from, i) + Change(waiting.payments, from, i).in
      /\ \A x \in waiting.payments : x.from # from
      /\ waiting' = [waiting EXCEPT !.payments = waiting.payments \union {y}]
      /\ UNCHANGED <<amount, coins, fund, databases, history>>
  <2>1. [waiting EXCEPT !.payments = @ \union {y}]
            = [waiting EXCEPT !.payments = waiting.payments \union {y}]
    OBVIOUS
  <2>2. /\ from # to
        /\ n + Change(waiting.payments, from, i).out
               <= Balance(from, i) + Change(waiting.payments, from, i).in
        /\ \A x \in waiting.payments : x.from # from
        /\ waiting' = [waiting EXCEPT !.payments = @ \union {y}]
        /\ UNCHANGED <<amount, coins, fund, databases, history>>
    BY Zenon DEF Pay
  <2> HIDE DEF y
  <2> QED BY <2>1, <2>2
<1>2. /\ waiting'.votes = waiting.votes /\ waiting'.delegations = waiting.delegations
      /\ waiting'.payments = waiting.payments \union {y} /\ DOMAIN waiting' = DOMAIN waiting
  BY <1>1, WaitingParts DEF VotingTypes
<1>3. n \in Nat /\ y \in APayment
  <2>1. Balance(from, i) \in Nat
    BY NewBalanceIs
  <2> QED BY <2>1 DEF APayment
<1>4. VotingTypes'
  <2>1. VotesTyped'
    BY <1>1 DEF VotingTypes, VotesTyped, databases
  <2> HIDE DEF y
  <2>2. IsFiniteSet(waiting'.payments)
    BY <1>2, FS_AddElement DEF VotingTypes, WaitingTyped
  <2>3. WaitingTyped'
    BY <1>2, <1>3, <2>2 DEF VotingTypes, WaitingTyped
  <2>4. HistoryTyped'
    BY <1>1 DEF VotingTypes, HistoryTyped, history
  <2> QED BY <2>1, <2>3, <2>4 DEF VotingTypes
<1>5. Covered'
  BY <1>1, <1>2, <1>3, PaymentCovered
<1> HIDE DEF y
<1>6. WaitingVotes'
  BY <1>1, <1>2 DEF WaitingVotes, databases
<1>7. RecipientsDelegated' /\ OwnRecorded' /\ OwnVotePrevails' /\ VotesDelegated'
  BY <1>1, DatabasesKept
<1>8. PaidAhead'
  <2> SUFFICES ASSUME NEW u \in Wallet
               PROVE  Paid(u)' >= VoteFee * (Cardinality(ThroughOthers(u)') + Cardinality(WaitingFor(u)'))
    BY DEF PaidAhead
  <2>1. ThroughOthers(u)' = ThroughOthers(u)
    BY <1>1 DEF ThroughOthers, databases, history
  <2>2. WaitingFor(u)' = WaitingFor(u)
    BY <1>2 DEF WaitingFor
  <2>3. Paid(u)' = Paid(u)
    BY <1>1 DEF Paid
  <2> QED BY <2>1, <2>2, <2>3 DEF PaidAhead
<1> QED BY <1>4, <1>5, <1>6, <1>7, <1>8

(* Recipients of delegations that were made.                               *)
MadeRecipients ==
    {r \in [Wallet -> Seq([by : Wallet, priority : Nat])] :
        \A w \in Wallet : \A k \in DOMAIN r[w] :
            \E m \in MayDelegate : m.by = r[w][k].by /\ m.to = w}

(* One delegation is noted.                                                *)
LEMMA DelegationNoted ==
    ASSUME NEW r \in MadeRecipients, NEW m \in MayDelegate
    PROVE  [r EXCEPT ![m.to] = Noted(@, m)] \in MadeRecipients
<1> DEFINE Rec == [by : Wallet, priority : Nat]
           list == r[m.to]
           new == [by |-> m.by, priority |-> m.priority]
           note == Noted(list, m)
<1>1. m.by \in Wallet /\ m.to \in Wallet /\ new \in Rec
  BY VotingAssumption
<1>2. /\ r \in [Wallet -> Seq(Rec)] /\ list \in Seq(Rec)
      /\ \A k \in DOMAIN list : \E x \in MayDelegate : x.by = list[k].by /\ x.to = m.to
  BY <1>1 DEF MadeRecipients
<1>3. DOMAIN list = 1 .. Len(list) /\ Len(list) \in Nat /\ \A k \in DOMAIN list : list[k] \in Rec
  BY <1>2, LenProperties, ElementOfSeq
<1>4. new.by = m.by
  OBVIOUS
<1> HIDE DEF list, new, Rec
<1>5. /\ note \in Seq(Rec)
      /\ \A k \in DOMAIN note : \E x \in MayDelegate : x.by = note[k].by /\ x.to = m.to
  <2>1. CASE \E k \in DOMAIN list : list[k].by = m.by
    <3>1. note = [k \in DOMAIN list |-> IF list[k].by = m.by THEN new ELSE list[k]]
      BY <2>1, Zenon DEF Noted, new
    <3> HIDE DEF note
    <3>2. \A k \in DOMAIN list : note[k] \in Rec
      BY <1>1, <1>3, <3>1
    <3>3. note \in [1 .. Len(list) -> Rec]
      BY <1>3, <3>1, <3>2
    <3>4. \A k \in DOMAIN note : \E x \in MayDelegate : x.by = note[k].by /\ x.to = m.to
      BY <1>2, <1>4, <3>1
    <3> QED BY <1>3, <3>3, <3>4
  <2>2. CASE ~ \E k \in DOMAIN list : list[k].by = m.by
    <3>1. note = Append(list, new)
      BY <2>2, Zenon DEF Noted, new
    <3> HIDE DEF note
    <3>2. note \in Seq(Rec) /\ Range(note) = Range(list) \union {new}
      BY <1>1, <1>2, <3>1, RangeAppend
    <3>3. \A e \in Range(note) : \E x \in MayDelegate : x.by = e.by /\ x.to = m.to
      BY <1>2, <1>4, <3>2 DEF Range
    <3>4. \A k \in DOMAIN note : note[k] \in Range(note)
      BY DEF Range
    <3> QED BY <3>2, <3>3, <3>4
  <2> QED BY <2>1, <2>2
<1>6. [r EXCEPT ![m.to] = Noted(@, m)] = [r EXCEPT ![m.to] = note]
  BY DEF list
<1> HIDE DEF note
<1>7. [r EXCEPT ![m.to] = note] \in [Wallet -> Seq(Rec)]
  BY <1>1, <1>2, <1>5
<1>8. \A w \in Wallet : [r EXCEPT ![m.to] = note][w] = IF w = m.to THEN note ELSE r[w]
  BY <1>2
<1> DEFINE e == [r EXCEPT ![m.to] = note]
<1> HIDE DEF e
<1>9. \A w \in Wallet : \A k \in DOMAIN e[w] :
            \E x \in MayDelegate : x.by = e[w][k].by /\ x.to = w
  BY <1>5, <1>8 DEF MadeRecipients, e
<1>10. e \in [Wallet -> Seq(Rec)]
  BY <1>7 DEF e
<1>11. e \in MadeRecipients
  BY <1>9, <1>10 DEF MadeRecipients, Rec
<1>12. [r EXCEPT ![m.to] = Noted(@, m)] = e
  BY <1>6 DEF e
<1> QED BY <1>11, <1>12

(* The delegations of a block are noted.                                   *)
LEMMA BatchDelegations ==
    ASSUME VotingTypes, RecipientsDelegated
    PROVE  batch_delegated_voting \in MadeRecipients
<1> DEFINE S == waiting.delegations
           D == MadeRecipients
           F == [z \in S \X D |-> [z[2] EXCEPT ![z[1].to] = Noted(@, z[1])]]
           Eq(h) == h = [s \in SUBSET S |->
                          IF s = {} THEN recipients
                          ELSE [h[s \ {Pick(s)}] EXCEPT ![Pick(s).to] = Noted(@, Pick(s))]]
           h == CHOOSE f : Eq(f)
<1>1. S \subseteq MayDelegate /\ IsFiniteSet(S)
  BY DEF VotingTypes, WaitingTyped
<1>2. recipients \in D
  BY DEF VotingTypes, VotesTyped, RecipientsDelegated, MadeRecipients
<1>3. \A m \in S, r \in D : [r EXCEPT ![m.to] = Noted(@, m)] \in D
  BY <1>1, DelegationNoted
<1>4. batch_delegated_voting = h[S]
  BY DEF batch_delegated_voting, FoldSet, MapThenFoldSet, Pick
<1> HIDE DEF D
<1>5. F \in [S \X D -> D]
  BY <1>3
<1>6. \A m \in S, r \in D : F[<<m, r>>] = [r EXCEPT ![m.to] = Noted(@, m)]
  OBVIOUS
<1> HIDE DEF S, F
<1>7. PICK g : IsIter(g, F, recipients, S)
  BY <1>1, IterExists
<1>8. \A s \in SUBSET S : g[s] \in D
  BY <1>1, <1>2, <1>5, <1>7, IterIn
<1>9. Eq(g)
  <2>1. \A s \in SUBSET S : s # {} =>
            F[<<Pick(s), g[s \ {Pick(s)}]>>] =
                [g[s \ {Pick(s)}] EXCEPT ![Pick(s).to] = Noted(@, Pick(s))]
    BY <1>6, <1>8, PickIn
  <2> QED BY <1>7, <2>1 DEF IsIter
<1>10. Eq(h)
  BY <1>9
<1> HIDE DEF h
<1> DEFINE Q == [s \in SUBSET S |-> D]
<1>11. \A s \in SUBSET S : s # {} =>
          (h[s \ {Pick(s)}] \in Q[s \ {Pick(s)}] => h[s] \in Q[s])
  <2> SUFFICES ASSUME NEW s \in SUBSET S, s # {}, h[s \ {Pick(s)}] \in D
               PROVE  h[s] \in D
    OBVIOUS
  <2>1. h[s] = [h[s \ {Pick(s)}] EXCEPT ![Pick(s).to] = Noted(@, Pick(s))]
    BY <1>10
  <2>2. Pick(s) \in S
    BY PickIn
  <2> QED BY <1>3, <2>1, <2>2
<1>12. h[{}] \in Q[{}]
  BY <1>2, <1>10
<1> HIDE DEF Q
<1>13. h[S] \in Q[S]
  BY <1>1, <1>11, <1>12, FoldReaches
<1>14. Q[S] = D
  BY DEF Q
<1> QED BY <1>4, <1>13, <1>14 DEF D

(* What payments bring to a wallet, and whose payments adjust a tally.     *)
Brought(i) == [w \in Wallet |-> Change(waiting.payments, w, i).in
                                    - Change(waiting.payments, w, i).out]
Adjusting(p, c, i) == {w \in Wallet : Adjusts(w, i, p) /\ given[w][p] = c}

(* An adjusted tally has changed by what the payments bring to those who   *)
(* are counted in it, but for multiples of the width.                      *)
LEMMA Adjustment ==
    ASSUME VotingTypes, NEW p \in Proposal, NEW c \in Choice, NEW i \in Instrument
    PROVE  LET n == adjust_proposal_votes(p, c, i)
               S == Adjusting(p, c, i)
           IN  /\ S = {} => n = tally[p][c][i]
               /\ S # {} =>
                     /\ tally[p][c][i] \in Nat /\ n \in 0 .. (Wrap - 1)
                     /\ Congruent(n, tally[p][c][i] + SumFunctionOnSet(Brought(i), S), Wrap)
<1> DEFINE S == Adjusting(p, c, i)
           base == tally[p][c][i]
           delta == Brought(i)
           Step(w, n) == LET x == Change(waiting.payments, w, i) IN (n + x.in - x.out) % Wrap
           F == [z \in S \X Int |-> Step(z[1], z[2])]
           Eq(h) == h = [s \in SUBSET S |-> IF s = {} THEN base
                                            ELSE Step(Pick(s), h[s \ {Pick(s)}])]
           h == CHOOSE f : Eq(f)
           n == adjust_proposal_votes(p, c, i)
<1>1. n = h[S]
  BY DEF adjust_proposal_votes, FoldSet, MapThenFoldSet, Pick, Adjusting
<1>2. S \subseteq Wallet /\ IsFiniteSet(S)
  BY VotingAssumption, FS_Subset DEF Adjusting
<1>3. \A w \in Wallet : /\ Change(waiting.payments, w, i).in \in Nat
                        /\ Change(waiting.payments, w, i).out \in Nat
  BY NewBalanceIs
<1>4. \A w \in Wallet : delta[w] \in Int
  BY <1>3 DEF Brought
<1>5. Wrap \in Nat \ {0}
  BY VotingAssumption
<1>6. \A w \in Wallet, m \in Int :
          /\ Step(w, m) \in 0 .. (Wrap - 1)
          /\ Congruent(Step(w, m), m + delta[w], Wrap)
  <2> SUFFICES ASSUME NEW w \in Wallet, NEW m \in Int
               PROVE  /\ Step(w, m) \in 0 .. (Wrap - 1)
                      /\ Congruent(Step(w, m), m + delta[w], Wrap)
    OBVIOUS
  <2> DEFINE x == Change(waiting.payments, w, i)
  <2>1. x.in \in Nat /\ x.out \in Nat
    BY <1>3
  <2>2. delta[w] = x.in - x.out
    BY DEF Brought
  <2>3. Step(w, m) = (m + x.in - x.out) % Wrap
    OBVIOUS
  <2> HIDE DEF x, delta, Step
  <2>4. m + x.in - x.out = m + delta[w] /\ m + delta[w] \in Int
    BY <2>1, <2>2
  <2>5. Step(w, m) = (m + delta[w]) % Wrap
    BY <2>3, <2>4
  <2> QED BY <1>5, <2>4, <2>5, RemainderCongruent
<1>7. base \in Nat \union {NoKey}
  BY DEF VotingTypes, VotesTyped
<1>8. S # {} => base \in Nat
  BY <1>7 DEF Adjusting, Adjusts
<1> HIDE DEF S, base, delta, Step, n
<1>9. CASE S = {}
  <2> DEFINE k == [s \in SUBSET S |-> base]
  <2>1. \A s \in SUBSET S : s = {}
    BY <1>9
  <2>2. Eq(k)
    BY <2>1
  <2>3. Eq(h)
    BY <2>2
  <2> HIDE DEF h
  <2>4. h[S] = base
    BY <1>9, <2>3
  <2> QED BY <1>1, <1>9, <2>4 DEF S, base, n
<1>10. CASE S # {}
  <2>1. base \in Int /\ base \in Nat
    BY <1>8, <1>10
  <2>2. \A w \in S, m \in Int : Step(w, m) \in Int
    BY <1>2, <1>5, <1>6
  <2>3. F \in [S \X Int -> Int] /\ \A w \in S, m \in Int : F[<<w, m>>] = Step(w, m)
    BY <2>2
  <2> HIDE DEF F
  <2>4. PICK g : IsIter(g, F, base, S)
    BY <1>2, IterExists
  <2>5. \A s \in SUBSET S : g[s] \in Int
    BY <1>2, <2>1, <2>3, <2>4, IterIn
  <2>6. Eq(g)
    <3>1. \A s \in SUBSET S : s # {} =>
              F[<<Pick(s), g[s \ {Pick(s)}]>>] = Step(Pick(s), g[s \ {Pick(s)}])
      BY <2>3, <2>5, PickIn
    <3> QED BY <2>4, <3>1 DEF IsIter
  <2>7. Eq(h)
    BY <2>6
  <2> HIDE DEF h
  <2> DEFINE Q == [s \in SUBSET S |->
                      {m \in Int : /\ s # {} => m \in 0 .. (Wrap - 1)
                                   /\ Congruent(m, base + SumFunctionOnSet(delta, s), Wrap)}]
  <2>8. h[{}] \in Q[{}]
    <3>1. h[{}] = base
      BY <2>7
    <3>2. base + SumFunctionOnSet(delta, {}) = base + 0 * Wrap /\ 0 \in Int
      BY <1>5, <2>1, SumEmpty
    <3>3. base = (base + SumFunctionOnSet(delta, {})) + 0 * Wrap
      BY <1>5, <2>1, <3>2
    <3>4. Congruent(base, base + SumFunctionOnSet(delta, {}), Wrap)
      BY <3>3 DEF Congruent
    <3> QED BY <2>1, <3>1, <3>4
  <2>9. \A s \in SUBSET S : s # {} =>
            (h[s \ {Pick(s)}] \in Q[s \ {Pick(s)}] => h[s] \in Q[s])
    <3> SUFFICES ASSUME NEW s \in SUBSET S, s # {}, h[s \ {Pick(s)}] \in Q[s \ {Pick(s)}]
                 PROVE  h[s] \in Q[s]
      OBVIOUS
    <3> DEFINE w == Pick(s)
               u == s \ {w}
               m == h[u]
               sum == SumFunctionOnSet(delta, u)
    <3>1. w \in S /\ w \in Wallet /\ u \in SUBSET S
      BY <1>2, PickIn
    <3>2. m \in Int /\ Congruent(m, base + sum, Wrap)
      <4>1. m \in Q[u]
        OBVIOUS
      <4> HIDE DEF m, u, w
      <4> QED BY <3>1, <4>1
    <3>3. h[s] = Step(w, m)
      BY <2>7
    <3>4. IsFiniteSet(s) /\ IsFiniteSet(u) /\ \A x \in u : delta[x] \in Int
      BY <1>2, <1>4, FS_Subset
    <3>5. SumFunctionOnSet(delta, s) = delta[w] + sum
      BY <3>4, SumPick
    <3> HIDE DEF m, w, u
    <3>6. sum \in Int
      BY <3>4, SumInt
    <3>7. delta[w] \in Int
      BY <1>4, <3>1
    <3> HIDE DEF sum
    <3>8. Step(w, m) \in 0 .. (Wrap - 1) /\ Congruent(Step(w, m), m + delta[w], Wrap)
      BY <1>6, <3>1, <3>2
    <3>9. Step(w, m) \in Int /\ base + sum \in Int /\ Wrap \in Nat
      BY <1>5, <2>1, <3>6, <3>8
    <3>10. Congruent(Step(w, m), (base + sum) + delta[w], Wrap)
      BY <3>2, <3>7, <3>8, <3>9, CongruentAdd
    <3>11. (base + sum) + delta[w] = base + SumFunctionOnSet(delta, s)
      BY <2>1, <3>5, <3>6, <3>7
    <3> QED BY <3>3, <3>8, <3>9, <3>10, <3>11
  <2> HIDE DEF Q
  <2>10. h[S] \in Q[S]
    BY <1>2, <2>8, <2>9, FoldReaches
  <2>11. h[S] \in 0 .. (Wrap - 1) /\ Congruent(h[S], base + SumFunctionOnSet(delta, S), Wrap)
    BY <1>10, <2>10 DEF Q
  <2> QED BY <1>1, <1>8, <1>10, <2>11 DEF S, base, delta, n
<1> QED BY <1>9, <1>10

(* What is left of the proposals after a block.                            *)
LEMMA AdjustmentType ==
    ASSUME VotingTypes, NEW p \in Proposal, NEW c \in Choice, NEW i \in Instrument
    PROVE  adjust_proposal_votes(p, c, i) \in Nat \union {NoKey}
<1>1. tally[p][c][i] \in Nat \union {NoKey}
  BY DEF VotingTypes, VotesTyped
<1>2. \A n \in 0 .. (Wrap - 1) : n \in Nat
  BY VotingAssumption
<1>3. adjust_proposal_votes(p, c, i) = tally[p][c][i]
      \/ adjust_proposal_votes(p, c, i) \in 0 .. (Wrap - 1)
  BY Adjustment
<1> QED BY <1>1, <1>2, <1>3

(* A block is stored: what becomes of each database.                       *)
LEMMA StoreTxnsIs ==
    ASSUME VotingTypes, Covered, WaitingVotes, StoreTxns
    PROVE  \E d : /\ BlockCounted(d) /\ tally' = AfterAdjustment(d.tally)
                  /\ given' = d.given /\ priority' = d.priority
<1>1. PICK order \in SetToSeqs(waiting.votes) :
          LET d == batch_votes(order) IN
          tally' = AfterAdjustment(d.tally) /\ given' = d.given /\ priority' = d.priority
  BY DEF StoreTxns
<1>2. BlockCounted(batch_votes(order))
  BY BlockVotes
<1> QED BY <1>1, <1>2

(* The balances after the block.                                           *)
LEMMA StoreTxnsBalances ==
    ASSUME VotingTypes, Covered, StoreTxns, NEW w \in Wallet, NEW i \in Instrument
    PROVE  /\ amount'[w][i] = NewAmount(w, i) /\ amount'[w][i] \in Nat \union {NoKey}
           /\ amount[w][i] # NoKey => amount'[w][i] # NoKey
           /\ NewBalance(w, i)' = NewBalance(w, i) /\ Balance(w, i)' = NewBalance(w, i)
           /\ Change(waiting.payments, w, i)' = [in |-> 0, out |-> 0]
<1>1. amount'[w][i] = NewAmount(w, i)
  BY DEF StoreTxns, store_wallets
<1>2. /\ NewAmount(w, i) = NoKey => amount[w][i] = NoKey
      /\ NewAmount(w, i) \in Nat \union {NoKey}
      /\ NewBalance(w, i) = IF NewAmount(w, i) = NoKey THEN 0 ELSE NewAmount(w, i)
  BY NewBalanceIs DEF Covered
<1>3. waiting'.payments = {}
  BY DEF StoreTxns
<1>4. Change(waiting.payments, w, i)' = [in |-> 0, out |-> 0]
  <2>1. Change(waiting'.payments, w, i) = [in |-> 0, out |-> 0]
    BY <1>3, ChangeIs, MovedNothing
  <2>2. Change(waiting.payments, w, i)' = Change(waiting'.payments, w, i)
    BY DEF Change
  <2> QED BY <2>1, <2>2
<1>5. Balance(w, i)' = NewBalance(w, i)
  BY <1>1, <1>2 DEF Balance
<1>6. Balance(w, i)' \in Nat
  BY <1>1, <1>2 DEF Balance
<1>7. NewBalance(w, i)' = Balance(w, i)'
  BY <1>4, <1>6 DEF NewBalance
<1> QED BY <1>1, <1>2, <1>4, <1>5, <1>7

(* The choice a wallet voted itself.                                       *)
LEMMA StoreTxnsOwn ==
    ASSUME VotingTypes, WaitingVotes, StoreTxns, NEW w \in Wallet, NEW p \in Proposal
    PROVE  /\ \A v \in waiting.votes : v.by = w /\ v.id = p => own'[w][p] = v.choice
           /\ (\A v \in waiting.votes : ~ (v.by = w /\ v.id = p)) => own'[w][p] = own[w][p]
           /\ cast[w][p] \subseteq cast'[w][p]
           /\ \A v \in waiting.votes : v.by = w /\ v.id = p => v.choice \in cast'[w][p]
           /\ cast'[w][p] \subseteq Choice
           /\ own'[w][p] \in Choice \union {NoVote}
           /\ raced'[w][p] = (raced[w][p] \/ (VotedFor(w, p) /\
                                 \E v \in waiting.votes : v.by = w /\ v.id = p))
<1> DEFINE mine == \E v \in waiting.votes : v.by = w /\ v.id = p
           pick == CHOOSE v \in waiting.votes : v.by = w /\ v.id = p
<1>1. own'[w][p] = IF mine THEN pick.choice ELSE own[w][p]
  BY DEF StoreTxns
<1>2. cast'[w][p] = cast[w][p] \union
          {v.choice : v \in {x \in waiting.votes : x.by = w /\ x.id = p}}
  BY DEF StoreTxns
<1>3. raced'[w][p] = (raced[w][p] \/ (VotedFor(w, p) /\ mine))
  BY DEF StoreTxns
<1>4. \A v \in waiting.votes : v.choice \in Choice
  BY DEF VotingTypes, WaitingTyped, AVote
<1>5. mine => pick \in waiting.votes /\ pick.by = w /\ pick.id = p
  OBVIOUS
<1> HIDE DEF pick
<1>6. \A v \in waiting.votes : v.by = w /\ v.id = p => pick = v
  BY <1>5 DEF WaitingVotes
<1>7. cast[w][p] \subseteq Choice /\ own[w][p] \in Choice \union {NoVote}
  BY DEF VotingTypes, HistoryTyped
<1>8. \A v \in waiting.votes : v.by = w /\ v.id = p => own'[w][p] = v.choice
  BY <1>1, <1>6
<1>9. (\A v \in waiting.votes : ~ (v.by = w /\ v.id = p)) => own'[w][p] = own[w][p]
  BY <1>1
<1>10. own'[w][p] \in Choice \union {NoVote}
  BY <1>1, <1>4, <1>5, <1>7
<1>11. cast[w][p] \subseteq cast'[w][p] /\ cast'[w][p] \subseteq Choice
  BY <1>2, <1>4, <1>7
<1>12. \A v \in waiting.votes : v.by = w /\ v.id = p => v.choice \in cast'[w][p]
  BY <1>2
<1> QED BY <1>3, <1>8, <1>9, <1>10, <1>11, <1>12

(* Types.                                                                  *)
LEMMA StoreTxnsTypes ==
    ASSUME VotingTypes, Covered, WaitingVotes, RecipientsDelegated, StoreTxns
    PROVE  VotingTypes' /\ Covered' /\ RecipientsDelegated'
<1>1. PICK d : /\ BlockCounted(d) /\ tally' = AfterAdjustment(d.tally)
               /\ given' = d.given /\ priority' = d.priority
  BY StoreTxnsIs
<1>2. d \in DB
  BY <1>1 DEF BlockCounted
<1>3. tally' \in [Proposal -> Tallies]
  <2>1. \A p \in Proposal : d.tally[p] \in Tallies
    BY <1>2 DEF DB
  <2>2. \A p \in Adjusted : proposals_temp[p] \in Tallies
    BY AdjustmentType DEF proposals_temp, Tallies, Adjusted
  <2>3. tally' = [p \in Proposal |-> IF p \in Adjusted THEN proposals_temp[p] ELSE d.tally[p]]
    BY <1>1 DEF AfterAdjustment
  <2> QED BY <2>1, <2>2, <2>3
<1>4. PICK r \in MadeRecipients : recipients' = r
  <2>1. recipients' = batch_delegated_voting
    BY DEF StoreTxns
  <2> QED BY <2>1, BatchDelegations
<1>5. RecipientsDelegated' /\ recipients' \in [Wallet -> Seq([by : Wallet, priority : Nat])]
  <2>1. /\ r \in [Wallet -> Seq([by : Wallet, priority : Nat])]
        /\ \A w \in Wallet : \A k \in DOMAIN r[w] :
              \E m \in MayDelegate : m.by = r[w][k].by /\ m.to = w
    BY DEF MadeRecipients
  <2>2. RecipientsDelegated'
    BY <1>4, <2>1 DEF RecipientsDelegated
  <2> QED BY <1>4, <2>1, <2>2
<1>6. amount' \in [Wallet -> [Instrument -> Nat \union {NoKey}]]
  <2>1. \A w \in Wallet, i \in Instrument : NewAmount(w, i) \in Nat \union {NoKey}
    BY StoreTxnsBalances
  <2>2. amount' = [w \in Wallet |-> [i \in Instrument |-> NewAmount(w, i)]]
    BY DEF StoreTxns, store_wallets
  <2> QED BY <2>1, <2>2
<1>7. allowed' \subseteq Wallet
  <2>1. \A m \in waiting.delegations : m.by \in Wallet
    BY VotingAssumption DEF VotingTypes, WaitingTyped
  <2> QED BY <2>1 DEF StoreTxns, VotingTypes, VotesTyped
<1>8. VotesTyped'
  <2>1. given' \in [Wallet -> [Proposal -> Choice \union {NoVote}]]
        /\ priority' \in [Wallet -> [Proposal -> Nat \union {NoVote}] \union {NoVote}]
    BY <1>1, <1>2 DEF DB
  <2>2. coins' \in [Wallet -> Nat] /\ fund' \in [Wallet -> Nat]
    BY DEF StoreTxns, VotingTypes, VotesTyped
  <2> QED BY <1>3, <1>5, <1>6, <1>7, <2>1, <2>2 DEF VotesTyped, Tallies
<1>9. WaitingTyped'
  <2>1. waiting' = [votes |-> {}, delegations |-> {}, payments |-> {}]
    BY DEF StoreTxns
  <2> QED BY <2>1, FS_EmptySet DEF WaitingTyped
<1>10. HistoryTyped'
  <2>1. cast' \in [Wallet -> [Proposal -> SUBSET Choice]]
    <3>1. \A w \in Wallet, p \in Proposal : cast'[w][p] \in SUBSET Choice
      BY StoreTxnsOwn
    <3>2. cast' = [w \in Wallet |-> [p \in Proposal |-> cast'[w][p]]]
      BY DEF StoreTxns
    <3> QED BY <3>1, <3>2
  <2>2. own' \in [Wallet -> [Proposal -> Choice \union {NoVote}]]
    <3>1. \A w \in Wallet, p \in Proposal : own'[w][p] \in Choice \union {NoVote}
      BY StoreTxnsOwn
    <3>2. own' = [w \in Wallet |-> [p \in Proposal |-> own'[w][p]]]
      BY DEF StoreTxns
    <3> QED BY <3>1, <3>2
  <2>3. raced' \in [Wallet -> [Proposal -> BOOLEAN]]
    <3>1. \A w \in Wallet, p \in Proposal : raced'[w][p] \in BOOLEAN
      BY StoreTxnsOwn
    <3>2. raced' = [w \in Wallet |-> [p \in Proposal |-> raced'[w][p]]]
      BY DEF StoreTxns
    <3> QED BY <3>1, <3>2
  <2>4. overwritten' \subseteq Proposal
    BY DEF StoreTxns, VotingTypes, HistoryTyped, Adjusted
  <2> QED BY <2>1, <2>2, <2>3, <2>4 DEF HistoryTyped
<1>11. Covered'
  <2> SUFFICES ASSUME NEW i \in Instrument
               PROVE  /\ \A w \in Wallet : NewBalance(w, i)' >= 0
                      /\ SumFunction([w \in Wallet |-> NewBalance(w, i)])' = Supply(i)'
    BY Zenon DEF Covered
  <2>1. \A w \in Wallet : NewBalance(w, i)' = NewBalance(w, i)
    BY StoreTxnsBalances
  <2>2. [w \in Wallet |-> NewBalance(w, i)]' = [w \in Wallet |-> NewBalance(w, i)]
    BY <2>1
  <2>3. SumFunction([w \in Wallet |-> NewBalance(w, i)])' =
            SumFunction([w \in Wallet |-> NewBalance(w, i)])
    BY <2>2, Zenon
  <2>4. Supply(i)' = Supply(i)
    BY DEF Supply
  <2>5. \A w \in Wallet : NewBalance(w, i) >= 0
    BY DEF Covered
  <2>6. SumFunction([w \in Wallet |-> NewBalance(w, i)]) = Supply(i)
    BY Zenon DEF Covered
  <2>7. \A w \in Wallet : NewBalance(w, i)' >= 0
    BY <2>1, <2>5
  <2> QED BY <2>3, <2>4, <2>6, <2>7
<1> QED BY <1>5, <1>8, <1>9, <1>10, <1>11 DEF VotingTypes

(* A block is stored.                                                      *)
LEMMA StoreTxnsKeeps == ASSUME AuthorisedInv, StoreTxns PROVE AuthorisedInv'
<1> USE DEF AuthorisedInv
<1>1. PICK d : /\ BlockCounted(d) /\ tally' = AfterAdjustment(d.tally)
               /\ given' = d.given /\ priority' = d.priority
  BY StoreTxnsIs
<1>2. VotingTypes' /\ Covered' /\ RecipientsDelegated'
  BY StoreTxnsTypes
<1>3. waiting'.votes = {}
  BY DEF StoreTxns
<1>4. WaitingVotes'
  BY <1>3 DEF WaitingVotes
<1>5. \A v \in waiting.votes : v.by \in Wallet /\ v.id \in Proposal
                               /\ \A u \in Range(v.with) : u \in Wallet
  BY RangeWallets DEF VotingTypes, WaitingTyped, AVote
<1>6. \A w \in Wallet, p \in Proposal :
          \/ given'[w][p] = given[w][p]
          \/ \E v \in waiting.votes : /\ v.id = p /\ given'[w][p] = v.choice /\ Holds(w)
                                      /\ w \in Range(v.with) \union {v.by}
  BY <1>1 DEF BlockCounted
<1>7. \A w \in Wallet : Holds(w) <=> \E i \in Instrument : amount'[w][i] # NoKey
  BY StoreTxnsBalances DEF Holds
<1>8. \A w \in Wallet, i \in Instrument : amount[w][i] # NoKey => amount'[w][i] # NoKey
  BY StoreTxnsBalances
<1>9. OwnRecorded'
  <2> SUFFICES ASSUME NEW w \in Wallet, NEW p \in Proposal
               PROVE  /\ own'[w][p] # NoVote => priority'[w] # NoVote
                      /\ given'[w][p] # NoVote => \E i \in Instrument : amount'[w][i] # NoKey
    BY DEF OwnRecorded
  <2>1. ASSUME own'[w][p] # NoVote PROVE priority'[w] # NoVote
    <3>1. CASE \E v \in waiting.votes : v.by = w /\ v.id = p
      BY <1>1, <3>1 DEF BlockCounted
    <3>2. CASE ~ \E v \in waiting.votes : v.by = w /\ v.id = p
      <4>1. own[w][p] # NoVote
        BY <2>1, <3>2, StoreTxnsOwn
      <4> QED BY <1>1, <4>1 DEF BlockCounted, OwnRecorded
    <3> QED BY <3>1, <3>2
  <2>2. ASSUME given'[w][p] # NoVote PROVE \E i \in Instrument : amount'[w][i] # NoKey
    <3>1. CASE given'[w][p] = given[w][p]
      BY <1>8, <2>2, <3>1 DEF OwnRecorded
    <3>2. CASE Holds(w)
      BY <1>7, <3>2
    <3> QED BY <1>6, <3>1, <3>2
  <2> QED BY <2>1, <2>2
<1>10. OwnVotePrevails'
  <2> SUFFICES ASSUME NEW w \in Wallet, NEW p \in Proposal,
                      own'[w][p] # NoVote, ~ raced'[w][p],
                      \E i \in Instrument : amount'[w][i] # NoKey
               PROVE  given'[w][p] \in {own'[w][p], NoVote}
    BY DEF OwnVotePrevails
  <2>1. Holds(w)
    BY <1>7
  <2>2. CASE \E v \in waiting.votes : v.by = w /\ v.id = p
    <3>1. PICK v \in waiting.votes : v.by = w /\ v.id = p
      BY <2>2
    <3>2. ~ VotedFor(w, p)
      BY <3>1, StoreTxnsOwn
    <3>3. given'[w][p] = v.choice
      BY <1>1, <2>1, <3>1, <3>2 DEF BlockCounted
    <3>4. own'[w][p] = v.choice
      BY <3>1, StoreTxnsOwn
    <3> QED BY <3>3, <3>4
  <2>3. CASE ~ \E v \in waiting.votes : v.by = w /\ v.id = p
    <3>1. own'[w][p] = own[w][p]
      BY <2>3, StoreTxnsOwn
    <3>2. ~ raced[w][p]
      BY StoreTxnsOwn
    <3>3. priority[w] # NoVote
      BY <3>1 DEF OwnRecorded
    <3>4. given'[w][p] = given[w][p]
      BY <1>6, <2>3, <3>3 DEF WaitingVotes
    <3>5. given[w][p] # NoVote => given[w][p] \in {own[w][p], NoVote}
      BY <3>1, <3>2 DEF OwnVotePrevails, OwnRecorded
    <3> QED BY <3>1, <3>4, <3>5
  <2> QED BY <2>2, <2>3
<1>11. VotesDelegated'
  <2> SUFFICES ASSUME NEW w \in Wallet, NEW p \in Proposal, given'[w][p] # NoVote
               PROVE  \E v \in Delegates[w] : given'[w][p] \in cast'[v][p]
    BY DEF VotesDelegated
  <2>1. CASE given'[w][p] = given[w][p]
    <3>1. PICK v \in Delegates[w] : given[w][p] \in cast[v][p]
      BY <2>1 DEF VotesDelegated
    <3>2. v \in Wallet
      BY <3>1 DEF Delegates
    <3>3. cast[v][p] \subseteq cast'[v][p]
      BY <3>2, StoreTxnsOwn
    <3> QED BY <2>1, <3>1, <3>3
  <2>2. CASE given'[w][p] # given[w][p]
    <3>1. PICK v \in waiting.votes : /\ v.id = p /\ given'[w][p] = v.choice
                                     /\ w \in Range(v.with) \union {v.by}
      BY <1>6, <2>2
    <3>2. v.by \in Delegates[w]
      BY <1>5, <3>1, DelegatesSelf DEF WaitingVotes
    <3>3. v.choice \in cast'[v.by][p]
      BY <1>5, <3>1, StoreTxnsOwn
    <3> QED BY <3>1, <3>2, <3>3
  <2> QED BY <2>1, <2>2
<1>12. PaidAhead'
  <2> SUFFICES ASSUME NEW w \in Wallet
               PROVE  Paid(w)' >= VoteFee * (Cardinality(ThroughOthers(w)') + Cardinality(WaitingFor(w)'))
    BY DEF PaidAhead
  <2> DEFINE new == {v.id : v \in WaitingFor(w)}
             a == Cardinality(ThroughOthers(w))
             b == Cardinality(WaitingFor(w))
             c == Cardinality(ThroughOthers(w)')
  <2>1. /\ IsFiniteSet(ThroughOthers(w)) /\ a \in Nat
        /\ IsFiniteSet(WaitingFor(w)) /\ b \in Nat /\ Paid(w) \in Int
    BY CountsFinite
  <2>2. IsFiniteSet(new) /\ Cardinality(new) \in Nat /\ Cardinality(new) <= b
    <3>1. IsFiniteSet(new) /\ Cardinality(new) <= Cardinality(WaitingFor(w))
      <4> DEFINE f == [v \in WaitingFor(w) |-> v.id]
      <4>1. f \in Surjection(WaitingFor(w), new)
        BY DEF Surjection
      <4> HIDE DEF f, new
      <4> QED BY <2>1, <4>1, FS_Surjection
    <3> QED BY <3>1, FS_CardinalityType
  <2>3. ThroughOthers(w)' \subseteq ThroughOthers(w) \union new
    <3> SUFFICES ASSUME NEW p \in Proposal, given'[w][p] # NoVote, cast'[w][p] = {},
                        p \notin new
                 PROVE  p \in ThroughOthers(w)
      BY DEF ThroughOthers
    <3>1. \A v \in waiting.votes : v.id = p => w \notin Range(v.with)
      BY DEF WaitingFor
    <3>2. \A v \in waiting.votes : ~ (v.by = w /\ v.id = p)
      BY StoreTxnsOwn
    <3>3. given'[w][p] = given[w][p]
      BY <1>6, <3>1, <3>2
    <3>4. cast[w][p] = {}
      BY StoreTxnsOwn
    <3> QED BY <3>3, <3>4 DEF ThroughOthers
  <2>4. c \in Nat /\ c <= a + b
    <3> DEFINE u == ThroughOthers(w) \union new
    <3>1. IsFiniteSet(u) /\ Cardinality(u) <= a + Cardinality(new) /\ Cardinality(u) \in Nat
      <4>1. Cardinality(ThroughOthers(w) \cap new) \in Nat
        BY <2>1, FS_Intersection, FS_CardinalityType
      <4> HIDE DEF new
      <4>2. /\ IsFiniteSet(u)
            /\ Cardinality(u) = a + Cardinality(new) - Cardinality(ThroughOthers(w) \cap new)
        BY <2>1, <2>2, FS_Union
      <4> QED BY <2>1, <2>2, <4>1, <4>2, FS_CardinalityType
    <3> HIDE DEF u
    <3>2. ThroughOthers(w)' \subseteq u
      BY <2>3 DEF u
    <3>3. IsFiniteSet(ThroughOthers(w)') /\ c <= Cardinality(u)
      BY <3>1, <3>2, FS_Subset
    <3>4. c \in Nat
      BY <3>3, FS_CardinalityType
    <3> HIDE DEF a, b, c, new
    <3> QED BY <2>1, <2>2, <3>1, <3>3, <3>4
  <2>5. WaitingFor(w)' = {}
    BY <1>3 DEF WaitingFor
  <2>6. Paid(w)' = Paid(w)
    BY DEF Paid, StoreTxns
  <2>7. Paid(w) >= VoteFee * (a + b)
    BY DEF PaidAhead
  <2> HIDE DEF a, b, c
  <2>8. VoteFee * c <= VoteFee * (a + b) /\ VoteFee * c \in Nat /\ VoteFee * (a + b) \in Nat
    <3>1. c \in Nat /\ a + b \in Nat /\ c <= a + b /\ VoteFee \in Nat
      BY <2>1, <2>4, VotingAssumption
    <3>2. VoteFee * c <= VoteFee * (a + b)
      BY <3>1, FeesAtLeast
    <3>3. VoteFee * c \in Nat /\ VoteFee * (a + b) \in Nat
      BY <3>1
    <3> QED BY <3>2, <3>3
  <2>9. Paid(w) >= VoteFee * c
    BY <2>1, <2>7, <2>8
  <2>10. Cardinality(WaitingFor(w)') = 0 /\ c + 0 = c
    BY <2>4, <2>5, FS_EmptySet
  <2> QED BY <2>6, <2>9, <2>10 DEF c
<1> QED BY <1>2, <1>4, <1>9, <1>10, <1>11, <1>12

(* Nothing happens.                                                        *)
LEMMA AuthorisedStutters == ASSUME AuthorisedInv, UNCHANGED votingVars PROVE AuthorisedInv'
<1> USE DEF AuthorisedInv, votingVars
<1>1. VotingTypes'
  BY DEF VotingTypes, VotesTyped, WaitingTyped, HistoryTyped, databases, history
<1>2. Covered'
  BY CoveredKept
<1>3. WaitingVotes'
  BY DEF WaitingVotes, databases
<1>4. RecipientsDelegated' /\ OwnRecorded' /\ OwnVotePrevails' /\ VotesDelegated'
  BY DatabasesKept
<1>5. PaidAhead'
  <2>1. \A u \in Wallet : Paid(u)' = Paid(u) /\ ThroughOthers(u)' = ThroughOthers(u)
                          /\ WaitingFor(u)' = WaitingFor(u)
    BY DEF Paid, ThroughOthers, WaitingFor, databases, history
  <2> QED BY <2>1, Zenon DEF PaidAhead
<1> QED BY <1>1, <1>2, <1>3, <1>4, <1>5

(* A wallet is counted for what it voted itself, or else for what its      *)
(* delegates voted, and it has paid for it; whatever instruments there are. *)
THEOREM VotesAreAuthorised == VotingSpec => []VotesAuthorised
<1>1. VotingInit => AuthorisedInv
  BY VotingStarts
<1>2. AuthorisedInv /\ [VotingNext]_votingVars => AuthorisedInv'
  <2> SUFFICES ASSUME AuthorisedInv, [VotingNext]_votingVars PROVE AuthorisedInv'
    OBVIOUS
  <2>1. ASSUME NEW w \in Wallet, NEW p \in Proposal, NEW c \in Choice, Vote(w, p, c)
        PROVE  AuthorisedInv'
    BY <2>1, VoteKeeps
  <2>2. ASSUME NEW m \in MayDelegate, NEW deposit \in Deposits, Delegate(m, deposit)
        PROVE  AuthorisedInv'
    BY <2>2, DelegateKeeps
  <2>3. ASSUME NEW v \in Wallet, NEW w \in Wallet, NEW i \in Instrument,
               NEW n \in 1 .. Balance(v, i), Pay(v, w, i, n)
        PROVE  AuthorisedInv'
    BY <2>3, PayKeeps
  <2>4. CASE StoreTxns
    BY <2>4, StoreTxnsKeeps
  <2>5. CASE UNCHANGED votingVars
    BY <2>5, AuthorisedStutters
  <2> QED BY <2>1, <2>2, <2>3, <2>4, <2>5 DEF VotingNext
<1>3. AuthorisedInv => VotesAuthorised
  BY PaidForVotes DEF AuthorisedInv, VotesAuthorised
<1> QED BY <1>1, <1>2, <1>3, PTL DEF VotingSpec

-----------------------------------------------------------------------------
(* Tallies are backed, with one instrument. *)

BackedInv == AuthorisedInv /\ InTally /\ CountedIsHeld

(* What is counted as what is held, as a sum over all wallets.             *)
LEMMA HeldIs ==
    ASSUME NEW p, NEW c, NEW i
    PROVE  Held(p, c, i) =
               SumFunctionOnSet([w \in Wallet |-> IF given[w][p] = c THEN Balance(w, i) ELSE 0], Wallet)
<1> DEFINE f == [w \in Wallet |-> IF given[w][p] = c THEN Balance(w, i) ELSE 0]
<1>1. DOMAIN f = Wallet
  OBVIOUS
<1>2. Held(p, c, i) = SumFunction(f)
  BY DEF Held
<1> HIDE DEF f
<1> QED BY <1>1, <1>2 DEF SumFunction, f

(* Where votes are only pre-processed, nothing is counted.                 *)
LEMMA BackedKept ==
    ASSUME InTally, CountedIsHeld, UNCHANGED <<amount, databases, history>>
    PROVE  InTally' /\ CountedIsHeld'
<1> USE DEF databases, history
<1>1. InTally'
  BY DEF InTally
<1>2. \A p, c, i : Held(p, c, i)' = Held(p, c, i)
  BY DEF Held, Balance
<1>3. CountedIsHeld'
  BY <1>2, Zenon DEF CountedIsHeld
<1> QED BY <1>1, <1>3

(* A sum in which some add nothing.                                        *)
LEMMA SumOfSome ==
    ASSUME NEW S, IsFiniteSet(S), NEW R \in SUBSET S, NEW f,
           \A x \in S : f[x] \in Int, \A x \in S \ R : f[x] = 0
    PROVE  SumFunctionOnSet(f, S) = SumFunctionOnSet(f, R)
<1> DEFINE T == {s \in SUBSET S : SumFunctionOnSet(f, s) = SumFunctionOnSet(f, s \cap R)}
<1>1. ASSUME NEW s \in SUBSET S, \A u \in SUBSET s : u # s => u \in T
      PROVE  s \in T
  <2>1. CASE s = {}
    <3>1. s \cap R = s
      BY <2>1
    <3> QED BY <3>1
  <2>2. CASE s # {}
    <3> DEFINE q == Pick(s)
               u == s \ {q}
    <3>1. IsFiniteSet(s) /\ IsFiniteSet(u) /\ IsFiniteSet(s \cap R) /\ q \in s
      BY <2>2, FS_Subset, PickIn
    <3>2. SumFunctionOnSet(f, s) = f[q] + SumFunctionOnSet(f, u)
      BY <2>2, <3>1, SumPick
    <3>3. u \in T
      BY <1>1, <3>1
    <3>4. CASE q \in R
      <4>1. q \in s \cap R /\ (s \cap R) \ {q} = u \cap R /\ \A x \in s \cap R : f[x] \in Int
        BY <3>1, <3>4
      <4>2. SumFunctionOnSet(f, s \cap R) = f[q] + SumFunctionOnSet(f, (s \cap R) \ {q})
        <5> HIDE DEF q
        <5> QED BY <3>1, <4>1, SumTake
      <4>3. SumFunctionOnSet(f, s) = SumFunctionOnSet(f, s \cap R)
        BY <3>2, <3>3, <4>1, <4>2
      <4> QED BY <4>3
    <3>5. CASE q \notin R
      <4>1. s \cap R = u \cap R /\ f[q] = 0
        BY <3>1, <3>5
      <4>2. SumFunctionOnSet(f, u) \in Int
        BY <3>1, SumInt
      <4>3. SumFunctionOnSet(f, s \cap R) = SumFunctionOnSet(f, u \cap R)
        BY <4>1
      <4>4. SumFunctionOnSet(f, u) = SumFunctionOnSet(f, u \cap R)
        BY <3>3
      <4> HIDE DEF u, q, T
      <4>5. SumFunctionOnSet(f, s) = SumFunctionOnSet(f, u)
        BY <3>2, <4>1, <4>2
      <4> QED BY <4>3, <4>4, <4>5 DEF T
    <3> QED BY <3>4, <3>5
  <2> QED BY <2>1, <2>2
<1> HIDE DEF T
<1>2. S \in T
  BY <1>1, SubsetInduction
<1>3. S \cap R = R
  OBVIOUS
<1> QED BY <1>2, <1>3 DEF T

(* What is held before the block.                                          *)
Before(p, c, i) == [w \in Wallet |-> IF given[w][p] = c THEN Balance(w, i) ELSE 0]
First == [tally |-> tally, given |-> given, priority |-> priority]

(* The wallets counted for a choice, before the block and after it, where  *)
(* no votes on the proposal are counted.                                   *)
LEMMA BeforeAndAfter ==
    ASSUME VotingTypes, Covered, NEW p \in Proposal, NEW c \in Choice, NEW i \in Instrument,
           \A w \in Wallet : given[w][p] # NoVote => tally[p][given[w][p]][i] # NoKey
    PROVE  LET f == Before(p, c, i)
               g == Backing(First, p, c, i)
               S == Adjusting(p, c, i)
           IN  /\ SumFunctionOnSet(f, Wallet) \in Nat
               /\ SumFunctionOnSet(g, Wallet) =
                      SumFunctionOnSet(f, Wallet) + SumFunctionOnSet(Brought(i), S)
               /\ SumFunctionOnSet(Brought(i), S) \in Int
<1> DEFINE f == Before(p, c, i)
           g == Backing(First, p, c, i)
           S == Adjusting(p, c, i)
           delta == [w \in Wallet |-> IF w \in S THEN Brought(i)[w] ELSE 0]
<1>1. IsFiniteSet(Wallet) /\ S \in SUBSET Wallet /\ NoVote \notin Choice
  BY VotingAssumption DEF Adjusting
<1>2. \A w \in Wallet :
          /\ Balance(w, i) \in Nat /\ NewBalance(w, i) \in Int /\ Brought(i)[w] \in Int
          /\ NewBalance(w, i) = Balance(w, i) + Brought(i)[w]
          /\ Change(waiting.payments, w, i) = [in |-> 0, out |-> 0] =>
                 NewBalance(w, i) = Balance(w, i)
  <2> SUFFICES ASSUME NEW w \in Wallet
               PROVE
          /\ Balance(w, i) \in Nat /\ NewBalance(w, i) \in Int /\ Brought(i)[w] \in Int
          /\ NewBalance(w, i) = Balance(w, i) + Brought(i)[w]
          /\ Change(waiting.payments, w, i) = [in |-> 0, out |-> 0] =>
                 NewBalance(w, i) = Balance(w, i)
    OBVIOUS
  <2> DEFINE x == Change(waiting.payments, w, i)
  <2>1. /\ Balance(w, i) \in Nat /\ x.in \in Nat /\ x.out \in Nat
        /\ NewBalance(w, i) = Balance(w, i) + x.in - x.out
        /\ x = [in |-> 0, out |-> 0] => NewBalance(w, i) = Balance(w, i)
    BY NewBalanceIs
  <2>2. Brought(i)[w] = x.in - x.out
    BY DEF Brought
  <2> HIDE DEF x
  <2>3. Brought(i)[w] \in Int /\ NewBalance(w, i) = Balance(w, i) + Brought(i)[w]
    BY <2>1, <2>2
  <2> QED BY <2>1, <2>3 DEF x
<1>3. \A w \in Wallet : given[w][p] = c /\ w \notin S =>
          Change(waiting.payments, w, i) = [in |-> 0, out |-> 0]
  <2>1. tally[p] # NoVote
    <3>1. tally[p] \in [Choice -> [Instrument -> Nat \union {NoKey}]]
      BY DEF VotingTypes, VotesTyped
    <3> QED BY <3>1, VotingAssumption
  <2> QED BY <1>1, <2>1 DEF Adjusting, Adjusts
<1>4. \A w \in Wallet : w \in S => given[w][p] = c
  BY DEF Adjusting
<1>5. \A w \in Wallet : /\ f[w] = IF given[w][p] = c THEN Balance(w, i) ELSE 0
                        /\ g[w] = IF given[w][p] = c THEN NewBalance(w, i) ELSE 0
                        /\ delta[w] = IF w \in S THEN Brought(i)[w] ELSE 0
  BY DEF Before, Backing, First
<1> HIDE DEF f, g, S, delta
<1>6. \A w \in Wallet : f[w] \in Nat /\ g[w] \in Int /\ delta[w] \in Int
  BY <1>2, <1>5
<1>7. \A w \in Wallet : g[w] = f[w] + delta[w]
  <2> SUFFICES ASSUME NEW w \in Wallet PROVE g[w] = f[w] + delta[w]
    OBVIOUS
  <2>1. CASE w \in S
    BY <1>2, <1>4, <1>5, <2>1
  <2>2. CASE w \notin S
    BY <1>2, <1>3, <1>5, <2>2
  <2> QED BY <2>1, <2>2
<1>8. SumFunctionOnSet(g, Wallet) = SumFunctionOnSet(f, Wallet) + SumFunctionOnSet(delta, Wallet)
  <2>1. \A w \in Wallet : f[w] \in Int /\ delta[w] \in Int /\ g[w] = f[w] + delta[w]
    BY <1>6, <1>7
  <2> QED BY <1>1, <2>1, SumPlus
<1>9. SumFunctionOnSet(delta, Wallet) = SumFunctionOnSet(delta, S)
  <2>1. (\A w \in Wallet : delta[w] \in Int) /\ \A w \in Wallet \ S : delta[w] = 0
    BY <1>5, <1>6
  <2> QED BY <1>1, <2>1, SumOfSome
<1>10. SumFunctionOnSet(delta, S) = SumFunctionOnSet(Brought(i), S)
  <2>1. IsFiniteSet(S) /\ \A w \in S : delta[w] = Brought(i)[w]
    BY <1>1, <1>5, FS_Subset
  <2> QED BY <2>1, SumSame
<1>11. SumFunctionOnSet(f, Wallet) \in Nat
  BY <1>1, <1>6, SumNat
<1>12. SumFunctionOnSet(delta, Wallet) \in Int
  BY <1>1, <1>6, SumInt
<1> QED BY <1>8, <1>9, <1>10, <1>11, <1>12 DEF f, g, S

(* The tallies of proposals that payments leave alone are backed before    *)
(* the votes are counted.                                                  *)
LEMMA FirstSound == ASSUME VotingTypes, Covered, InTally, CountedIsHeld PROVE Sound(First)
<1> SUFFICES ASSUME NEW p \in Proposal \ (Adjusted \union overwritten), NEW i \in Instrument
             PROVE  /\ \A w \in Wallet : given[w][p] # NoVote =>
                          tally[p][given[w][p]][i] # NoKey /\ NewAmount(w, i) # NoKey
                    /\ \A c \in Choice :
                          Number(tally[p][c][i]) = SumFunctionOnSet(Backing(First, p, c, i), Wallet)
  BY DEF Sound, First
<1>1. \A w \in Wallet : given[w][p] # NoVote => tally[p][given[w][p]][i] # NoKey
  BY DEF InTally
<1>2. \A w \in Wallet : given[w][p] # NoVote => NewAmount(w, i) # NoKey
  <2> SUFFICES ASSUME NEW w \in Wallet, given[w][p] # NoVote PROVE NewAmount(w, i) # NoKey
    OBVIOUS
  <2>1. amount[w][i] # NoKey
    BY DEF InTally
  <2>2. NewBalance(w, i) >= 0
    BY DEF Covered
  <2> QED BY <2>1, <2>2, NewBalanceIs
<1>3. ASSUME NEW c \in Choice
      PROVE  Number(tally[p][c][i]) = SumFunctionOnSet(Backing(First, p, c, i), Wallet)
  <2>1. Adjusting(p, c, i) = {}
    BY DEF Adjusting, Adjusted
  <2>2. SumFunctionOnSet(Brought(i), Adjusting(p, c, i)) = 0
    BY <2>1, SumEmpty
  <2>3. Number(tally[p][c][i]) = SumFunctionOnSet(Before(p, c, i), Wallet)
    BY HeldIs DEF CountedIsHeld, Number, Before
  <2>4. /\ SumFunctionOnSet(Before(p, c, i), Wallet) \in Nat
        /\ SumFunctionOnSet(Backing(First, p, c, i), Wallet) =
               SumFunctionOnSet(Before(p, c, i), Wallet)
                   + SumFunctionOnSet(Brought(i), Adjusting(p, c, i))
    BY <1>1, BeforeAndAfter
  <2> QED BY <2>2, <2>3, <2>4
<1> QED BY <1>1, <1>2, <1>3

(* A proposal that payments adjust and on which no votes are counted.      *)
LEMMA AdjustedBacked ==
    ASSUME VotingTypes, Covered, InTally, CountedIsHeld,
           NEW p \in Proposal \ overwritten, NEW c \in Choice, NEW i \in Instrument
    PROVE  /\ Number(adjust_proposal_votes(p, c, i)) =
                  SumFunctionOnSet(Backing(First, p, c, i), Wallet)
           /\ tally[p][c][i] # NoKey => adjust_proposal_votes(p, c, i) # NoKey
<1> DEFINE n == adjust_proposal_votes(p, c, i)
           S == Adjusting(p, c, i)
           f == SumFunctionOnSet(Before(p, c, i), Wallet)
           g == SumFunctionOnSet(Backing(First, p, c, i), Wallet)
           b == SumFunctionOnSet(Brought(i), S)
<1>1. \A w \in Wallet : given[w][p] # NoVote => tally[p][given[w][p]][i] # NoKey
  BY DEF InTally
<1>2. f \in Nat /\ g = f + b /\ b \in Int
  BY <1>1, BeforeAndAfter
<1>3. Number(tally[p][c][i]) = f
  BY HeldIs DEF CountedIsHeld, Number, Before
<1>4. g \in Nat /\ g < Wrap
  <2>1. First \in DB
    BY DEF First, DB, Tallies, VotingTypes, VotesTyped
  <2> QED BY <2>1, BackingBounds
<1>5. /\ S = {} => n = tally[p][c][i]
      /\ S # {} => /\ tally[p][c][i] \in Nat /\ n \in 0 .. (Wrap - 1)
                   /\ Congruent(n, tally[p][c][i] + b, Wrap)
  BY Adjustment
<1>6. Wrap \in Nat \ {0} /\ NoKey \notin Nat
  BY VotingAssumption
<1>7. CASE S = {}
  <2>1. b = 0
    BY <1>7, SumEmpty
  <2> HIDE DEF n, f, g, b, S
  <2>2. Number(n) = g
    BY <1>2, <1>3, <1>5, <1>7, <2>1
  <2> QED BY <1>5, <1>7, <2>2 DEF n, g
<1>8. CASE S # {}
  <2> HIDE DEF n, f, g, b, S
  <2>1. tally[p][c][i] = f
    BY <1>3, <1>5, <1>6, <1>8 DEF Number
  <2>2. Congruent(n, g, Wrap) /\ n \in 0 .. (Wrap - 1) /\ g \in 0 .. (Wrap - 1)
    BY <1>2, <1>4, <1>5, <1>6, <1>8, <2>1
  <2>3. n = g
    BY <1>6, <2>2, CongruentEqual
  <2>4. Number(n) = g /\ n # NoKey
    BY <1>4, <1>6, <2>3 DEF Number
  <2> QED BY <2>4 DEF n, g
<1> QED BY <1>7, <1>8

(* A block is stored.                                                      *)
LEMMA StoreTxnsBacks ==
    ASSUME AuthorisedInv, InTally, CountedIsHeld, Len(Instruments) = 1, StoreTxns
    PROVE  InTally' /\ CountedIsHeld'
<1> USE DEF AuthorisedInv
<1>1. PICK d : /\ BlockCounted(d) /\ tally' = AfterAdjustment(d.tally)
               /\ given' = d.given /\ priority' = d.priority
  BY StoreTxnsIs
<1>2. Sound(d)
  BY <1>1, FirstSound DEF BlockCounted, KeepsSound, First
<1>3. overwritten' = overwritten \union {p \in Adjusted : \E v \in waiting.votes : v.id = p}
  BY DEF StoreTxns
<1>4. \A w \in Wallet, i \in Instrument :
          /\ amount'[w][i] = NewAmount(w, i) /\ Balance(w, i)' = NewBalance(w, i)
          /\ amount[w][i] # NoKey => amount'[w][i] # NoKey
  BY StoreTxnsBalances
<1>5. ASSUME NEW p \in Proposal \ overwritten', NEW i \in Instrument
      PROVE  /\ \A w \in Wallet : given'[w][p] # NoVote =>
                   tally'[p][given'[w][p]][i] # NoKey /\ amount'[w][i] # NoKey
             /\ \A c \in Choice :
                   Number(tally'[p][c][i]) = SumFunctionOnSet(Backing(d, p, c, i), Wallet)
  <2>1. CASE p \notin Adjusted
    <3>1. p \in Proposal \ (Adjusted \union overwritten)
      BY <1>3, <2>1
    <3>2. tally'[p] = d.tally[p]
      BY <1>1, <2>1 DEF AfterAdjustment
    <3> QED BY <1>1, <1>2, <1>4, <3>1, <3>2 DEF Sound
  <2>2. CASE p \in Adjusted
    <3>1. p \in Proposal \ overwritten /\ \A v \in waiting.votes : v.id # p
      BY <1>3, <2>2
    <3>2. \A w \in Wallet : given'[w][p] = given[w][p]
      BY <1>1, <3>1 DEF BlockCounted
    <3>3. \A c \in Choice : tally'[p][c][i] = adjust_proposal_votes(p, c, i)
      BY <1>1, <2>2 DEF AfterAdjustment, proposals_temp
    <3>4. \A c \in Choice :
              /\ Number(adjust_proposal_votes(p, c, i)) =
                     SumFunctionOnSet(Backing(First, p, c, i), Wallet)
              /\ tally[p][c][i] # NoKey => adjust_proposal_votes(p, c, i) # NoKey
      BY <3>1, AdjustedBacked
    <3>5. \A c \in Choice : Backing(d, p, c, i) = Backing(First, p, c, i)
      BY <1>1, <3>2 DEF Backing, First
    <3>6. ASSUME NEW w \in Wallet, given'[w][p] # NoVote
          PROVE  tally'[p][given'[w][p]][i] # NoKey /\ amount'[w][i] # NoKey
      <4>1. given[w][p] \in Choice
        BY <3>2, <3>6 DEF VotingTypes, VotesTyped
      <4>2. tally[p][given[w][p]][i] # NoKey /\ amount[w][i] # NoKey
        BY <3>1, <3>2, <3>6 DEF InTally
      <4> QED BY <1>4, <3>2, <3>3, <3>4, <4>1, <4>2
    <3> QED BY <3>3, <3>4, <3>5, <3>6
  <2> QED BY <2>1, <2>2
<1>6. InTally'
  BY <1>5 DEF InTally
<1>7. CountedIsHeld'
  <2> SUFFICES ASSUME NEW p \in Proposal \ overwritten', NEW c \in Choice, NEW i \in Instrument
               PROVE  (IF tally'[p][c][i] = NoKey THEN 0 ELSE tally'[p][c][i]) = Held(p, c, i)'
    BY Zenon DEF CountedIsHeld
  <2> DEFINE f == [w \in Wallet |-> IF given'[w][p] = c THEN Balance(w, i)' ELSE 0]
  <2>1. f = Backing(d, p, c, i)
    BY <1>1, <1>4 DEF Backing
  <2>2. DOMAIN f = Wallet
    OBVIOUS
  <2>3. Held(p, c, i)' = SumFunction(f)
    BY Zenon DEF Held
  <2> HIDE DEF f
  <2>4. Held(p, c, i)' = SumFunctionOnSet(Backing(d, p, c, i), Wallet)
    BY <2>1, <2>2, <2>3 DEF SumFunction
  <2>5. Number(tally'[p][c][i]) = SumFunctionOnSet(Backing(d, p, c, i), Wallet)
    BY <1>5
  <2> QED BY <2>4, <2>5 DEF Number
<1> QED BY <1>6, <1>7

(* With one instrument: what is counted for a choice is what those counted *)
(* for it hold, through payments, changed votes and votes of delegates.    *)
THEOREM TalliesAreBacked ==
    ASSUME Len(Instruments) = 1
    PROVE  VotingSpec => []TallyBacked
<1>1. VotingInit => BackedInv
  <2> SUFFICES ASSUME VotingInit PROVE BackedInv
    OBVIOUS
  <2>1. AuthorisedInv
    BY VotingStarts
  <2>2. InTally
    BY DEF InTally, VotingInit
  <2>3. ASSUME NEW p \in Proposal, NEW c \in Choice, NEW i \in Instrument
        PROVE  tally[p][c][i] = NoKey /\ Held(p, c, i) = 0
    <3> DEFINE f == [w \in Wallet |-> IF given[w][p] = c THEN Balance(w, i) ELSE 0]
    <3>1. \A w \in Wallet : f[w] = 0
      BY VotingAssumption DEF VotingInit
    <3> HIDE DEF f
    <3>2. SumFunctionOnSet(f, Wallet) = 0
      BY <3>1, VotingAssumption, SumZero
    <3>3. Held(p, c, i) = 0
      BY <3>2, HeldIs DEF f
    <3> QED BY <3>3 DEF VotingInit, NoVotes
  <2>4. CountedIsHeld
    BY <2>3 DEF CountedIsHeld
  <2> QED BY <2>1, <2>2, <2>4 DEF BackedInv
<1>2. BackedInv /\ [VotingNext]_votingVars => BackedInv'
  <2> SUFFICES ASSUME BackedInv, [VotingNext]_votingVars PROVE BackedInv'
    OBVIOUS
  <2> USE DEF BackedInv
  <2>1. ASSUME NEW w \in Wallet, NEW p \in Proposal, NEW c \in Choice, Vote(w, p, c)
        PROVE  BackedInv'
    <3>1. UNCHANGED <<amount, databases, history>>
      BY <2>1 DEF Vote
    <3> QED BY <2>1, <3>1, VoteKeeps, BackedKept
  <2>2. ASSUME NEW m \in MayDelegate, NEW deposit \in Deposits, Delegate(m, deposit)
        PROVE  BackedInv'
    <3>1. UNCHANGED <<amount, databases, history>>
      BY <2>2 DEF Delegate
    <3> QED BY <2>2, <3>1, DelegateKeeps, BackedKept
  <2>3. ASSUME NEW v \in Wallet, NEW w \in Wallet, NEW i \in Instrument,
               NEW n \in 1 .. Balance(v, i), Pay(v, w, i, n)
        PROVE  BackedInv'
    <3>1. UNCHANGED <<amount, databases, history>>
      BY <2>3 DEF Pay
    <3> QED BY <2>3, <3>1, PayKeeps, BackedKept
  <2>4. CASE StoreTxns
    BY <2>4, StoreTxnsKeeps, StoreTxnsBacks
  <2>5. CASE UNCHANGED votingVars
    <3>1. UNCHANGED <<amount, databases, history>>
      BY <2>5 DEF votingVars
    <3> QED BY <2>5, <3>1, AuthorisedStutters, BackedKept
  <2> QED BY <2>1, <2>2, <2>3, <2>4, <2>5 DEF VotingNext
<1>3. BackedInv => TallyBacked
  BY DEF BackedInv, AuthorisedInv, VotingTypes, TallyBacked
<1> QED BY <1>1, <1>2, <1>3, PTL DEF VotingSpec

=============================================================================
