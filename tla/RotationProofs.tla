--------------------------- MODULE RotationProofs ---------------------------
(***************************************************************************)
(* Proofs about Rotation, for any validators, keys, funds, attempts and    *)
(* bounds; and, in the last part, about ThreadPool, for any threads and    *)
(* tasks.                                                                  *)
(***************************************************************************)
EXTENDS Rotation, ThreadPool, FoldProofs, SequenceTheorems

-----------------------------------------------------------------------------
(* What a block of transactions does to the records. *)

Recs == [Key \cup {NoKey} -> Record \cup {None}]

(* The fields of a transaction.                                            *)
LEMMA TxnFields ==
    ASSUME NEW t \in Txn
    PROVE  /\ t.type \in {"register", "unregister", "spend", "other", "heartbeat"}
           /\ t.type = "register" => t.who \in Validator /\ t.key \in Key
           /\ t.type = "heartbeat" => t.key \in Key /\ t.online \in BOOLEAN
           /\ t.type # "heartbeat" => t.who \in Validator
<1>1. CASE t \in [type : {"register"}, who : Validator, key : Key]
  BY <1>1
<1>2. CASE t \in [type : {"unregister", "spend", "other"}, who : Validator, key : {NoKey}]
  BY <1>2
<1>3. CASE t \in [type : {"heartbeat"}, who : Validator \cup {None}, key : Key, online : BOOLEAN]
  BY <1>3
<1> QED BY <1>1, <1>2, <1>3 DEF Txn

(* Changes of a record.                                                    *)
LEMMA RecordChanges ==
    /\ NoRecord \in Record /\ NoRecord.owner = None
    /\ \A r \in Record, v \in Validator :
          [r EXCEPT !.owner = v] \in Record /\ [r EXCEPT !.owner = v].owner = v
    /\ \A r \in Record, b \in BOOLEAN :
          [r EXCEPT !.online = b] \in Record /\ [r EXCEPT !.online = b].owner = r.owner
    /\ \A r \in Record, b \in BOOLEAN, h \in 0..MaxHeight :
          LET n == [r EXCEPT !.online = b, !.seen = h]
          IN  n \in Record /\ n.owner = r.owner /\ n.online = b /\ n.seen = h
<1>1. NoRecord \in Record /\ NoRecord.owner = None
  BY BoundsAssumption DEF NoRecord, Record
<1>2. ASSUME NEW r \in Record, NEW v \in Validator
      PROVE  [r EXCEPT !.owner = v] \in Record /\ [r EXCEPT !.owner = v].owner = v
  BY DEF Record
<1>3. ASSUME NEW r \in Record, NEW b \in BOOLEAN
      PROVE  [r EXCEPT !.online = b] \in Record /\ [r EXCEPT !.online = b].owner = r.owner
  BY DEF Record
<1>4. ASSUME NEW r \in Record, NEW b \in BOOLEAN, NEW h \in 0..MaxHeight
      PROVE  LET n == [r EXCEPT !.online = b, !.seen = h]
             IN  n \in Record /\ n.owner = r.owner /\ n.online = b /\ n.seen = h
  BY DEF Record
<1> QED BY <1>1, <1>2, <1>3, <1>4

(* A registration keeps records records.                                   *)
LEMMA RegistrationType ==
    ASSUME saving \in Saving, NEW recs \in Recs, NEW t \in Txn
    PROVE  batch_validator_registration(recs, t) \in Recs
<1>1. [NoRecord EXCEPT !.owner = t.who] \in Record \/ t.type # "register"
  BY TxnFields, RecordChanges
<1>2. t.type = "register" => t.key \in Key
  BY TxnFields
<1> QED BY <1>1, <1>2 DEF batch_validator_registration, Recs

(* A heartbeat as well, and it leaves the owners alone.                    *)
LEMMA HeartbeatStep ==
    ASSUME tip \in 0..MaxHeight, NEW recs \in Recs, NEW t \in Txn
    PROVE  /\ batch_validator_heartbeat(recs, t) \in Recs
           /\ \A k \in Key \cup {NoKey} :
                 LET r == batch_validator_heartbeat(recs, t)[k]
                 IN  IF r = None THEN recs[k] = None
                     ELSE r = recs[k] \/ r.owner = Existing(recs, k).owner
<1>1. CASE t.type = "heartbeat"
  <2> DEFINE n == [Existing(recs, t.key) EXCEPT !.online = t.online, !.seen = tip]
  <2>1. t.key \in Key /\ t.online \in BOOLEAN
    BY <1>1, TxnFields
  <2>2. Existing(recs, t.key) \in Record
    <3>1. recs[t.key] \in Record \cup {None}
      BY <2>1 DEF Recs
    <3> QED BY <3>1, RecordChanges DEF Existing
  <2>3. n \in Record /\ n.owner = Existing(recs, t.key).owner
    <3>1. \A r \in Record, c \in BOOLEAN :
             LET m == [r EXCEPT !.online = c, !.seen = tip] IN m \in Record /\ m.owner = r.owner
      BY DEF Record
    <3> QED BY <2>1, <2>2, <3>1
  <2>4. batch_validator_heartbeat(recs, t) = [recs EXCEPT ![t.key] = n]
    BY <1>1 DEF batch_validator_heartbeat
  <2> HIDE DEF n
  <2> QED BY <2>1, <2>3, <2>4, NoneAssumption DEF Recs
<1>2. CASE t.type # "heartbeat"
  BY <1>2 DEF batch_validator_heartbeat
<1> QED BY <1>1, <1>2

(* A step of one of the two batches over a block's transactions, and the   *)
(* function behind such a fold.                                            *)
Batch(type, recs, t) ==
    IF type = "register" THEN batch_validator_registration(recs, t)
    ELSE batch_validator_heartbeat(recs, t)

IsRun(g, type, recs, txns) ==
    g = [s \in SUBSET DOMAIN txns |->
            IF s = {} THEN recs ELSE Batch(type, g[s \ {Max(s)}], txns[Max(s)])]

(* There is such a function.                                               *)
LEMMA RunExists ==
    ASSUME saving \in Saving, tip \in 0..MaxHeight,
           NEW b \in {"register", "heartbeat"}, NEW recs \in Recs, NEW txns \in Seq(Txn)
    PROVE  \E g : IsRun(g, b, recs, txns)
<1> DEFINE S == DOMAIN txns
           F == [p \in Recs \X S |-> Batch(b, p[1], txns[p[2]])]
<1>1. S = 1..Len(txns) /\ Len(txns) \in Nat /\ \A i \in S : txns[i] \in Txn
  OBVIOUS
<1>2. Finite(S)
  BY <1>1, FS_Interval DEF Finite
<1> HIDE DEF S
<1>3. F \in [Recs \X S -> Recs]
  BY <1>1, RegistrationType, HeartbeatStep DEF Batch
<1>4. \A x \in Recs, i \in S : F[<<x, i>>] = Batch(b, x, txns[i])
  OBVIOUS
<1> HIDE DEF F
<1>5. PICK k : IsFold(k, F, recs, S)
  BY <1>2, FoldExists
<1>6. \A s \in SUBSET S : k[s] \in Recs
  BY <1>2, <1>3, <1>5, FoldType
<1>7. ASSUME NEW s \in SUBSET S, s # {}
      PROVE  F[<<k[s \ {Max(s)}], Max(s)>>] = Batch(b, k[s \ {Max(s)}], txns[Max(s)])
  <2>1. Max(s) \in S
    BY <1>2, <1>7, MaxIn, FS_Subset DEF Finite
  <2>2. k[s \ {Max(s)}] \in Recs
    BY <1>6
  <2> QED BY <1>4, <2>1, <2>2
<1>8. k = [s \in SUBSET S |-> IF s = {} THEN recs ELSE F[<<k[s \ {Max(s)}], Max(s)>>]]
  BY <1>5 DEF IsFold
<1>9. k = [s \in SUBSET S |-> IF s = {} THEN recs
              ELSE Batch(b, k[s \ {Max(s)}], txns[Max(s)])]
  BY <1>7, <1>8
<1> QED BY <1>9 DEF IsRun, S

(* It takes the transactions one after the other.                          *)
LEMMA RunSteps ==
    ASSUME saving \in Saving, tip \in 0..MaxHeight,
           NEW b \in {"register", "heartbeat"}, NEW recs \in Recs, NEW txns \in Seq(Txn),
           NEW g, IsRun(g, b, recs, txns)
    PROVE  \E h \in [0..Len(txns) -> Recs] :
              /\ h[0] = recs
              /\ \A i \in 1..Len(txns) : h[i] = Batch(b, h[i - 1], txns[i])
              /\ g[DOMAIN txns] = h[Len(txns)]
<1> DEFINE S == DOMAIN txns
           h == [i \in 0..Len(txns) |-> g[1..i]]
<1>1. S = 1..Len(txns) /\ Len(txns) \in Nat /\ \A i \in S : txns[i] \in Txn
  OBVIOUS
<1>2. \A s \in SUBSET S : g[s] = IF s = {} THEN recs
          ELSE Batch(b, g[s \ {Max(s)}], txns[Max(s)])
  BY DEF IsRun
<1> HIDE DEF S
<1>3. h[0] = recs
  <2>1. 1..0 = {} /\ 0 \in 0..Len(txns)
    BY <1>1
  <2>2. g[1..0] = recs
    BY <1>2, <2>1
  <2> QED BY <2>1, <2>2
<1>4. ASSUME NEW i \in 1..Len(txns)
      PROVE  h[i] = Batch(b, h[i - 1], txns[i])
  <2>1. 1..i \in SUBSET S /\ i - 1 \in 0..Len(txns) /\ i \in 0..Len(txns)
    BY <1>1
  <2>2. g[1..i] = Batch(b, g[1..(i - 1)], txns[i])
    <3>1. Max(1..i) = i /\ (1..i) \ {i} = 1..(i - 1) /\ 1..i # {}
      <4>1. i \in Nat /\ i # 0
        BY <1>1
      <4> QED BY <4>1, PrefixMax
    <3> QED BY <1>2, <2>1, <3>1
  <2> QED BY <2>1, <2>2
<1>5. h \in [0..Len(txns) -> Recs]
  <2>0. DOMAIN h = 0..Len(txns) /\ h = [i \in 0..Len(txns) |-> h[i]]
    OBVIOUS
  <2> HIDE DEF h
  <2> DEFINE T == {i \in 0..Len(txns) : h[i] \in Recs}
  <2>1. 0 \in T
    BY <1>1, <1>3
  <2>2. ASSUME NEW i \in 1..Len(txns), i - 1 \in T PROVE i \in T
    <3>1. h[i - 1] \in Recs /\ txns[i] \in Txn /\ i \in 0..Len(txns)
      BY <1>1, <2>2
    <3>2. h[i] \in Recs
      BY <1>4, <3>1, RegistrationType, HeartbeatStep DEF Batch
    <3> QED BY <3>1, <3>2
  <2> HIDE DEF T
  <2>3. 0..Len(txns) \subseteq T
    BY <1>1, <2>1, <2>2, PrefixInduction
  <2> QED BY <2>0, <2>3 DEF T
<1>6. g[S] = h[Len(txns)]
  BY <1>1
<1> HIDE DEF h
<1> QED BY <1>3, <1>4, <1>5, <1>6 DEF S

(* The registrations of a block are carried out one after the other.       *)
LEMMA Registering ==
    ASSUME saving \in Saving, tip \in 0..MaxHeight, NEW recs \in Recs, NEW txns \in Seq(Txn)
    PROVE  \E h \in [0..Len(txns) -> Recs] :
              /\ h[0] = recs
              /\ \A i \in 1..Len(txns) : h[i] = batch_validator_registration(h[i - 1], txns[i])
              /\ FoldLeft(batch_validator_registration, recs, txns) = h[Len(txns)]
<1> DEFINE P(k) == k = [s \in SUBSET DOMAIN txns |->
                IF s = {} THEN recs
                ELSE batch_validator_registration(k[s \ {Max(s)}], txns[Max(s)])]
           g == CHOOSE k : P(k)
<1>1. FoldLeft(batch_validator_registration, recs, txns) = g[DOMAIN txns]
  BY DEF FoldLeft, MapThenFoldSet
<1>2. \A k : IsRun(k, "register", recs, txns) <=> P(k)
  BY DEF IsRun, Batch
<1>3. IsRun(g, "register", recs, txns)
  BY <1>2, RunExists
<1> HIDE DEF g
<1>4. PICK h \in [0..Len(txns) -> Recs] :
              /\ h[0] = recs
              /\ \A i \in 1..Len(txns) : h[i] = Batch("register", h[i - 1], txns[i])
              /\ g[DOMAIN txns] = h[Len(txns)]
  BY <1>3, RunSteps
<1> QED BY <1>1, <1>4 DEF Batch

(* And so are its heartbeats.                                              *)
LEMMA Beating ==
    ASSUME saving \in Saving, tip \in 0..MaxHeight, NEW recs \in Recs, NEW txns \in Seq(Txn)
    PROVE  \E h \in [0..Len(txns) -> Recs] :
              /\ h[0] = recs
              /\ \A i \in 1..Len(txns) : h[i] = batch_validator_heartbeat(h[i - 1], txns[i])
              /\ FoldLeft(batch_validator_heartbeat, recs, txns) = h[Len(txns)]
<1> DEFINE P(k) == k = [s \in SUBSET DOMAIN txns |->
                IF s = {} THEN recs
                ELSE batch_validator_heartbeat(k[s \ {Max(s)}], txns[Max(s)])]
           g == CHOOSE k : P(k)
<1>1. FoldLeft(batch_validator_heartbeat, recs, txns) = g[DOMAIN txns]
  BY DEF FoldLeft, MapThenFoldSet
<1>2. \A k : IsRun(k, "heartbeat", recs, txns) <=> P(k)
  BY DEF IsRun, Batch
<1>3. IsRun(g, "heartbeat", recs, txns)
  BY <1>2, RunExists
<1> HIDE DEF g
<1>4. PICK h \in [0..Len(txns) -> Recs] :
              /\ h[0] = recs
              /\ \A i \in 1..Len(txns) : h[i] = Batch("heartbeat", h[i - 1], txns[i])
              /\ g[DOMAIN txns] = h[Len(txns)]
  BY <1>3, RunSteps
<1> QED BY <1>1, <1>4 DEF Batch

-----------------------------------------------------------------------------
(* What a block leaves in the records. *)

(* Transactions of one kind are a finite set of indexes.                   *)
LEMMA IndexesFinite ==
    ASSUME NEW txns \in Seq(Txn), NEW S \in SUBSET DOMAIN txns
    PROVE  Finite(S) /\ Cardinality(S) \in Nat /\ (S # {} => Max(S) \in S)
<1>1. DOMAIN txns = 1..Len(txns) /\ Len(txns) \in Nat
  OBVIOUS
<1>2. Finite(DOMAIN txns)
  BY <1>1, FS_Interval DEF Finite
<1>3. Finite(S)
  BY <1>2, FS_Subset DEF Finite
<1> QED BY <1>3, MaxIn, FS_CardinalityType DEF Finite

(* Where a wallet has at most one registration, that is the last one.      *)
LEMMA OnlyOne ==
    ASSUME NEW txns \in Seq(Txn), NEW v, Cardinality(Of(txns, v)) <= 1, NEW j \in Of(txns, v)
    PROVE  LastOf(txns, v) = txns[j]
<1>1. Of(txns, v) \in SUBSET DOMAIN txns
  BY DEF Of
<1>2. Finite(Of(txns, v)) /\ Max(Of(txns, v)) \in Of(txns, v) /\ Cardinality(Of(txns, v)) \in Nat
  BY <1>1, IndexesFinite
<1>3. IsFiniteSet(Of(txns, v))
  BY <1>2 DEF Finite
<1>3a. Cardinality(Of(txns, v)) # 0
  BY <1>3, FS_EmptySet
<1>3b. Cardinality(Of(txns, v)) = 1
  BY <1>2, <1>3a
<1>4. \E x : Of(txns, v) = {x}
  BY <1>3, <1>3b, FS_Singleton
<1> QED BY <1>2, <1>4 DEF LastOf

(* What a block means to a wallet's key in db_validator_lookup.            *)
Looked(v) ==
    IF Leaves(saving.txns, v) THEN None
    ELSE IF Joins(saving.txns, v) THEN LastOf(saving.txns, v).key ELSE saving.old[v]

(* After the first i transactions, a record is that of a registration, or  *)
(* it was there before and its wallet is in none of them.                  *)
Owned(recs, txns, i) ==
    \A k \in Key \cup {NoKey} :
        recs[k] # None /\ recs[k].owner # None =>
            \/ \E j \in 1..i : /\ txns[j].type = "register" /\ txns[j].who = recs[k].owner
                               /\ txns[j].key = k
            \/ /\ saving.old[recs[k].owner] = k
               /\ \A j \in 1..i : ~(Registry(txns[j]) /\ txns[j].who = recs[k].owner)

(* One registration.                                                       *)
LEMMA RegistrationStep ==
    ASSUME saving \in Saving, NEW recs \in Recs, NEW t \in Txn, NEW k \in Key \cup {NoKey},
           batch_validator_registration(recs, t)[k] # None
    PROVE  \/ /\ t.type = "register" /\ k = t.key
              /\ batch_validator_registration(recs, t)[k].owner = t.who
           \/ /\ batch_validator_registration(recs, t)[k] = recs[k]
              /\ ~(Registry(t) /\ saving.old[t.who] = k)
<1> DEFINE old == IF saving.old[t.who] = None THEN recs
                  ELSE [recs EXCEPT ![saving.old[t.who]] = None]
           new == [NoRecord EXCEPT !.owner = t.who]
<1>1. CASE t.type = "register"
  <2>1. t.who \in Validator /\ t.key \in Key
    BY <1>1, TxnFields
  <2>2. new.owner = t.who
    <3>1. \A r \in Record, v \in Validator : [r EXCEPT !.owner = v].owner = v
      BY DEF Record
    <3>2. NoRecord \in Record
      BY RecordChanges
    <3> HIDE DEF old
    <3> QED BY <2>1, <3>1, <3>2
  <2>3. saving.old[t.who] \in Key \cup {None}
    BY <2>1 DEF Saving
  <2>4. old \in Recs /\ (old[k] = None \/ (old[k] = recs[k] /\ saving.old[t.who] # k))
    BY <2>3, NoneAssumption DEF Recs
  <2>5. batch_validator_registration(recs, t) = [old EXCEPT ![t.key] = new]
    BY <1>1 DEF batch_validator_registration
  <2> HIDE DEF old, new
  <2> QED BY <1>1, <2>1, <2>2, <2>4, <2>5 DEF Recs
<1>2. CASE t.type = "unregister"
  <2>1. t.who \in Validator
    BY <1>2, TxnFields
  <2>3. saving.old[t.who] \in Key \cup {None}
    BY <2>1 DEF Saving
  <2>4. old[k] = None \/ (old[k] = recs[k] /\ saving.old[t.who] # k)
    BY <2>3, NoneAssumption DEF Recs
  <2>5. batch_validator_registration(recs, t) = old
    BY <1>2 DEF batch_validator_registration
  <2> HIDE DEF old, new
  <2> QED BY <2>4, <2>5
<1>3. CASE ~Registry(t)
  BY <1>3 DEF batch_validator_registration, Registry
<1> QED BY <1>1, <1>2, <1>3 DEF Registry

(* The registrations of a block.                                           *)
LEMMA RegisteredOwned ==
    ASSUME saving \in Saving, tip \in 0..MaxHeight, NEW recs \in Recs, NEW txns \in Seq(Txn),
           \A k \in Key \cup {NoKey} :
               recs[k] # None /\ recs[k].owner # None => saving.old[recs[k].owner] = k
    PROVE  LET r == FoldLeft(batch_validator_registration, recs, txns)
           IN  r \in Recs /\ Owned(r, txns, Len(txns))
<1>1. PICK h \in [0..Len(txns) -> Recs] :
              /\ h[0] = recs
              /\ \A i \in 1..Len(txns) : h[i] = batch_validator_registration(h[i - 1], txns[i])
              /\ FoldLeft(batch_validator_registration, recs, txns) = h[Len(txns)]
  BY Registering
<1>2. Len(txns) \in Nat /\ \A i \in 1..Len(txns) : txns[i] \in Txn
  OBVIOUS
<1> DEFINE T == {i \in 0..Len(txns) : Owned(h[i], txns, i)}
<1>3. 0 \in T
  <2>1. Owned(recs, txns, 0)
    BY DEF Owned
  <2> QED BY <1>1, <1>2, <2>1
<1>4. ASSUME NEW i \in 1..Len(txns), i - 1 \in T
      PROVE  i \in T
  <2>1. Owned(h[i - 1], txns, i - 1) /\ h[i - 1] \in Recs /\ i \in 0..Len(txns)
    BY <1>2, <1>4
  <2> SUFFICES ASSUME NEW k \in Key \cup {NoKey}, h[i][k] # None, h[i][k].owner # None
               PROVE  \/ \E j \in 1..i : /\ txns[j].type = "register"
                                         /\ txns[j].who = h[i][k].owner /\ txns[j].key = k
                      \/ /\ saving.old[h[i][k].owner] = k
                         /\ \A j \in 1..i : ~(Registry(txns[j]) /\ txns[j].who = h[i][k].owner)
    BY <2>1 DEF Owned
  <2>2. h[i] = batch_validator_registration(h[i - 1], txns[i])
    BY <1>1
  <2>3. CASE txns[i].type = "register" /\ k = txns[i].key /\ h[i][k].owner = txns[i].who
    BY <2>3
  <2>4. CASE h[i][k] = h[i - 1][k] /\ ~(Registry(txns[i]) /\ saving.old[txns[i].who] = k)
    <3>1. CASE \E j \in 1..(i - 1) : /\ txns[j].type = "register"
                                     /\ txns[j].who = h[i][k].owner /\ txns[j].key = k
      <4>1. \A j \in 1..(i - 1) : j \in 1..i
        BY <1>2
      <4> QED BY <3>1, <4>1
    <3>2. CASE /\ saving.old[h[i][k].owner] = k
               /\ \A j \in 1..(i - 1) : ~(Registry(txns[j]) /\ txns[j].who = h[i][k].owner)
      <4>1. ~(Registry(txns[i]) /\ txns[i].who = h[i][k].owner)
        BY <2>4, <3>2
      <4>2. \A j \in 1..i : j = i \/ j \in 1..(i - 1)
        BY <1>2
      <4> QED BY <3>2, <4>1, <4>2
    <3> QED BY <2>1, <2>4, <3>1, <3>2 DEF Owned
  <2> QED BY <1>2, <2>1, <2>2, <2>3, <2>4, RegistrationStep
<1> HIDE DEF T
<1>5. 0..Len(txns) \subseteq T
  BY <1>2, <1>3, <1>4, PrefixInduction
<1>6. Len(txns) \in T
  BY <1>2, <1>5
<1> QED BY <1>1, <1>2, <1>6 DEF T

(* A record that is alone keeps its owner, too.                            *)
LEMMA AloneOwners ==
    ASSUME NEW recs \in Recs
    PROVE  /\ OnlineIfAlone(recs) \in Recs
           /\ \A k \in Key \cup {NoKey} :
                 /\ OnlineIfAlone(recs)[k] # None => recs[k] # None
                 /\ recs[k] # None => OnlineIfAlone(recs)[k].owner = recs[k].owner
<1>1. \A k \in Key \cup {NoKey} : recs[k] # None =>
          /\ [recs[k] EXCEPT !.online = TRUE] \in Record
          /\ [recs[k] EXCEPT !.online = TRUE].owner = recs[k].owner
  <2> SUFFICES ASSUME NEW k \in Key \cup {NoKey}, recs[k] # None
               PROVE  /\ [recs[k] EXCEPT !.online = TRUE] \in Record
                      /\ [recs[k] EXCEPT !.online = TRUE].owner = recs[k].owner
    OBVIOUS
  <2>1. recs[k] \in Record
    BY DEF Recs
  <2> QED BY <2>1, RecordChanges
<1> DEFINE r == [k \in DOMAIN recs |->
                    IF recs[k] = None THEN None ELSE [recs[k] EXCEPT !.online = TRUE]]
<1>2. r \in Recs /\ \A k \in Key \cup {NoKey} :
          /\ r[k] # None => recs[k] # None
          /\ recs[k] # None => r[k].owner = recs[k].owner
  BY <1>1 DEF Recs
<1>3. OnlineIfAlone(recs) \in {recs, r}
  BY DEF OnlineIfAlone
<1> HIDE DEF r
<1> QED BY <1>2, <1>3

(* The heartbeats of a block.                                              *)
LEMMA BeatenOwners ==
    ASSUME saving \in Saving, tip \in 0..MaxHeight, NEW recs \in Recs, NEW txns \in Seq(Txn)
    PROVE  LET r == FoldLeft(batch_validator_heartbeat, recs, txns)
           IN  /\ r \in Recs
               /\ \A k \in Key \cup {NoKey} :
                     r[k] # None /\ r[k].owner # None =>
                         recs[k] # None /\ recs[k].owner = r[k].owner
<1>1. PICK h \in [0..Len(txns) -> Recs] :
              /\ h[0] = recs
              /\ \A i \in 1..Len(txns) : h[i] = batch_validator_heartbeat(h[i - 1], txns[i])
              /\ FoldLeft(batch_validator_heartbeat, recs, txns) = h[Len(txns)]
  BY Beating
<1>2. Len(txns) \in Nat /\ \A i \in 1..Len(txns) : txns[i] \in Txn
  OBVIOUS
<1> DEFINE Same(r) == \A k \in Key \cup {NoKey} :
                          r[k] # None /\ r[k].owner # None =>
                              recs[k] # None /\ recs[k].owner = r[k].owner
           T == {i \in 0..Len(txns) : Same(h[i])}
<1>3. 0 \in T
  BY <1>1, <1>2
<1>4. ASSUME NEW i \in 1..Len(txns), i - 1 \in T
      PROVE  i \in T
  <2>1. Same(h[i - 1]) /\ h[i - 1] \in Recs /\ i \in 0..Len(txns)
    BY <1>2, <1>4
  <2>2. h[i] = batch_validator_heartbeat(h[i - 1], txns[i])
    BY <1>1
  <2>3. ASSUME NEW k \in Key \cup {NoKey}, h[i][k] # None, h[i][k].owner # None
        PROVE  recs[k] # None /\ recs[k].owner = h[i][k].owner
    <3>1. h[i][k] = h[i - 1][k] \/ h[i][k].owner = Existing(h[i - 1], k).owner
      <4> DEFINE old == h[i - 1]
                 t == txns[i]
      <4>1. old \in Recs /\ t \in Txn /\ h[i] = batch_validator_heartbeat(old, t)
        BY <1>2, <2>1, <2>2
      <4> HIDE DEF old, t
      <4>2. IF h[i][k] = None THEN old[k] = None
            ELSE h[i][k] = old[k] \/ h[i][k].owner = Existing(old, k).owner
        BY <4>1, HeartbeatStep
      <4> QED BY <2>3, <4>2 DEF old
    <3>2. h[i - 1][k] # None /\ h[i - 1][k].owner = h[i][k].owner
      BY <2>3, <3>1, RecordChanges DEF Existing
    <3> QED BY <2>1, <2>3, <3>2
  <2> QED BY <2>1, <2>3
<1> HIDE DEF T
<1>5. 0..Len(txns) \subseteq T
  BY <1>2, <1>3, <1>4, PrefixInduction
<1>6. Same(h[Len(txns)])
  BY <1>2, <1>5 DEF T
<1> QED BY <1>1, <1>2, <1>6

-----------------------------------------------------------------------------
(* What transactions spend, and elections. *)

(* Indexes that are moved are as many as before.                           *)
LEMMA Moved ==
    ASSUME NEW A, Finite(A), NEW n \in Nat, NEW B, B \subseteq Int,
           \A i \in A : i - n \in B, \A j \in B : j + n \in A
    PROVE  IsFiniteSet(B) /\ Cardinality(B) = Cardinality(A)
<1> DEFINE f == [i \in A |-> i - n]
<1>1. A \subseteq Nat /\ IsFiniteSet(A)
  BY DEF Finite
<1>2. f \in [A -> B]
  OBVIOUS
<1>3. \A a, b \in A : f[a] = f[b] => a = b
  BY <1>1
<1>4. \A j \in B : \E i \in A : f[i] = j
  <2> SUFFICES ASSUME NEW j \in B PROVE \E i \in A : f[i] = j
    OBVIOUS
  <2>1. j + n \in A /\ f[j + n] = j
    OBVIOUS
  <2> QED BY <2>1
<1> HIDE DEF f
<1>5. f \in Bijection(A, B)
  BY <1>2, <1>3, <1>4 DEF Bijection, Injection, Surjection, IsInjective
<1>6. ExistsBijection(A, B)
  BY <1>5 DEF ExistsBijection
<1> QED BY <1>1, <1>6, FS_Bijection

(* What is spent is a number, and no transactions spend nothing.           *)
LEMMA SpendsNone ==
    /\ \A v : Spends(<<>>, v) = 0
    /\ \A txns \in Seq(Txn) : \A v : Spends(txns, v) \in Nat
<1>1. ASSUME NEW v PROVE Spends(<<>>, v) = 0
  <2>1. {i \in DOMAIN <<>> : <<>>[i].type = "spend" /\ <<>>[i].who = v} = {}
    OBVIOUS
  <2> QED BY <2>1, FS_EmptySet DEF Spends
<1>2. ASSUME NEW txns \in Seq(Txn), NEW v PROVE Spends(txns, v) \in Nat
  BY IndexesFinite DEF Spends
<1> QED BY <1>1, <1>2

(* What is spent by transactions is spent by the first n or the others.    *)
LEMMA SpendsSplit ==
    ASSUME NEW txns \in Seq(Txn), NEW v, NEW n \in 0..Len(txns)
    PROVE  LET first == SubSeq(txns, 1, n)
               rest  == SubSeq(txns, n + 1, Len(txns))
           IN  /\ Spends(first, v) \in Nat /\ Spends(rest, v) \in Nat
               /\ Spends(first, v) + Spends(rest, v) = Spends(txns, v)
<1> DEFINE first == SubSeq(txns, 1, n)
           rest  == SubSeq(txns, n + 1, Len(txns))
           Is(t) == t.type = "spend" /\ t.who = v
           A == {i \in DOMAIN txns : Is(txns[i])}
           A1 == {i \in DOMAIN txns : Is(txns[i]) /\ i <= n}
           A2 == {i \in DOMAIN txns : Is(txns[i]) /\ i > n}
           B1 == {i \in DOMAIN first : Is(first[i])}
           B2 == {i \in DOMAIN rest : Is(rest[i])}
<1>1. Len(txns) \in Nat /\ DOMAIN txns = 1..Len(txns) /\ n \in Nat /\ n <= Len(txns)
  OBVIOUS
<1>2. /\ Len(first) = n /\ DOMAIN first = 1..n
      /\ \A i \in 1..n : first[i] = txns[i]
  BY <1>1
<1>3. /\ DOMAIN rest = 1..(Len(txns) - n)
      /\ \A i \in 1..(Len(txns) - n) : rest[i] = txns[i + n]
  BY <1>1
<1>4. Spends(first, v) = Cardinality(B1) /\ Spends(rest, v) = Cardinality(B2)
      /\ Spends(txns, v) = Cardinality(A)
  BY DEF Spends
<1> HIDE DEF first, rest
<1>5. Finite(A1) /\ Finite(A2) /\ Finite(A)
  BY IndexesFinite
<1>6. A1 = B1
  BY <1>1, <1>2
<1>7. A = A1 \cup A2 /\ A1 \cap A2 = {}
  BY <1>1
<1>8. B2 \subseteq Int /\ (\A i \in A2 : i - n \in B2) /\ \A j \in B2 : j + n \in A2
  <2>1. ASSUME NEW i \in A2 PROVE i - n \in B2
    <3>1. i \in 1..Len(txns) /\ i > n /\ Is(txns[i])
      BY <1>1
    <3>2. i - n \in 1..(Len(txns) - n) /\ (i - n) + n = i
      BY <1>1, <3>1
    <3>3. rest[i - n] = txns[i]
      BY <1>3, <3>2
    <3> QED BY <1>3, <3>1, <3>2, <3>3
  <2>2. ASSUME NEW j \in B2 PROVE j \in Int /\ j + n \in A2
    <3>1. j \in 1..(Len(txns) - n) /\ Is(txns[j + n])
      BY <1>3
    <3> QED BY <1>1, <3>1
  <2> QED BY <2>1, <2>2
<1> HIDE DEF A, A1, A2, B1, B2
<1>9. IsFiniteSet(B2) /\ Cardinality(B2) = Cardinality(A2)
  BY <1>1, <1>5, <1>8, Moved
<1>10. Cardinality(A) = Cardinality(A1) + Cardinality(A2)
  <2>1. Cardinality(A1 \cap A2) = 0
    BY <1>7, FS_EmptySet
  <2>2. Cardinality(A1 \cup A2) = Cardinality(A1) + Cardinality(A2) - Cardinality(A1 \cap A2)
    BY <1>5, FS_Union DEF Finite
  <2>3. Cardinality(A1) \in Nat /\ Cardinality(A2) \in Nat
    BY <1>5, FS_CardinalityType DEF Finite
  <2> QED BY <1>7, <2>1, <2>2, <2>3
<1>11. Cardinality(A1) \in Nat /\ Cardinality(A2) \in Nat
  BY <1>5, FS_CardinalityType DEF Finite
<1> QED BY <1>4, <1>6, <1>9, <1>10, <1>11 DEF first, rest

(* One more transaction spends one more at most, and only its wallet's.    *)
LEMMA SpendsAppend ==
    ASSUME NEW txns \in Seq(Txn), NEW v, NEW t \in Txn
    PROVE  /\ Spends(txns, v) \in Nat
           /\ Spends(Append(txns, t), v) =
                  IF t.type = "spend" /\ t.who = v THEN Spends(txns, v) + 1 ELSE Spends(txns, v)
<1> DEFINE s == Append(txns, t)
           n == Len(txns)
           A == {i \in DOMAIN txns : txns[i].type = "spend" /\ txns[i].who = v}
           B == {i \in DOMAIN s : s[i].type = "spend" /\ s[i].who = v}
<1>1. n \in Nat /\ DOMAIN txns = 1..n /\ DOMAIN s = 1..(n + 1) /\ s[n + 1] = t
      /\ \A i \in 1..n : s[i] = txns[i]
  OBVIOUS
<1>2. Finite(A) /\ Cardinality(A) \in Nat
  BY IndexesFinite
<1>3. B = IF t.type = "spend" /\ t.who = v THEN A \cup {n + 1} ELSE A
  BY <1>1
<1>4. n + 1 \notin A
  BY <1>1
<1>5. Cardinality(A \cup {n + 1}) = Cardinality(A) + 1
  BY <1>2, <1>4, FS_AddElement DEF Finite
<1>6. Spends(txns, v) = Cardinality(A) /\ Spends(s, v) = Cardinality(B)
  BY DEF Spends
<1> HIDE DEF A, B
<1> QED BY <1>2, <1>3, <1>5, <1>6

(* The validators are finitely many, each with its place in the order.     *)
LEMMA ValidatorsFinite ==
    /\ IsFiniteSet(Validator) /\ Cardinality(Validator) \in Nat /\ Cardinality(Validator) >= 1
    /\ \A v \in Validator : Place(v) \in Nat
<1>1. DOMAIN Order = 1..Len(Order) /\ Len(Order) \in Nat /\ \A v \in Validator :
          \E i \in DOMAIN Order : Order[i] = v
  BY OrderAssumption DEF ToSet
<1>2. Order \in Surjection(1..Len(Order), Validator)
  BY <1>1, OrderAssumption DEF Surjection
<1>3. IsFiniteSet(Validator)
  BY <1>1, <1>2, FS_Interval, FS_Surjection
<1>4. \A v \in Validator : Place(v) \in Nat
  BY <1>1 DEF Place
<1>5. Cardinality(Validator) \in Nat /\ Cardinality(Validator) # 0
  BY <1>3, FS_CardinalityType, FS_EmptySet, SelfAssumption
<1> QED BY <1>3, <1>4, <1>5

(* Entries that their owners tell apart, each with a stake, can fill the   *)
(* places of an election.                                                  *)
LEMMA Fills ==
    ASSUME NEW entries, \A e \in entries : e.owner \in Validator /\ e.stake > 0,
           \A e, f \in entries : e.owner = f.owner => e = f
    PROVE  Fillable(entries)
<1> DEFINE o == [e \in entries |-> e.owner]
<1>1. o \in [entries -> Owners(entries)] /\ \A v \in Owners(entries) : \E e \in entries : o[e] = v
  BY DEF Owners
<1>2. \A e, f \in entries : o[e] = o[f] => e = f
  OBVIOUS
<1>3. Owners(entries) \in SUBSET Validator
  BY DEF Owners
<1>4. IsFiniteSet(Owners(entries))
  BY <1>3, FS_Subset, ValidatorsFinite
<1> HIDE DEF o
<1>5. o \in Injection(entries, Owners(entries)) /\ o \in Surjection(entries, Owners(entries))
  BY <1>1, <1>2 DEF Injection, IsInjective, Surjection
<1>6. IsFiniteSet(entries) /\ Cardinality(entries) = Cardinality(Owners(entries))
  BY <1>4, <1>5, FS_Injection
<1>7. \A v \in Owners(entries) : \E e \in entries : e.stake > 0 /\ Place(e.owner) <= Place(v)
  <2> SUFFICES ASSUME NEW v \in Owners(entries)
               PROVE  \E e \in entries : e.stake > 0 /\ Place(e.owner) <= Place(v)
    OBVIOUS
  <2>1. PICK e \in entries : e.owner = v
    BY DEF Owners
  <2>2. Place(v) \in Nat
    BY <1>3, ValidatorsFinite
  <2> QED BY <2>1, <2>2
<1> QED BY <1>6, <1>7 DEF Fillable

-----------------------------------------------------------------------------
(* The inductive invariant, in parts. *)

(* What the variables hold, further than TypeOK says it.                   *)
RegistryTyping ==
    /\ lookup \in [Validator -> Key \cup {None}]
    /\ records \in Recs
    /\ unbond \in [Validator -> 0..MaxTime \cup {None}]
    /\ wallets \in [Validator -> Nat]
    /\ archive \in [0..MaxHeight -> (SUBSET Entry) \cup {None}]

ChainTyping ==
    /\ tip \in 0..MaxHeight /\ clock \in 0..MaxTime
    /\ maker \in Key /\ gen \in ToSet(KeysOf[Self])
    /\ saving \in Saving \cup {None}
    /\ saving # None => saving.time = clock
    /\ pool \in Seq(Txn)
    /\ left \in [Validator -> 0..MaxTime \cup {None}]
    /\ restarts \in Nat

Judged == [key : Key \cup {NoKey}, record : Record \cup {None}]

LoopTyping ==
    /\ base \in 0..tip
    /\ main \in Places
    /\ proposers \in Seq(Validator) /\ tracker \in Seq(Validator)
    /\ index \in 1..Cardinality(Validator)
    /\ main = "turn" => index \in DOMAIN proposers
    /\ tried \in 0..Attempts - 1 /\ waits \in Nat
    /\ main \in {"judge", "strike"} => judged \in Judged
    /\ main = "strike" => judged.record # None

StrikeTyping == strikes \in [Validator -> 0..2]

Typing == RegistryTyping /\ ChainTyping /\ LoopTyping /\ StrikeTyping

(* Nobody is elected twice, and the tracker holds nobody beyond the one    *)
(* the node waits for, for whom it has waited long enough.                 *)
LoopInv ==
    /\ IsInjective(proposers)
    /\ index = 1 \/ index <= Len(proposers)
    /\ main = "elect" => index = 1 /\ tried = 0
    /\ main \in {"loop", "turn"} =>
          /\ waits >= Attempts * (index - 1) + tried
          /\ \A i \in DOMAIN proposers : proposers[i] \in ToSet(tracker) => i <= index

(* A wallet holds what its transactions spend.                             *)
FundsInv == \A v \in Validator : wallets[v] >= Spends(pool, v) + Spends(Booked, v)

(* A validator that left is still registered, unbonds, or has unbonded,    *)
(* whichever write of the block comes next.                                *)
UnbondInv ==
    /\ \A v \in Validator :
          /\ unbond[v] # None => unbond[v] <= clock
          /\ left[v] # None =>
                /\ left[v] <= clock
                /\ \/ lookup[v] # None
                   \/ unbond[v] # None /\ unbond[v] >= left[v]
                   \/ clock - left[v] >= Unbonding
    /\ saving # None /\ saving.step = "unbond" =>
          \A v \in Validator : Joins(saving.txns, v) => left[v] = None
    /\ saving # None /\ saving.step = "lookup" =>
          \A v \in Validator : Leaves(saving.txns, v) => unbond[v] = saving.time

(* Records and keys agree, with the keys the block found while they are    *)
(* rewritten.                                                              *)
Indexed(recs, table) ==
    \A k \in Key \cup {NoKey} :
        recs[k] # None /\ recs[k].owner # None => table[recs[k].owner] = k

RegistryInv ==
    ~disturbed =>
        /\ saving # None => \A v \in Validator : Cardinality(Of(saving.txns, v)) <= 1
        /\ IF saving # None /\ saving.step = "records"
           THEN Indexed(records, saving.old) /\ \A v \in Validator : lookup[v] = Looked(v)
           ELSE Indexed(records, lookup)
        /\ saving # None /\ saving.step = "lookup" => saving.old = lookup

(* The maker of the last block is on its way into the archive.             *)
MakerInv ==
    ~disturbed /\ restarts = 0 =>
        /\ saving # None => saving.key = maker
        /\ saving # None /\ saving.step = "archive" =>
               records[maker] # None /\ records[maker].online /\ records[maker].seen = tip
        /\ saving = None /\ tip > 0 => \E e \in archive[tip] : e.key = maker

(* The entries of the last archive are the owners' keys and funds.         *)
StakesInv ==
    Quiet /\ archive[tip] # None =>
        \A e \in archive[tip] : e.owner # None =>
            e.key = lookup[e.owner] /\ e.stake = wallets[e.owner]

(* That is what TypeOK says.                                               *)
LEMMA TypingTypes == Typing => TypeOK
<1> SUFFICES ASSUME Typing PROVE TypeOK
  OBVIOUS
<1>1. /\ lookup \in [Validator -> Key \cup {None}]
      /\ records \in [Key \cup {NoKey} -> Record \cup {None}]
      /\ unbond \in [Validator -> 0..MaxTime \cup {None}]
      /\ wallets \in [Validator -> Nat]
      /\ strikes \in [Validator -> 0..2]
  BY DEF Typing, RegistryTyping, StrikeTyping, Recs
<1>2. \A h \in 0..MaxHeight : archive[h] = None \/ archive[h] \subseteq Entry
  BY DEF Typing, RegistryTyping
<1>3. /\ tip \in 0..MaxHeight /\ clock \in 0..MaxTime
      /\ maker \in Key /\ gen \in ToSet(KeysOf[Self])
      /\ saving \in Saving \cup {None}
      /\ pool \in Seq(Txn)
      /\ left \in [Validator -> 0..MaxTime \cup {None}]
  BY DEF Typing, ChainTyping
<1>4. /\ base \in 0..tip /\ main \in Places /\ proposers \in Seq(Validator)
      /\ index \in 1..Cardinality(Validator)
      /\ main = "turn" => index \in DOMAIN proposers
      /\ tried \in 0..Attempts - 1
  BY DEF Typing, LoopTyping
<1>5. ToSet(tracker) \subseteq Validator
  BY DEF Typing, LoopTyping, ToSet
<1> QED BY <1>1, <1>2, <1>3, <1>4, <1>5 DEF TypeOK

(* Initially.                                                              *)
LEMMA TypingInit == Init => Typing /\ LoopInv /\ FundsInv
<1> SUFFICES ASSUME Init PROVE Typing /\ LoopInv /\ FundsInv
  OBVIOUS
<1> USE DEF Init
<1>1. \A v \in Validator : /\ KeysOf[v] \in Seq(Key) /\ KeysOf[v] # <<>>
                           /\ KeysOf[v][1] \in Key /\ KeysOf[v][1] \in ToSet(KeysOf[v])
  BY KeysAssumption DEF ToSet
<1>2. records \in [Key \cup {NoKey} -> Record \cup {None}]
  <2>1. ASSUME NEW k \in Key, NEW w \in Validator, k = KeysOf[w][1]
        PROVE  [owner |-> CHOOSE v \in Validator : k = KeysOf[v][1], online |-> TRUE, seen |-> 0]
                   \in Record
    <3>1. (CHOOSE v \in Validator : k = KeysOf[v][1]) \in Validator
      BY <2>1
    <3> QED BY <3>1, BoundsAssumption DEF Record
  <2> QED BY <2>1, <1>1, KeysAssumption
<1>3. archive \in [0..MaxHeight -> (SUBSET Entry) \cup {None}]
  <2>1. {[key |-> KeysOf[v][1], owner |-> v, stake |-> Funds[v]] : v \in Validator} \in SUBSET Entry
    BY <1>1, FundsAssumption DEF Entry
  <2> QED BY <2>1
<1>4. lookup \in [Validator -> Key \cup {None}] /\ wallets \in [Validator -> Nat]
  BY <1>1, FundsAssumption
<1>5. maker \in Key /\ gen \in ToSet(KeysOf[Self])
  BY <1>1, SelfAssumption
<1>6. RegistryTyping /\ StrikeTyping
  <2>1. strikes \in [Validator -> 0..2]
    OBVIOUS
  <2>2. unbond \in [Validator -> 0..MaxTime \cup {None}]
    OBVIOUS
  <2>3. records \in Recs
    BY <1>2 DEF Recs
  <2> QED BY <1>3, <1>4, <2>1, <2>2, <2>3 DEF RegistryTyping, StrikeTyping
<1>7. ChainTyping
  BY <1>5, BoundsAssumption DEF ChainTyping
<1>7a. LoopTyping
  <2>1. index \in 1..Cardinality(Validator)
    BY ValidatorsFinite
  <2>2. tried \in 0..Attempts - 1
    BY AttemptsAssumption
  <2> QED BY <2>1, <2>2, BoundsAssumption DEF LoopTyping, Places
<1>8. LoopInv
  BY DEF LoopInv, IsInjective
<1>9. FundsInv
  <2>1. \A v \in Validator : Spends(<<>>, v) = 0
    BY SpendsNone
  <2>2. pool = <<>> /\ Booked = <<>>
    BY DEF Booked
  <2> QED BY <1>4, <2>1, <2>2 DEF FundsInv
<1> QED BY <1>6, <1>7, <1>7a, <1>8, <1>9 DEF Typing

(* And so does the rest of the invariant.                                  *)
LEMMA RegistryInit == Init => UnbondInv /\ RegistryInv /\ MakerInv /\ StakesInv
<1> SUFFICES ASSUME Init PROVE UnbondInv /\ RegistryInv /\ MakerInv /\ StakesInv
  OBVIOUS
<1>1. \A v \in Validator : /\ KeysOf[v] \in Seq(Key) /\ KeysOf[v] # <<>>
                           /\ KeysOf[v][1] \in Key /\ KeysOf[v][1] \in ToSet(KeysOf[v])
  BY KeysAssumption DEF ToSet
<1>2. saving = None /\ tip = 0
  BY DEF Init
<1>3. UnbondInv
  <2>1. \A v \in Validator : unbond[v] = None /\ left[v] = None
    BY DEF Init
  <2> QED BY <1>2, <2>1 DEF UnbondInv
<1>4. RegistryInv
  <2>1. ASSUME NEW k \in Key \cup {NoKey}, records[k] # None
        PROVE  lookup[records[k].owner] = k
    <3>1. \E v \in Validator : k = KeysOf[v][1]
      BY <2>1 DEF Init
    <3>2. records[k].owner = CHOOSE v \in Validator : k = KeysOf[v][1]
      BY <3>1 DEF Init
    <3>3. records[k].owner \in Validator /\ k = KeysOf[records[k].owner][1]
      BY <3>1, <3>2
    <3> QED BY <3>3 DEF Init
  <2> QED BY <1>2, <2>1 DEF RegistryInv, Indexed
<1>5. MakerInv
  BY <1>2 DEF MakerInv
<1>6. StakesInv
  <2>1. archive[tip] = {[key |-> KeysOf[v][1], owner |-> v, stake |-> Funds[v]] : v \in Validator}
    BY BoundsAssumption DEF Init
  <2>2. \A v \in Validator : lookup[v] = KeysOf[v][1] /\ wallets[v] = Funds[v]
    BY DEF Init
  <2> QED BY <2>1, <2>2 DEF StakesInv
<1> QED BY <1>3, <1>4, <1>5, <1>6

-----------------------------------------------------------------------------
(* What a step may be, in the terms of the databases. *)

(* A transaction that is one, and a spend with what it needs.              *)
Arrival ==
    \E t \in Txn :
        /\ Arrive(t)
        /\ t.type = "spend" =>
              /\ check_validator(t.who)
              /\ wallets[t.who] > Spends(pool, t.who) + Spends(Booked, t.who)

Header == \E k \in Key, n \in 0..Len(pool) : StoreHeader(k, n)

(* A step that leaves alone whatever a block is about.                     *)
Still == UNCHANGED <<registryVars, chainVars, pool, clock, gen, disturbed, restarts>>

(* These are the arrivals.                                                 *)
LEMMA TxnStepArrives ==
    ASSUME RegistryTyping, ChainTyping, TxnStep
    PROVE  Arrival
<1>1. gen \in Key /\ \A v \in Validator : ToSet(KeysOf[v]) \subseteq Key
  BY SelfAssumption DEF ChainTyping, Key
<1>2. ASSUME NEW v \in Validator, Register(v) PROVE Arrival
  <2>1. PICK k \in FreshKey(v) : Arrive([type |-> "register", who |-> v, key |-> k])
    BY <1>2 DEF Register
  <2>2. [type |-> "register", who |-> v, key |-> k] \in Txn
    BY <1>1 DEF FreshKey, Txn
  <2> QED BY <2>1, <2>2 DEF Arrival
<1>3. ASSUME NEW v \in Validator, Unregister(v) PROVE Arrival
  <2>1. [type |-> "unregister", who |-> v, key |-> NoKey] \in Txn
    BY DEF Txn
  <2> QED BY <1>3, <2>1 DEF Arrival, Unregister
<1>4. ASSUME NEW v \in Validator, Spend(v) PROVE Arrival
  <2>1. [type |-> "spend", who |-> v, key |-> NoKey] \in Txn
    BY DEF Txn
  <2> QED BY <1>4, <2>1 DEF Arrival, Spend
<1>5. ASSUME NEW k \in Key, NEW online \in BOOLEAN, Heartbeat(k, online) PROVE Arrival
  <2>1. records[k].owner \in Validator \cup {None}
    BY <1>5 DEF Heartbeat, Stored, RegistryTyping, Recs, Record
  <2>2. [type |-> "heartbeat", who |-> records[k].owner, key |-> k, online |-> online] \in Txn
    BY <2>1 DEF Txn
  <2> QED BY <1>5, <2>2 DEF Arrival, Heartbeat
<1>6. CASE Other
  <2>1. [type |-> "other", who |-> Self, key |-> NoKey] \in Txn
    BY SelfAssumption DEF Txn
  <2> QED BY <1>6, <2>1 DEF Arrival, Other
<1> QED BY <1>1, <1>2, <1>3, <1>4, <1>5, <1>6 DEF TxnStep, SendHeartbeat, Peers

(* A block is taken from a peer or made.                                   *)
LEMMA BlockHeads ==
    ASSUME ChainTyping, (\E k \in Peers : PeerBlock(k)) \/ Make
    PROVE  Header \/ Still
<1>1. gen \in Key
  BY SelfAssumption DEF ChainTyping, Key
<1>2. ASSUME NEW k \in Peers, PeerBlock(k) PROVE Header
  BY <1>2 DEF PeerBlock, Peers, Header
<1>3. CASE Make /\ pool = <<>>
  BY <1>3 DEF Make, Still
<1>4. CASE Make /\ pool # <<>>
  <2>1. Len(pool) \in 0..Len(pool)
    BY DEF ChainTyping
  <2> QED BY <1>1, <1>4, <2>1 DEF Make, Header
<1> QED BY <1>2, <1>3, <1>4

(* Every step is of one of these kinds.                                    *)
LEMMA StepKinds ==
    ASSUME RegistryTyping, ChainTyping, [Next]_vars
    PROVE  Arrival \/ Header \/ StoreStep \/ ReadTip \/ Strike \/ Restart \/ Still
<1>1. CASE UNCHANGED vars
  BY <1>1 DEF vars, Still
<1>2. CASE TxnStep
  BY <1>2, TxnStepArrives
<1>3. CASE (\E k \in Peers : PeerBlock(k)) \/ Make
  BY <1>3, BlockHeads
<1>4. CASE Elect \/ HaveTransactions \/ NewBlock \/ MyTurn \/ Wait \/ JudgeKnown
  BY <1>4 DEF Elect, HaveTransactions, NewBlock, MyTurn, Wait, JudgeKnown, LoopKeeps, JudgeKeeps,
       Still, registryVars, chainVars
<1>5. CASE JudgeUnknown
  BY <1>5 DEF JudgeUnknown, JudgeKeeps, Still, registryVars, chainVars
<1> QED BY <1>1, <1>2, <1>3, <1>4, <1>5 DEF Next, LoopStep

(* A registration gives a wallet a key of its own.                         *)
LEMMA JoinsKey ==
    ASSUME NEW txns \in Seq(Txn), NEW v, Joins(txns, v)
    PROVE  LastOf(txns, v).key \in Key /\ ~Leaves(txns, v)
<1>1. Of(txns, v) \in SUBSET DOMAIN txns /\ Of(txns, v) # {}
  BY DEF Of, Joins
<1>2. Max(Of(txns, v)) \in DOMAIN txns
  BY <1>1, IndexesFinite
<1>3. LastOf(txns, v) \in Txn
  BY <1>2 DEF LastOf
<1>4. LastOf(txns, v).type = "register"
  BY DEF Joins
<1> QED BY <1>3, <1>4, TxnFields DEF Leaves

-----------------------------------------------------------------------------
(* Each step keeps each part of the invariant. *)

(* The records a block leaves are records.                                 *)
LEMMA StoreRecordsType ==
    ASSUME RegistryTyping, ChainTyping, StoreRecords
    PROVE  records' \in Recs
<1>1. saving \in Saving /\ saving.txns \in Seq(Txn) /\ tip \in 0..MaxHeight /\ records \in Recs
  BY DEF StoreRecords, At, ChainTyping, RegistryTyping, Saving
<1> DEFINE r1 == FoldLeft(batch_validator_registration, records, saving.txns)
           r2 == OnlineIfAlone(r1)
<1>2. r1 \in Recs
  <2>1. PICK h \in [0..Len(saving.txns) -> Recs] : r1 = h[Len(saving.txns)]
    BY <1>1, Registering
  <2>2. Len(saving.txns) \in 0..Len(saving.txns)
    BY <1>1
  <2> QED BY <2>1, <2>2
<1>3. r2 \in Recs
  BY <1>2, AloneOwners
<1>4. records' = FoldLeft(batch_validator_heartbeat, r2, saving.txns)
  BY DEF StoreRecords
<1> HIDE DEF r1, r2
<1> QED BY <1>1, <1>3, <1>4, BeatenOwners

(* The archive holds entries.                                              *)
LEMMA ArchiveType ==
    ASSUME RegistryTyping, NEW h
    PROVE  Archive(h) \in SUBSET Entry
<1>1. ASSUME NEW k \in Key \cup {NoKey}, records[k] # None
      PROVE  [key |-> k, owner |-> records[k].owner, stake |-> Stake(records[k].owner)] \in Entry
  <2>1. records[k].owner \in Validator \cup {None}
    BY <1>1 DEF RegistryTyping, Recs, Record
  <2>2. Stake(records[k].owner) \in Nat
    BY <2>1 DEF Stake, RegistryTyping
  <2> QED BY <2>1, <2>2 DEF Entry
<1>2. DOMAIN records = Key \cup {NoKey}
  BY DEF RegistryTyping, Recs
<1> QED BY <1>1, <1>2 DEF Archive, Stored

(* How a store moves on.                                                   *)
LEMMA StoreMoves ==
    ASSUME RegistryTyping, ChainTyping, StoreStep
    PROVE  /\ saving \in Saving
           /\ saving' = None \/ (saving' \in Saving /\ saving' # None /\ saving'.key = saving.key
                                     /\ saving'.txns = saving.txns /\ saving'.time = saving.time)
           /\ StoreUnbond => saving.step = "unbond" /\ saving' # None
                                 /\ saving'.step = "lookup" /\ saving'.old = lookup
           /\ StoreLookup => saving.step = "lookup" /\ saving' # None
                                 /\ saving'.step = "records" /\ saving'.old = saving.old
           /\ StoreRecords => saving.step = "records" /\ saving' # None /\ saving'.step = "proposer"
           /\ StoreProposer => saving.step = "proposer" /\ saving' # None /\ saving'.step = "archive"
           /\ StoreArchive => saving.step = "archive" /\ saving' = None
<1>1. saving \in Saving
  BY DEF StoreStep, StoreUnbond, StoreLookup, StoreRecords, StoreProposer, StoreArchive, At,
     ChainTyping
<1> DEFINE Next1(s) == [saving EXCEPT !.step = s]
           Next2 == [saving EXCEPT !.step = "lookup", !.old = lookup]
<1>2. \A s \in Steps : /\ Next1(s) \in Saving /\ Next1(s).step = s /\ Next1(s).old = saving.old
                       /\ Next1(s).key = saving.key /\ Next1(s).txns = saving.txns
                       /\ Next1(s).time = saving.time
  BY <1>1 DEF Saving
<1>3. /\ Next2 \in Saving /\ Next2.step = "lookup" /\ Next2.old = lookup
      /\ Next2.key = saving.key /\ Next2.txns = saving.txns /\ Next2.time = saving.time
  BY <1>1 DEF Saving, Steps, RegistryTyping
<1>4. StoreUnbond => saving.step = "unbond" /\ saving' = Next2
  BY DEF StoreUnbond, At
<1>5. StoreLookup => saving.step = "lookup" /\ saving' = Next1("records")
  BY DEF StoreLookup, At
<1>6. StoreRecords => saving.step = "records" /\ saving' = Next1("proposer")
  BY DEF StoreRecords, At
<1>7. StoreProposer => saving.step = "proposer" /\ saving' = Next1("archive")
  BY DEF StoreProposer, At
<1>8. StoreArchive => saving.step = "archive" /\ saving' = None
  BY DEF StoreArchive, At
<1>9. {"records", "proposer", "archive"} \subseteq Steps
  BY DEF Steps
<1> HIDE DEF Next1, Next2
<1> QED BY <1>1, <1>2, <1>3, <1>4, <1>5, <1>6, <1>7, <1>8, <1>9, NoneAssumption DEF StoreStep

(* What is stored first.                                                   *)
LEMMA HeaderSaves ==
    ASSUME RegistryTyping, ChainTyping, NEW k \in Key, NEW n \in 0..Len(pool), StoreHeader(k, n)
    PROVE  /\ saving = None
           /\ saving' \in Saving /\ saving' # None
           /\ saving'.step = "unbond" /\ saving'.key = k /\ saving'.time = clock'
           /\ saving'.txns = SubSeq(pool, 1, n) /\ saving'.txns \in Seq(Txn)
           /\ pool' = SubSeq(pool, n + 1, Len(pool)) /\ pool' \in Seq(Txn)
           /\ tip' \in 0..MaxHeight /\ clock' \in 0..MaxTime /\ clock' >= clock
           /\ maker' = k /\ maker' \in Key
<1> DEFINE txns == SubSeq(pool, 1, n)
<1>1. txns \in Seq(Txn) /\ SubSeq(pool, n + 1, Len(pool)) \in Seq(Txn)
  <2>1. pool \in Seq(Txn) /\ Len(pool) \in Nat /\ n \in 0..Len(pool)
    BY DEF ChainTyping
  <2> QED BY <2>1
<1>2. tip' \in 0..MaxHeight /\ clock' \in 0..MaxTime /\ clock' >= clock /\ maker' = k
  <2>1. tip < MaxHeight /\ tip' = tip + 1 /\ clock' \in clock..MaxTime /\ maker' = k
    BY DEF StoreHeader
  <2>2. tip \in 0..MaxHeight /\ clock \in 0..MaxTime
    BY DEF ChainTyping
  <2> QED BY <2>1, <2>2, BoundsAssumption
<1> HIDE DEF txns
<1>3. saving' = [key |-> k, step |-> "unbond", txns |-> txns, time |-> clock', old |-> lookup]
  BY DEF StoreHeader, txns
<1>4. saving' \in Saving
  BY <1>1, <1>2, <1>3 DEF RegistryTyping, Saving, Steps
<1>5. saving = None /\ pool' = SubSeq(pool, n + 1, Len(pool))
  BY DEF StoreHeader
<1> QED BY <1>1, <1>2, <1>3, <1>4, <1>5, NoneAssumption DEF txns

(* The databases of validators, step by step of a store.                   *)
LEMMA StoreRegistry ==
    ASSUME RegistryTyping, ChainTyping, FundsInv, StoreStep
    PROVE  RegistryTyping'
<1> USE DEF RegistryTyping
<1>1. saving \in Saving /\ saving.txns \in Seq(Txn) /\ saving.time \in 0..MaxTime
      /\ tip \in 0..MaxHeight
  BY DEF StoreStep, StoreUnbond, StoreLookup, StoreRecords, StoreProposer, StoreArchive, At,
     ChainTyping, Saving
<1>2. CASE StoreUnbond
  <2>1. Booked = saving.txns
    BY <1>2 DEF StoreUnbond, At, Booked
  <2>2. \A v \in Validator : /\ Spends(pool, v) \in Nat /\ Spends(saving.txns, v) \in Nat
                             /\ wallets[v] >= Spends(pool, v) + Spends(saving.txns, v)
    BY <1>1, <2>1, SpendsNone DEF FundsInv, ChainTyping
  <2>3. \A v \in Validator : wallets[v] - Spends(saving.txns, v) \in Nat
    <3> SUFFICES ASSUME NEW v \in Validator PROVE wallets[v] - Spends(saving.txns, v) \in Nat
      OBVIOUS
    <3>1. wallets[v] \in Nat
      OBVIOUS
    <3> QED BY <2>2, <3>1
  <2>4. wallets' \in [Validator -> Nat]
    BY <1>2, <2>3 DEF StoreUnbond
  <2>5. unbond' \in [Validator -> 0..MaxTime \cup {None}]
    BY <1>1, <1>2 DEF StoreUnbond
  <2> QED BY <1>2, <2>4, <2>5 DEF StoreUnbond
<1>3. CASE StoreLookup
  <2>1. lookup' \in [Validator -> Key \cup {None}]
    BY <1>1, <1>3, JoinsKey DEF StoreLookup
  <2> QED BY <1>3, <2>1 DEF StoreLookup
<1>4. CASE StoreRecords
  BY <1>4, StoreRecordsType DEF StoreRecords
<1>5. CASE StoreProposer
  <2>1. saving.key \in Key
    BY <1>1 DEF Saving
  <2>2. Existing(records, saving.key) \in Record
    <3>1. records[saving.key] \in Record \cup {None}
      BY <2>1 DEF Recs
    <3> QED BY <3>1, RecordChanges DEF Existing
  <2>3. \A r \in Record : [r EXCEPT !.online = TRUE, !.seen = tip] \in Record
    BY <1>1 DEF Record
  <2>4. records' \in Recs
    BY <1>5, <2>1, <2>2, <2>3 DEF StoreProposer, update_proposal_heartbeat, Recs
  <2>5. unbond' \in [Validator -> 0..MaxTime \cup {None}]
    BY <1>5 DEF StoreProposer, remove_unbonding_validators
  <2> QED BY <1>5, <2>4, <2>5 DEF StoreProposer
<1>6. CASE StoreArchive
  <2>1. archive' \in [0..MaxHeight -> (SUBSET Entry) \cup {None}]
    BY <1>6, ArchiveType DEF StoreArchive
  <2> QED BY <1>6, <2>1 DEF StoreArchive
<1> QED BY <1>2, <1>3, <1>4, <1>5, <1>6 DEF StoreStep

(* And the databases in every step.                                        *)
LEMMA RegistryTyped ==
    ASSUME Typing, FundsInv, [Next]_vars
    PROVE  RegistryTyping'
<1>0. RegistryTyping /\ ChainTyping
  BY DEF Typing
<1>1. CASE Arrival \/ Header \/ Still
  BY <1>0, <1>1 DEF Arrival, Arrive, Header, StoreHeader, Still, registryVars, RegistryTyping
<1>2. CASE StoreStep
  BY <1>0, <1>2, StoreRegistry
<1>3. CASE ReadTip
  BY <1>0, <1>3 DEF ReadTip, RegistryTyping
<1>4. CASE Strike
  <2>1. judged.key \in Key \cup {NoKey} /\ judged.record \in Record
    BY <1>4 DEF Strike, Typing, LoopTyping, Judged
  <2>2. [judged.record EXCEPT !.online = FALSE] \in Record
    BY <2>1, RecordChanges
  <2>3. records' \in Recs
    BY <1>0, <1>4, <2>1, <2>2 DEF Strike, RegistryTyping, Recs
  <2> QED BY <1>0, <1>4, <2>3 DEF Strike, JudgeKeeps, RegistryTyping
<1>5. CASE Restart
  <2>1. archive' \in [0..MaxHeight -> (SUBSET Entry) \cup {None}]
    BY <1>0, <1>5, ArchiveType DEF Restart, initial_archive, RegistryTyping, ChainTyping
  <2> QED BY <1>0, <1>5, <2>1 DEF Restart, RegistryTyping
<1> QED BY <1>0, <1>1, <1>2, <1>3, <1>4, <1>5, StepKinds

(* The chain in every step.                                                *)
LEMMA ChainTyped ==
    ASSUME Typing, [Next]_vars
    PROVE  ChainTyping'
<1>0. RegistryTyping /\ ChainTyping
  BY DEF Typing
<1>1. CASE Arrival
  <2>1. pool' \in Seq(Txn)
    BY <1>0, <1>1 DEF Arrival, Arrive, ChainTyping
  <2>2. UNCHANGED <<chainVars, clock, gen, restarts>>
    BY <1>1 DEF Arrival, Arrive
  <2> QED BY <1>0, <2>1, <2>2 DEF chainVars, ChainTyping
<1>2. CASE Header
  <2>1. PICK k \in Key, n \in 0..Len(pool) : StoreHeader(k, n)
    BY <1>2 DEF Header
  <2>5. saving' \in Saving /\ saving'.time = clock' /\ pool' \in Seq(Txn)
        /\ tip' \in 0..MaxHeight /\ clock' \in 0..MaxTime /\ maker' \in Key
    BY <1>0, <2>1, HeaderSaves
  <2>6. left' \in [Validator -> 0..MaxTime \cup {None}]
    BY <1>0, <2>1, <2>5 DEF StoreHeader, ChainTyping
  <2>8. UNCHANGED <<gen, restarts>>
    BY <2>1 DEF StoreHeader
  <2> QED BY <1>0, <2>5, <2>6, <2>8 DEF ChainTyping
<1>3. CASE StoreStep
  <2>1. saving \in Saving /\ (saving' = None \/ (saving' \in Saving /\ saving'.time = saving.time))
    BY <1>0, <1>3, StoreMoves
  <2>2. UNCHANGED <<tip, maker, left, pool, clock, gen, restarts>>
    BY <1>3 DEF StoreStep, StoreUnbond, StoreLookup, StoreRecords, StoreProposer, StoreArchive,
       StoreUnchanged
  <2>3. saving # None
    BY <2>1, NoneAssumption
  <2> QED BY <1>0, <2>1, <2>2, <2>3 DEF ChainTyping
<1>4. CASE ReadTip \/ Strike \/ Still
  <2>1. UNCHANGED <<chainVars, pool, clock, gen, restarts>>
    BY <1>4 DEF ReadTip, Strike, Still, JudgeKeeps
  <2> QED BY <1>0, <2>1 DEF chainVars, ChainTyping
<1>5. CASE Restart
  <2>1. gen' \in ToSet(KeysOf[Self])
    BY <1>5 DEF Restart, ToSet
  <2> QED BY <1>0, <1>5, <2>1 DEF Restart, ChainTyping
<1> QED BY <1>0, <1>1, <1>2, <1>3, <1>4, <1>5, StepKinds

(* Who has been struck.                                                    *)
LEMMA StrikesTyped ==
    ASSUME Typing, [Next]_vars
    PROVE  StrikeTyping'
<1>0. strikes \in [Validator -> 0..2]
  BY DEF Typing, StrikeTyping
<1>1. CASE JudgeUnknown
  BY <1>0, <1>1 DEF JudgeUnknown, StrikeTyping
<1>2. CASE Strike
  <2>1. strikes' = Strikes
    BY <1>2 DEF Strike
  <2>2. \A v \in Validator : strikes[v] < 2 => strikes[v] + 1 \in 0..2
    BY <1>0
  <2>3. Strikes \in [Validator -> 0..2]
    BY <1>0, <2>2 DEF Strikes
  <2> QED BY <2>1, <2>3 DEF StrikeTyping
<1>3. CASE Arrival \/ Header
  BY <1>0, <1>3 DEF Arrival, Arrive, Header, StoreHeader, StrikeTyping
<1>4. CASE StoreStep
  BY <1>0, <1>4 DEF StoreStep, StoreUnbond, StoreLookup, StoreRecords, StoreProposer, StoreArchive,
     StoreUnchanged, StrikeTyping
<1>5. CASE Restart \/ ReadTip \/ (Make /\ pool = <<>>) \/ UNCHANGED vars
  BY <1>0, <1>5 DEF Restart, ReadTip, Make, vars, StrikeTyping
<1>6. CASE Elect \/ HaveTransactions \/ NewBlock \/ MyTurn \/ Wait \/ JudgeKnown
  BY <1>0, <1>6 DEF Elect, HaveTransactions, NewBlock, MyTurn, Wait, JudgeKnown, LoopKeeps,
     StrikeTyping
<1>7. TxnStep => Arrival
  BY TxnStepArrives DEF Typing
<1>8. (\E k \in Peers : PeerBlock(k)) => Header
  BY DEF PeerBlock, Peers, Header
<1>9. Make => Header \/ (Make /\ pool = <<>>)
  <2>1. gen \in Key /\ Len(pool) \in 0..Len(pool)
    BY SelfAssumption DEF Typing, ChainTyping, Key
  <2> QED BY <2>1 DEF Make, Header
<1> QED BY <1>1, <1>2, <1>3, <1>4, <1>5, <1>6, <1>7, <1>8, <1>9 DEF Next, LoopStep

(* Validators that follow each other without repetition are at most all.   *)
LEMMA InjectiveLength ==
    ASSUME NEW s \in Seq(Validator), IsInjective(s)
    PROVE  Len(s) \in Nat /\ Len(s) <= Cardinality(Validator)
<1>1. DOMAIN s = 1..Len(s) /\ Len(s) \in Nat /\ s \in [1..Len(s) -> Validator]
  OBVIOUS
<1>2. s \in Injection(1..Len(s), Validator)
  BY <1>1 DEF Injection, IsInjective
<1>3. Cardinality(1..Len(s)) <= Cardinality(Validator)
  BY <1>2, ValidatorsFinite, FS_Injection
<1>4. Cardinality(1..Len(s)) = Len(s)
  <2>1. Cardinality(1..Len(s)) = IF 1 > Len(s) THEN 0 ELSE Len(s) - 1 + 1
    BY <1>1, FS_Interval
  <2> QED BY <1>1, <2>1
<1> QED BY <1>1, <1>3, <1>4

(* What an election draws.                                                 *)
LEMMA Elected ==
    ASSUME RegistryTyping, base \in 0..MaxHeight, Elect
    PROVE  /\ proposers' \in Seq(Validator) /\ IsInjective(proposers')
           /\ tracker' \in Seq(Validator)
           /\ \A i \in DOMAIN proposers' : proposers'[i] \in ToSet(tracker') => i = 1
<1> DEFINE S == Owners(Weighted(base))
<1>1. S \in SUBSET Validator
  <2>1. archive[base] \subseteq Entry
    BY DEF Elect, Electable, RegistryTyping
  <2> QED BY <2>1 DEF Owners, Weighted, Entry
<1>2. Cardinality(S) \in Nat
  BY <1>1, FS_Subset, FS_CardinalityType, ValidatorsFinite
<1>3. proposers' \in SetToSeqs(S)
  BY DEF Elect
<1> HIDE DEF S
<1>4. /\ proposers' \in [1..Cardinality(S) -> S]
      /\ \A i, j \in 1..Cardinality(S) : i # j => proposers'[i] # proposers'[j]
  BY <1>3 DEF SetToSeqs
<1>5. proposers' \in Seq(Validator) /\ IsInjective(proposers') /\ DOMAIN proposers' = 1..Cardinality(S)
  BY <1>1, <1>2, <1>4 DEF IsInjective
<1>6. CASE proposers' = <<>>
  <2>1. tracker' = <<>>
    BY <1>6 DEF Elect
  <2> QED BY <1>5, <1>6, <2>1
<1>7. CASE proposers' # <<>>
  <2>1. tracker' = <<proposers'[1]>>
    BY <1>7 DEF Elect
  <2>1a. 1 \in DOMAIN proposers' /\ proposers'[1] \in Validator
    <3>1. \A s \in Seq(Validator) : s # <<>> => 1 \in DOMAIN s /\ s[1] \in Validator
      OBVIOUS
    <3> QED BY <1>5, <1>7, <3>1
  <2>2. ToSet(tracker') = {proposers'[1]}
    BY <2>1 DEF ToSet
  <2>3. tracker' \in Seq(Validator)
    BY <2>1, <2>1a
  <2> QED BY <1>5, <2>1a, <2>2, <2>3 DEF IsInjective
<1> QED BY <1>6, <1>7

(* Attempts for places are numbers, and one place has one more of them.    *)
LEMMA AttemptSums ==
    ASSUME NEW i \in Nat, NEW n \in Nat, i <= n
    PROVE  /\ Attempts * i \in Nat
           /\ Attempts * (i + 1) = Attempts * i + Attempts
           /\ Attempts * i <= Attempts * n
BY AttemptsAssumption, Z3

(* The main loop's own variables while it waits for a proposer.            *)
LEMMA WaitLoop ==
    ASSUME LoopTyping, LoopInv, Wait
    PROVE  LoopTyping' /\ LoopInv'
<1> USE DEF LoopTyping, LoopInv
<1>0. main = "turn" /\ main' = "turn" /\ UNCHANGED <<base, tip, proposers, judged>> /\ base' \in 0..tip'
  BY DEF Wait, LoopKeeps, JudgeKeeps, chainVars
<1>1. /\ Attempts \in Nat /\ Attempts # 0 /\ tried \in Nat /\ tried < Attempts
      /\ index \in Nat /\ index >= 1 /\ index \in DOMAIN proposers /\ index <= Len(proposers)
      /\ waits \in Nat /\ waits >= Attempts * (index - 1) + tried
  BY <1>0, AttemptsAssumption
<1>2. Len(proposers) \in Nat /\ Len(proposers) <= Cardinality(Validator)
  BY InjectiveLength
<1>3. Cardinality(Validator) \in Nat
  BY ValidatorsFinite
<1>4. /\ Attempts * (index - 1) \in Nat /\ Attempts * index = Attempts * (index - 1) + Attempts
      /\ Attempts * index \in Nat /\ Attempts * index <= MostWaits /\ MostWaits \in Nat
  <2>1. index - 1 \in Nat /\ index - 1 <= Cardinality(Validator) /\ (index - 1) + 1 = index
        /\ index <= Cardinality(Validator)
    BY <1>1, <1>2, <1>3
  <2>2. Attempts * index \in Nat /\ Attempts * index <= Attempts * Cardinality(Validator)
    BY <1>1, <1>3, <2>1, AttemptSums
  <2>3. Attempts * Cardinality(Validator) \in Nat
    BY <1>3, AttemptSums
  <2>4. Attempts * (index - 1) \in Nat /\ Attempts * ((index - 1) + 1) = Attempts * (index - 1) + Attempts
    BY <1>3, <2>1, AttemptSums
  <2> QED BY <2>1, <2>2, <2>3, <2>4 DEF MostWaits
<1>5. waits' \in Nat /\ (waits' = waits + 1 \/ (waits' = waits /\ waits >= MostWaits))
  BY <1>1, <1>4 DEF Wait
<1>6. CASE tried + 1 < Attempts
  <2>1. tried' = tried + 1 /\ UNCHANGED <<index, tracker>>
    BY <1>6 DEF Wait, Attempt
  <2>2. tried' \in 0..Attempts - 1
    BY <1>1, <1>6, <2>1
  <2>3. waits' >= Attempts * (index' - 1) + tried'
    BY <1>1, <1>4, <1>5, <1>6, <2>1
  <2> QED BY <1>0, <1>5, <2>1, <2>2, <2>3
<1>7. CASE tried + 1 >= Attempts /\ index < Len(proposers)
  <2>1. tried' = 0 /\ index' = index + 1 /\ tracker' = Append(tracker, proposers[index + 1])
    BY <1>1, <1>7 DEF Wait, Attempt, NextProposer
  <2>2. index' - 1 = index /\ index' \in 1..Cardinality(Validator) /\ index' \in DOMAIN proposers
        /\ index' <= Len(proposers)
    BY <1>1, <1>2, <1>3, <1>7, <2>1
  <2>3. waits' >= Attempts * (index' - 1) + tried'
    BY <1>1, <1>4, <1>5, <1>7, <2>1, <2>2
  <2>4. tracker' \in Seq(Validator) /\ ToSet(tracker') = ToSet(tracker) \cup {proposers[index + 1]}
    <3>1. proposers[index + 1] \in Validator
      BY <2>1, <2>2
    <3>2. tracker \in Seq(Validator)
      BY <1>1
    <3>3. Len(tracker) \in Nat /\ DOMAIN tracker = 1 .. Len(tracker)
      BY <3>2
    <3>4. /\ tracker' \in Seq(Validator) /\ DOMAIN tracker' = 1 .. Len(tracker) + 1
          /\ \A i \in 1 .. Len(tracker) : tracker'[i] = tracker[i]
          /\ tracker'[Len(tracker) + 1] = proposers[index + 1]
      BY <2>1, <3>1, <3>2
    <3>5. 1 .. Len(tracker) + 1 = (1 .. Len(tracker)) \cup {Len(tracker) + 1}
      BY <3>3
    <3> QED BY <3>3, <3>4, <3>5 DEF ToSet
  <2>5. ASSUME NEW i \in DOMAIN proposers, proposers[i] \in ToSet(tracker')
        PROVE  i <= index'
    <3>1. CASE proposers[i] \in ToSet(tracker)
      BY <1>0, <1>1, <2>1, <3>1
    <3>2. CASE proposers[i] = proposers[index + 1]
      BY <1>1, <2>1, <2>2, <3>2 DEF IsInjective
    <3> QED BY <2>4, <2>5, <3>1, <3>2
  <2>6. tried' \in 0..Attempts - 1
    BY <1>1, <2>1
  <2> QED BY <1>0, <1>5, <2>2, <2>3, <2>4, <2>5, <2>6
<1>8. CASE tried + 1 >= Attempts /\ ~(index < Len(proposers))
  <2>1. tried' = 0 /\ UNCHANGED <<index, tracker>>
    BY <1>1, <1>8 DEF Wait, Attempt, NextProposer
  <2>2. tried' \in 0..Attempts - 1
    BY <1>1, <2>1
  <2>3. waits' >= Attempts * (index' - 1) + tried'
    BY <1>1, <1>4, <1>5, <2>1
  <2> QED BY <1>0, <1>5, <2>1, <2>2, <2>3
<1> QED BY <1>1, <1>6, <1>7, <1>8

(* And in the loop's other steps.                                          *)
LEMMA LoopSteps ==
    ASSUME Typing, LoopInv, LoopStep
    PROVE  LoopTyping' /\ LoopInv'
<1>0. LoopTyping /\ tip \in 0..MaxHeight /\ maker \in Key /\ base \in 0..MaxHeight
  BY BoundsAssumption DEF Typing, LoopTyping, ChainTyping
<1> USE DEF LoopTyping, LoopInv
<1>1. CASE ReadTip
  <2>1. index' \in 1..Cardinality(Validator) /\ tried' \in 0..Attempts - 1
    BY <1>1, ValidatorsFinite, AttemptsAssumption DEF ReadTip
  <2>2. proposers' = <<>> /\ main' = "elect" /\ base' \in 0..tip' /\ UNCHANGED <<tracker, waits>>
    BY <1>0, <1>1 DEF ReadTip, chainVars
  <2> QED BY <1>0, <1>1, <2>1, <2>2 DEF ReadTip, IsInjective, Places
<1>2. CASE Elect
  <2>1. /\ proposers' \in Seq(Validator) /\ IsInjective(proposers')
        /\ tracker' \in Seq(Validator)
        /\ \A i \in DOMAIN proposers' : proposers'[i] \in ToSet(tracker') => i = 1
    BY <1>0, <1>2, Elected DEF Typing
  <2>2. index' = 1 /\ tried' = 0 /\ waits' = 0 /\ main' = "loop" /\ UNCHANGED <<base, tip>>
    BY <1>0, <1>2 DEF Elect, LoopKeeps, JudgeKeeps, chainVars
  <2>3. Attempts * (index' - 1) + tried' = 0
    BY <2>2, AttemptsAssumption
  <2>4. index' \in 1..Cardinality(Validator) /\ tried' \in 0..Attempts - 1
    BY <2>2, ValidatorsFinite, AttemptsAssumption
  <2> QED BY <1>0, <2>1, <2>2, <2>3, <2>4 DEF Places
<1>3. CASE HaveTransactions
  <2>1. UNCHANGED <<base, tip, proposers, index, tried, tracker, judged, waits>> /\ main = "loop"
    BY <1>3 DEF HaveTransactions, LoopKeeps, JudgeKeeps, chainVars
  <2>2. main' = "dead" \/ (main' = "turn" /\ proposers # <<>>)
    BY <1>3 DEF HaveTransactions
  <2>3. proposers # <<>> => index \in DOMAIN proposers
    BY <1>0
  <2> QED BY <1>0, <2>1, <2>2, <2>3 DEF Places
<1>4. CASE NewBlock
  <2>1. UNCHANGED <<tip, proposers, index, tried, tracker, waits>> /\ base' = tip /\ main' = "judge"
    BY <1>4 DEF NewBlock, LoopKeeps, JudgeKeeps, chainVars, Judge
  <2>2. judged' \in Judged
    BY <1>0, <1>4 DEF NewBlock, Judge, Judged
  <2>3. base' \in 0..tip'
    BY <1>0, <2>1
  <2> QED BY <1>0, <2>1, <2>2, <2>3 DEF Places
<1>5. CASE MyTurn
  <2>1. UNCHANGED <<base, tip, proposers, index, tried, tracker, waits>> /\ main' = "judge"
    BY <1>5 DEF MyTurn, LoopKeeps, JudgeKeeps, chainVars, Judge
  <2>2. judged' \in Judged
    BY <1>5 DEF MyTurn, Judge, Judged
  <2> QED BY <1>0, <2>1, <2>2 DEF Places
<1>6. CASE Wait
  BY <1>0, <1>6, WaitLoop
<1>7. CASE JudgeUnknown \/ JudgeKnown
  <2>1. UNCHANGED <<base, tip, proposers, index, tried, tracker, waits>>
    BY <1>7 DEF JudgeUnknown, JudgeKnown, LoopKeeps, JudgeKeeps, chainVars
  <2>2. judged \in Judged
    BY <1>0, <1>7 DEF JudgeUnknown, JudgeKnown
  <2>3. \/ main' \in {"dead", "make", "start"}
        \/ main' = "strike" /\ judged' = [judged EXCEPT !.record = NoRecord]
        \/ /\ main' = "strike" /\ Stored(judged.key)
           /\ judged' = [judged EXCEPT !.record = records[judged.key]]
    BY <1>7 DEF JudgeUnknown, JudgeKnown, AfterJudging
  <2>4. Stored(judged.key) => records[judged.key] \in Record
    BY <2>2 DEF Stored, Judged, Typing, RegistryTyping, Recs
  <2>5. \A r \in Record : /\ [judged EXCEPT !.record = r] \in Judged
                          /\ [judged EXCEPT !.record = r].record = r /\ r # None
    BY <2>2, NoneAssumption DEF Judged
  <2>6. main' = "strike" => judged' \in Judged /\ judged'.record # None
    <3>1. main' = "strike" => \E r \in Record : judged' = [judged EXCEPT !.record = r]
      BY <2>3, <2>4, RecordChanges
    <3> QED BY <2>5, <3>1
  <2> QED BY <1>0, <2>1, <2>3, <2>6 DEF Places
<1>8. CASE Strike \/ Make
  <2>1. UNCHANGED <<base, proposers, index, tried, tracker, waits>>
    BY <1>8 DEF Strike, Make
  <2>2. main' \in {"make", "start", "store"}
    BY <1>8 DEF Strike, Make, AfterJudging
  <2>3. tip' = tip \/ tip' = tip + 1
    BY <1>8 DEF Strike, Make, StoreHeader, JudgeKeeps, chainVars
  <2>4. base' \in 0..tip'
    BY <1>0, <2>1, <2>3
  <2> QED BY <1>0, <2>1, <2>2, <2>4 DEF Places
<1> QED BY <1>1, <1>2, <1>3, <1>4, <1>5, <1>6, <1>7, <1>8 DEF LoopStep

(* And in all steps.                                                       *)
LEMMA LoopTyped ==
    ASSUME Typing, LoopInv, [Next]_vars
    PROVE  LoopTyping' /\ LoopInv'
<1>0. LoopTyping /\ tip \in 0..MaxHeight
  BY DEF Typing, ChainTyping
<1> USE DEF LoopTyping, LoopInv
<1>1. CASE LoopStep
  BY <1>1, LoopSteps
<1>2. CASE TxnStep \/ UNCHANGED vars
  <2>1. UNCHANGED <<loopVars, tip>>
    <3>1. CASE TxnStep
      <4>1. Arrival
        BY <3>1, TxnStepArrives DEF Typing
      <4> QED BY <4>1 DEF Arrival, Arrive, chainVars
    <3> QED BY <1>2, <3>1 DEF vars, chainVars
  <2> QED BY <1>0, <2>1 DEF loopVars
<1>3. CASE \E k \in Peers : PeerBlock(k)
  <2>1. UNCHANGED loopVars /\ tip' = tip + 1
    BY <1>3 DEF PeerBlock, StoreHeader
  <2>2. base' \in 0..tip'
    BY <1>0, <2>1 DEF loopVars
  <2> QED BY <1>0, <2>1, <2>2 DEF loopVars
<1>4. CASE StoreStep
  <2>1. UNCHANGED <<tip, base, proposers, index, tried, tracker, judged, waits>>
        /\ (main' = main \/ main' = "start")
    BY <1>4 DEF StoreStep, StoreUnbond, StoreLookup, StoreRecords, StoreProposer, StoreArchive,
       StoreUnchanged
  <2> QED BY <1>0, <2>1 DEF Places
<1>5. CASE Restart
  <2>1. index' \in 1..Cardinality(Validator) /\ tried' \in 0..Attempts - 1
    BY <1>5, ValidatorsFinite, AttemptsAssumption DEF Restart
  <2>2. proposers' = <<>> /\ tracker' = <<>> /\ index' = 1 /\ waits' = 0 /\ main' = "start"
        /\ base' \in 0..tip'
    BY <1>0, <1>5 DEF Restart
  <2> QED BY <1>0, <2>1, <2>2 DEF IsInjective, Places
<1> QED BY <1>1, <1>2, <1>3, <1>4, <1>5 DEF Next

(* What wallets hold: a header only moves spends from the pool to the      *)
(* block, and the block's first write takes them from the wallets.         *)
LEMMA FundsStep ==
    ASSUME Typing, FundsInv, [Next]_vars
    PROVE  FundsInv'
<1>0. RegistryTyping /\ ChainTyping /\ pool \in Seq(Txn) /\ wallets \in [Validator -> Nat]
  BY DEF Typing, RegistryTyping, ChainTyping
<1>1. Booked \in Seq(Txn)
  BY <1>0 DEF Booked, ChainTyping, Saving
<1>2. \A v \in Validator : /\ Spends(pool, v) \in Nat /\ Spends(Booked, v) \in Nat /\ wallets[v] \in Nat
                           /\ wallets[v] >= Spends(pool, v) + Spends(Booked, v)
  BY <1>0, <1>1, SpendsNone DEF FundsInv
<1>3. CASE Arrival
  <2>1. PICK t \in Txn :
            /\ Arrive(t)
            /\ t.type = "spend" =>
                  /\ check_validator(t.who)
                  /\ wallets[t.who] > Spends(pool, t.who) + Spends(Booked, t.who)
    BY <1>3 DEF Arrival
  <2>2. pool' = Append(pool, t) /\ wallets' = wallets /\ saving' = saving
    BY <2>1 DEF Arrive, registryVars, chainVars
  <2>3. Booked' = Booked
    BY <2>2 DEF Booked
  <2>4. ASSUME NEW v \in Validator
        PROVE  wallets'[v] >= Spends(pool', v) + Spends(Booked', v)
    <3>1. Spends(pool', v) = IF t.type = "spend" /\ t.who = v THEN Spends(pool, v) + 1
                             ELSE Spends(pool, v)
      BY <1>0, <2>2, SpendsAppend
    <3> QED BY <1>2, <2>1, <2>2, <2>3, <3>1
  <2> QED BY <2>4 DEF FundsInv
<1>4. CASE Header
  <2>1. PICK k \in Key, n \in 0..Len(pool) : StoreHeader(k, n)
    BY <1>4 DEF Header
  <2>2. /\ saving = None /\ pool' = SubSeq(pool, n + 1, Len(pool))
        /\ saving' # None /\ saving'.step = "unbond" /\ saving'.txns = SubSeq(pool, 1, n)
    BY <1>0, <2>1, HeaderSaves
  <2>3. Booked = <<>> /\ Booked' = SubSeq(pool, 1, n)
    BY <2>2 DEF Booked
  <2>4. wallets' = wallets
    BY <2>1 DEF StoreHeader, registryVars
  <2>5. ASSUME NEW v \in Validator
        PROVE  wallets'[v] >= Spends(pool', v) + Spends(Booked', v)
    <3>1. /\ Spends(Booked', v) \in Nat /\ Spends(pool', v) \in Nat
          /\ Spends(Booked', v) + Spends(pool', v) = Spends(pool, v)
      BY <1>0, <2>2, <2>3, SpendsSplit
    <3> QED BY <1>2, <2>4, <3>1
  <2> QED BY <2>5 DEF FundsInv
<1>5. CASE StoreUnbond
  <2>1. /\ saving # None /\ saving.step = "unbond"
        /\ saving' = None \/ saving'.step # "unbond"
    BY <1>0, <1>5, StoreMoves DEF StoreStep, StoreUnbond, At
  <2>2. Booked = saving.txns /\ Booked' = <<>>
    BY <2>1 DEF Booked
  <2>3. pool' = pool /\ wallets' = [v \in Validator |-> wallets[v] - Spends(saving.txns, v)]
    BY <1>5 DEF StoreUnbond, StoreUnchanged
  <2>4. \A v \in Validator : Spends(Booked', v) = 0
    BY <2>2, SpendsNone
  <2> QED BY <1>2, <2>2, <2>3, <2>4 DEF FundsInv
<1>6. CASE StoreLookup \/ StoreRecords \/ StoreProposer \/ StoreArchive
  <2>1. /\ saving # None /\ saving.step # "unbond"
        /\ saving' = None \/ saving'.step # "unbond"
    BY <1>0, <1>6, StoreMoves DEF StoreStep, StoreLookup, StoreRecords, StoreProposer,
       StoreArchive, At
  <2>2. Booked' = Booked
    BY <2>1 DEF Booked
  <2>3. UNCHANGED <<pool, wallets>>
    BY <1>6 DEF StoreLookup, StoreRecords, StoreProposer, StoreArchive, StoreUnchanged
  <2> QED BY <2>2, <2>3 DEF FundsInv
<1>7. CASE ReadTip \/ Strike \/ Still
  <2>1. UNCHANGED <<pool, wallets, saving>>
    BY <1>7 DEF ReadTip, Strike, Still, JudgeKeeps, registryVars, chainVars
  <2>2. Booked' = Booked
    BY <2>1 DEF Booked
  <2> QED BY <2>1, <2>2 DEF FundsInv
<1>8. CASE Restart
  <2>1. pool' = <<>> /\ saving' = None /\ wallets' = wallets
    BY <1>8 DEF Restart
  <2>2. Booked' = <<>>
    BY <2>1 DEF Booked
  <2>3. \A v \in Validator : Spends(pool', v) = 0 /\ Spends(Booked', v) = 0
    BY <2>1, <2>2, SpendsNone
  <2> QED BY <1>2, <2>1, <2>3 DEF FundsInv
<1> QED BY <1>0, <1>3, <1>4, <1>5, <1>6, <1>7, <1>8, StepKinds DEF StoreStep

(* Unbonding, while a block is stored.                                     *)
LEMMA UnbondStore ==
    ASSUME RegistryTyping, ChainTyping, UnbondInv, StoreStep
    PROVE  UnbondInv'
<1> DEFINE Free(v, looked, unbonds) ==
               \/ looked # None
               \/ unbonds # None /\ unbonds >= left[v]
               \/ clock - left[v] >= Unbonding
<1>0. /\ clock \in Nat /\ \A v \in Validator : left[v] # None => left[v] \in Nat
      /\ \A v \in Validator : unbond[v] # None => unbond[v] \in Nat
  BY BoundsAssumption DEF RegistryTyping, ChainTyping
<1>1. UNCHANGED <<left, clock>> /\ saving \in Saving /\ saving # None /\ saving.time = clock
      /\ saving.txns \in Seq(Txn) /\ clock # None
  <2>1. UNCHANGED <<left, clock>>
    BY DEF StoreStep, StoreUnbond, StoreLookup, StoreRecords, StoreProposer, StoreArchive,
       StoreUnchanged
  <2>2. saving \in Saving
    BY StoreMoves
  <2> QED BY <2>1, <2>2, NoneAssumption DEF Saving, ChainTyping
<1>2. \A v \in Validator : /\ unbond[v] # None => unbond[v] <= clock
                           /\ left[v] # None => left[v] <= clock /\ Free(v, lookup[v], unbond[v])
  BY DEF UnbondInv
<1>3. CASE StoreUnbond
  <2>1. saving.step = "unbond" /\ saving' # None /\ saving'.step = "lookup"
        /\ saving'.txns = saving.txns /\ saving'.time = saving.time /\ lookup' = lookup
    BY <1>3, StoreMoves DEF StoreUnbond
  <2>2. \A v \in Validator : Joins(saving.txns, v) => left[v] = None
    BY <1>1, <2>1 DEF UnbondInv
  <2>3. \A v \in Validator :
            unbond'[v] = IF Leaves(saving.txns, v) THEN clock
                         ELSE IF Joins(saving.txns, v) THEN None ELSE unbond[v]
    BY <1>1, <1>3 DEF StoreUnbond
  <2>4. ASSUME NEW v \in Validator
        PROVE  /\ unbond'[v] # None => unbond'[v] <= clock
               /\ left[v] # None => left[v] <= clock /\ Free(v, lookup[v], unbond'[v])
    BY <1>0, <1>1, <1>2, <2>2, <2>3
  <2>5. \A v \in Validator : Leaves(saving'.txns, v) => unbond'[v] = saving'.time
    BY <1>1, <2>1, <2>3
  <2> QED BY <1>1, <2>1, <2>4, <2>5 DEF UnbondInv
<1>4. CASE StoreLookup
  <2>1. saving.step = "lookup" /\ saving' # None /\ saving'.step = "records" /\ unbond' = unbond
    BY <1>4, StoreMoves DEF StoreLookup
  <2>2. \A v \in Validator : Leaves(saving.txns, v) => unbond[v] = clock
    BY <1>1, <2>1 DEF UnbondInv
  <2>3. \A v \in Validator :
            lookup'[v] = IF Leaves(saving.txns, v) THEN None
                         ELSE IF Joins(saving.txns, v) THEN LastOf(saving.txns, v).key
                         ELSE lookup[v]
    BY <1>4 DEF StoreLookup
  <2>4. \A v \in Validator : Joins(saving.txns, v) => LastOf(saving.txns, v).key # None
    BY <1>1, JoinsKey, NoneAssumption
  <2>5. ASSUME NEW v \in Validator
        PROVE  left[v] # None => Free(v, lookup'[v], unbond[v])
    BY <1>0, <1>1, <1>2, <2>2, <2>3, <2>4
  <2> QED BY <1>1, <1>2, <2>1, <2>5 DEF UnbondInv
<1>5. CASE StoreProposer
  <2>1. saving.step = "proposer" /\ saving' # None /\ saving'.step = "archive" /\ lookup' = lookup
    BY <1>5, StoreMoves DEF StoreProposer
  <2>2. \A v \in Validator :
            unbond'[v] = IF unbond[v] # None /\ clock - unbond[v] >= Unbonding THEN None
                         ELSE unbond[v]
    BY <1>1, <1>5 DEF StoreProposer, remove_unbonding_validators
  <2>3. ASSUME NEW v \in Validator
        PROVE  /\ unbond'[v] # None => unbond'[v] <= clock
               /\ left[v] # None => Free(v, lookup[v], unbond'[v])
    BY <1>0, <1>2, <2>2, AttemptsAssumption
  <2> QED BY <1>1, <1>2, <2>1, <2>3 DEF UnbondInv
<1>6. CASE StoreRecords \/ StoreArchive
  <2>1. UNCHANGED <<lookup, unbond>>
    BY <1>6 DEF StoreRecords, StoreArchive
  <2>2. saving' = None \/ saving'.step = "proposer"
    BY <1>6, StoreMoves
  <2> QED BY <1>1, <1>2, <2>1, <2>2 DEF UnbondInv
<1> QED BY <1>3, <1>4, <1>5, <1>6 DEF StoreStep

(* And in every step.                                                      *)
LEMMA UnbondStep ==
    ASSUME Typing, UnbondInv, [Next]_vars
    PROVE  UnbondInv'
<1>0. RegistryTyping /\ ChainTyping
  BY DEF Typing
<1>1. CASE Arrival \/ ReadTip \/ Strike \/ Still
  <2>1. UNCHANGED <<lookup, unbond, left, clock, saving>>
    BY <1>1 DEF Arrival, Arrive, ReadTip, Strike, Still, JudgeKeeps, registryVars, chainVars
  <2> QED BY <2>1 DEF UnbondInv
<1>2. CASE Header
  <2>1. PICK k \in Key, n \in 0..Len(pool) : StoreHeader(k, n)
    BY <1>2 DEF Header
  <2>2. /\ saving' # None /\ saving'.step = "unbond" /\ saving'.txns = SubSeq(pool, 1, n)
        /\ saving'.txns \in Seq(Txn) /\ clock' >= clock /\ clock' \in 0..MaxTime
    BY <1>0, <2>1, HeaderSaves
  <2>3. UNCHANGED <<lookup, unbond>>
    BY <2>1 DEF StoreHeader, registryVars
  <2>4. \A v \in Validator :
            left'[v] = IF Leaves(saving'.txns, v) /\ lookup[v] # None THEN clock'
                       ELSE IF Joins(saving'.txns, v) THEN None ELSE left[v]
    BY <2>1, <2>2 DEF StoreHeader
  <2>5. \A v \in Validator : Joins(saving'.txns, v) => left'[v] = None
    BY <2>2, <2>4, JoinsKey
  <2>6. /\ clock \in Nat /\ clock' \in Nat /\ \A v \in Validator : left[v] # None => left[v] \in Nat
        /\ \A v \in Validator : unbond[v] # None => unbond[v] \in Nat
    BY <1>0, <2>2, BoundsAssumption DEF RegistryTyping, ChainTyping
  <2>7. ASSUME NEW v \in Validator
        PROVE  /\ unbond[v] # None => unbond[v] <= clock'
               /\ left'[v] # None =>
                     /\ left'[v] <= clock'
                     /\ \/ lookup[v] # None
                        \/ unbond[v] # None /\ unbond[v] >= left'[v]
                        \/ clock' - left'[v] >= Unbonding
    <3>1. /\ unbond[v] # None => unbond[v] <= clock
          /\ left[v] # None =>
                /\ left[v] <= clock
                /\ \/ lookup[v] # None
                   \/ unbond[v] # None /\ unbond[v] >= left[v]
                   \/ clock - left[v] >= Unbonding
      BY DEF UnbondInv
    <3> QED BY <2>2, <2>4, <2>6, <3>1, AttemptsAssumption
  <2> QED BY <2>2, <2>3, <2>5, <2>7 DEF UnbondInv
<1>3. CASE StoreStep
  BY <1>0, <1>3, UnbondStore
<1>4. CASE Restart
  <2>1. UNCHANGED <<lookup, unbond, left, clock>> /\ saving' = None
    BY <1>4 DEF Restart
  <2> QED BY <2>1 DEF UnbondInv
<1> QED BY <1>0, <1>1, <1>2, <1>3, <1>4, StepKinds

(* The records a block leaves are those of the keys the wallets are left   *)
(* with.                                                                   *)
LEMMA RecordsFollow ==
    ASSUME RegistryTyping, ChainTyping, StoreRecords, Indexed(records, saving.old),
           \A v \in Validator : lookup[v] = Looked(v),
           \A v \in Validator : Cardinality(Of(saving.txns, v)) <= 1
    PROVE  Indexed(records', lookup)
<1>1. saving \in Saving /\ saving.txns \in Seq(Txn) /\ tip \in 0..MaxHeight /\ records \in Recs
  BY DEF StoreRecords, At, ChainTyping, RegistryTyping, Saving
<1> DEFINE txns == saving.txns
           r1 == FoldLeft(batch_validator_registration, records, txns)
           r2 == OnlineIfAlone(r1)
<1>2. r1 \in Recs /\ Owned(r1, txns, Len(txns))
  BY <1>1, RegisteredOwned DEF Indexed
<1>3. /\ r2 \in Recs
      /\ \A k \in Key \cup {NoKey} : r2[k] # None => r1[k] # None /\ r2[k].owner = r1[k].owner
  BY <1>2, AloneOwners
<1>4. records' = FoldLeft(batch_validator_heartbeat, r2, txns)
  BY DEF StoreRecords
<1> HIDE DEF r1, r2
<1>5. /\ records' \in Recs
      /\ \A k \in Key \cup {NoKey} :
            records'[k] # None /\ records'[k].owner # None =>
                r2[k] # None /\ r2[k].owner = records'[k].owner
  BY <1>1, <1>3, <1>4, BeatenOwners
<1>6. ASSUME NEW k \in Key \cup {NoKey}, records'[k] # None, records'[k].owner # None
      PROVE  lookup[records'[k].owner] = k
  <2>0. PICK v : v = records'[k].owner
    OBVIOUS
  <2>1. r1[k] # None /\ r1[k].owner = v /\ v # None
    BY <1>3, <1>5, <1>6, <2>0
  <2>2. v \in Validator
    <3>1. records'[k] \in Record
      BY <1>5, <1>6 DEF Recs
    <3> QED BY <1>6, <2>0, <3>1 DEF Record
  <2>3. lookup[v] = Looked(v)
    BY <2>2
  <2>4. CASE \E j \in 1..Len(txns) : txns[j].type = "register" /\ txns[j].who = v /\ txns[j].key = k
    <3>1. PICK j \in 1..Len(txns) : txns[j].type = "register" /\ txns[j].who = v /\ txns[j].key = k
      BY <2>4
    <3>2. j \in Of(txns, v)
      BY <1>1, <3>1 DEF Of, Registry
    <3>3. LastOf(txns, v) = txns[j]
      BY <1>1, <2>2, <3>2, OnlyOne
    <3> QED BY <2>0, <2>3, <3>1, <3>2, <3>3 DEF Looked, Leaves, Joins
  <2>5. CASE /\ saving.old[v] = k
             /\ \A j \in 1..Len(txns) : ~(Registry(txns[j]) /\ txns[j].who = v)
    <3>1. Of(txns, v) = {}
      BY <1>1, <2>5 DEF Of
    <3> QED BY <2>0, <2>3, <2>5, <3>1 DEF Looked, Leaves, Joins
  <2>6. \/ \E j \in 1..Len(txns) : txns[j].type = "register" /\ txns[j].who = v /\ txns[j].key = k
        \/ /\ saving.old[v] = k
           /\ \A j \in 1..Len(txns) : ~(Registry(txns[j]) /\ txns[j].who = v)
    BY <1>2, <2>1 DEF Owned
  <2> QED BY <2>4, <2>5, <2>6
<1> QED BY <1>6 DEF Indexed

(* Records and keys, while a block is stored.                              *)
LEMMA RegistryStore ==
    ASSUME RegistryTyping, ChainTyping, RegistryInv, StoreStep, ~disturbed
    PROVE  RegistryInv'
<1>1. saving \in Saving /\ saving # None /\ saving.key \in Key
  BY StoreMoves, NoneAssumption DEF Saving
<1>2. \A v \in Validator : Cardinality(Of(saving.txns, v)) <= 1
  BY <1>1 DEF RegistryInv
<1>3. CASE StoreUnbond
  <2>1. saving.step = "unbond" /\ saving' # None /\ saving'.step = "lookup"
        /\ saving'.txns = saving.txns /\ saving'.old = lookup /\ UNCHANGED <<records, lookup>>
    BY <1>3, StoreMoves DEF StoreUnbond
  <2>2. Indexed(records, lookup)
    BY <2>1 DEF RegistryInv
  <2> QED BY <1>2, <2>1, <2>2 DEF RegistryInv
<1>4. CASE StoreLookup
  <2>1. saving.step = "lookup" /\ saving' # None /\ saving'.step = "records"
        /\ saving'.txns = saving.txns /\ saving'.old = saving.old /\ records' = records
    BY <1>4, StoreMoves DEF StoreLookup
  <2>2. Indexed(records, saving.old) /\ saving.old = lookup
    BY <1>1, <2>1 DEF RegistryInv
  <2>3. \A v \in Validator : lookup'[v] = Looked(v)
    BY <1>4, <2>2 DEF StoreLookup, Looked
  <2>4. \A v \in Validator : Looked(v)' = Looked(v)
    BY <2>1 DEF Looked
  <2> QED BY <1>2, <2>1, <2>2, <2>3, <2>4 DEF RegistryInv
<1>5. CASE StoreRecords
  <2>1. saving.step = "records" /\ saving' # None /\ saving'.step = "proposer"
        /\ saving'.txns = saving.txns /\ lookup' = lookup
    BY <1>5, StoreMoves DEF StoreRecords
  <2>2. Indexed(records, saving.old) /\ \A v \in Validator : lookup[v] = Looked(v)
    BY <1>1, <2>1 DEF RegistryInv
  <2>3. Indexed(records', lookup)
    BY <1>2, <1>5, <2>2, RecordsFollow
  <2> QED BY <1>2, <2>1, <2>3 DEF RegistryInv
<1>6. CASE StoreProposer
  <2>1. saving.step = "proposer" /\ saving' # None /\ saving'.step = "archive"
        /\ saving'.txns = saving.txns /\ lookup' = lookup
    BY <1>6, StoreMoves DEF StoreProposer
  <2>2. Indexed(records, lookup)
    BY <2>1 DEF RegistryInv
  <2> DEFINE r == [Existing(records, saving.key) EXCEPT !.online = TRUE, !.seen = tip]
  <2>3. records' = [records EXCEPT ![saving.key] = r]
    BY <1>6 DEF StoreProposer, update_proposal_heartbeat
  <2>4. r.owner = Existing(records, saving.key).owner
    <3>1. records[saving.key] \in Record \cup {None}
      BY <1>1 DEF RegistryTyping, Recs
    <3>2. Existing(records, saving.key) \in Record
      BY <3>1, RecordChanges DEF Existing
    <3>3. \A e \in Record : [e EXCEPT !.online = TRUE, !.seen = tip].owner = e.owner
      BY DEF Record
    <3> QED BY <3>2, <3>3
  <2>5. Existing(records, saving.key).owner # None =>
            records[saving.key] # None /\ records[saving.key].owner = Existing(records, saving.key).owner
    BY RecordChanges DEF Existing
  <2> HIDE DEF r
  <2>6. Indexed(records', lookup)
    BY <1>1, <2>2, <2>3, <2>4, <2>5 DEF Indexed, RegistryTyping, Recs
  <2> QED BY <1>2, <2>1, <2>6 DEF RegistryInv
<1>7. CASE StoreArchive
  <2>1. saving.step = "archive" /\ saving' = None /\ UNCHANGED <<records, lookup>>
    BY <1>7, StoreMoves DEF StoreArchive
  <2>2. Indexed(records, lookup)
    BY <2>1 DEF RegistryInv
  <2> QED BY <2>1, <2>2 DEF RegistryInv
<1> QED BY <1>3, <1>4, <1>5, <1>6, <1>7 DEF StoreStep

(* Once disturbed, always disturbed.                                       *)
LEMMA StaysDisturbed ==
    ASSUME Typing, [Next]_vars, ~disturbed'
    PROVE  ~disturbed
<1>0. RegistryTyping /\ ChainTyping
  BY DEF Typing
<1>1. CASE Arrival \/ ReadTip \/ Still
  BY <1>1 DEF Arrival, Arrive, ReadTip, Still
<1>2. CASE Header
  BY <1>2 DEF Header, StoreHeader
<1>3. CASE StoreStep
  BY <1>3 DEF StoreStep, StoreUnbond, StoreLookup, StoreRecords, StoreProposer, StoreArchive,
     StoreUnchanged
<1>4. CASE Strike
  BY <1>4 DEF Strike
<1>5. CASE Restart
  BY <1>5 DEF Restart
<1> QED BY <1>0, <1>1, <1>2, <1>3, <1>4, <1>5, StepKinds

(* Records and keys in every step.                                         *)
LEMMA RegistryStep ==
    ASSUME Typing, RegistryInv, [Next]_vars
    PROVE  RegistryInv'
<1>0. RegistryTyping /\ ChainTyping
  BY DEF Typing
<1>a. SUFFICES ASSUME ~disturbed' PROVE RegistryInv'
  BY DEF RegistryInv
<1>b. ~disturbed
  BY <1>a, StaysDisturbed
<1>1. CASE Arrival \/ ReadTip \/ Still
  <2>1. UNCHANGED <<lookup, records, saving, disturbed>>
    BY <1>1 DEF Arrival, Arrive, ReadTip, Still, registryVars, chainVars
  <2> QED BY <2>1 DEF RegistryInv, Looked
<1>2. CASE Header
  <2>1. PICK k \in Key, n \in 0..Len(pool) : StoreHeader(k, n)
    BY <1>2 DEF Header
  <2>2. /\ saving = None /\ saving' # None /\ saving'.step = "unbond"
        /\ saving'.txns = SubSeq(pool, 1, n) /\ saving'.txns \in Seq(Txn)
    BY <1>0, <2>1, HeaderSaves
  <2>3. UNCHANGED <<lookup, records>> /\ Indexed(records, lookup)
    BY <1>b, <2>1, <2>2 DEF StoreHeader, registryVars, RegistryInv
  <2>4. \A v \in Validator : ~(Cardinality(Of(saving'.txns, v)) > 1)
    BY <1>a, <2>1, <2>2 DEF StoreHeader
  <2>5. \A v \in Validator : Cardinality(Of(saving'.txns, v)) \in Nat
    BY <2>2, IndexesFinite DEF Of
  <2>6. \A v \in Validator : Cardinality(Of(saving'.txns, v)) <= 1
    BY <2>4, <2>5
  <2> QED BY <2>2, <2>3, <2>6 DEF RegistryInv
<1>3. CASE StoreStep
  BY <1>0, <1>b, <1>3, RegistryStore
<1>4. CASE Strike
  <2>1. UNCHANGED <<lookup, records, saving, disturbed>>
    BY <1>a, <1>4 DEF Strike, JudgeKeeps, chainVars
  <2> QED BY <2>1 DEF RegistryInv, Looked
<1>5. CASE Restart
  <2>1. UNCHANGED <<lookup, records>> /\ saving' = None /\ saving = None
    BY <1>a, <1>5 DEF Restart
  <2>2. Indexed(records, lookup)
    BY <1>b, <2>1 DEF RegistryInv
  <2> QED BY <2>1, <2>2 DEF RegistryInv
<1> QED BY <1>0, <1>1, <1>2, <1>3, <1>4, <1>5, StepKinds

(* The maker of a block gets into its archive.                             *)
LEMMA MakerStep ==
    ASSUME Typing, MakerInv, [Next]_vars
    PROVE  MakerInv'
<1>0. RegistryTyping /\ ChainTyping
  BY DEF Typing
<1>a. SUFFICES ASSUME ~disturbed', restarts' = 0 PROVE MakerInv'
  BY DEF MakerInv
<1>b. ~disturbed
  BY <1>a, StaysDisturbed
<1>1. CASE Arrival \/ Still \/ Strike
  <2>1. UNCHANGED <<records, saving, maker, tip, archive, restarts, disturbed>>
    BY <1>a, <1>1 DEF Arrival, Arrive, Still, Strike, JudgeKeeps, registryVars, chainVars
  <2> QED BY <2>1 DEF MakerInv
<1>2. CASE Header
  <2>1. PICK k \in Key, n \in 0..Len(pool) : StoreHeader(k, n)
    BY <1>2 DEF Header
  <2>2. saving' # None /\ saving'.step = "unbond" /\ saving'.key = k /\ maker' = k
    BY <1>0, <2>1, HeaderSaves
  <2> QED BY <2>2 DEF MakerInv
<1>3. CASE StoreStep
  <2>1. saving # None /\ saving \in Saving /\ UNCHANGED <<maker, tip, restarts>>
    <3>1. UNCHANGED <<maker, tip, restarts>>
      BY <1>3 DEF StoreStep, StoreUnbond, StoreLookup, StoreRecords, StoreProposer, StoreArchive,
         StoreUnchanged
    <3> QED BY <1>0, <1>3, <3>1, StoreMoves, NoneAssumption
  <2>2. saving.key = maker
    BY <1>a, <1>b, <2>1 DEF MakerInv
  <2>3. CASE StoreUnbond \/ StoreLookup \/ StoreRecords
    <3>1. saving' # None /\ saving'.key = maker /\ saving'.step # "archive"
      BY <1>0, <1>3, <2>2, <2>3, StoreMoves
    <3> QED BY <2>1, <3>1 DEF MakerInv
  <2>4. CASE StoreProposer
    <3>1. saving' # None /\ saving'.key = maker
      BY <1>0, <1>3, <2>2, <2>4, StoreMoves
    <3>2. Existing(records, maker) \in Record
      <4>1. records[maker] \in Record \cup {None}
        BY <1>0 DEF RegistryTyping, ChainTyping, Recs
      <4> QED BY <4>1, RecordChanges DEF Existing
    <3> DEFINE r == [Existing(records, maker) EXCEPT !.online = TRUE, !.seen = tip]
    <3>3. r \in Record /\ r.online = TRUE /\ r.seen = tip
      <4>1. tip \in 0..MaxHeight
        BY <1>0 DEF ChainTyping
      <4>2. \A e \in Record : LET n == [e EXCEPT !.online = TRUE, !.seen = tip]
                              IN  n \in Record /\ n.online = TRUE /\ n.seen = tip
        BY <4>1 DEF Record
      <4> QED BY <3>2, <4>2
    <3>4. records' = [records EXCEPT ![maker] = r]
      BY <2>2, <2>4 DEF StoreProposer, update_proposal_heartbeat
    <3> HIDE DEF r
    <3>5. records'[maker] = r
      BY <1>0, <3>4 DEF RegistryTyping, ChainTyping, Recs
    <3>6. records'[maker] # None /\ records'[maker].online /\ records'[maker].seen = tip
      BY <3>3, <3>5, NoneAssumption
    <3> QED BY <2>1, <3>1, <3>6 DEF MakerInv
  <2>5. CASE StoreArchive
    <3>1. saving' = None /\ saving.step = "archive" /\ archive' = [archive EXCEPT ![tip] = Archive(tip)]
      BY <1>0, <1>3, <2>5, StoreMoves DEF StoreArchive
    <3>2. records[maker] # None /\ records[maker].online /\ records[maker].seen = tip
      BY <1>a, <1>b, <2>1, <3>1 DEF MakerInv
    <3>3. maker \in DOMAIN records /\ tip \in Nat /\ tip \in DOMAIN archive
      BY <1>0, BoundsAssumption DEF RegistryTyping, ChainTyping, Recs
    <3>4. check_online_version(records[maker], tip)
      BY <3>2, <3>3, AttemptsAssumption DEF check_online_version
    <3>5. \E e \in Archive(tip) : e.key = maker
      <4> DEFINE e == [key |-> maker, owner |-> records[maker].owner,
                       stake |-> Stake(records[maker].owner)]
      <4>1. maker \in {k \in DOMAIN records : Stored(k) /\ check_online_version(records[k], tip)}
        BY <3>2, <3>3, <3>4 DEF Stored
      <4>2. e \in Archive(tip)
        BY <4>1 DEF Archive
      <4> QED BY <4>2
    <3>6. archive'[tip] = Archive(tip)
      BY <3>1, <3>3
    <3> QED BY <2>1, <3>1, <3>5, <3>6 DEF MakerInv
  <2> QED BY <1>3, <2>3, <2>4, <2>5 DEF StoreStep
<1>4. CASE ReadTip
  <2>1. UNCHANGED <<records, saving, maker, tip, restarts, disturbed>>
    BY <1>4 DEF ReadTip, chainVars
  <2>2. archive'[tip] = archive[tip]
    BY <1>0, <1>4 DEF ReadTip, ChainTyping
  <2> QED BY <2>1, <2>2 DEF MakerInv
<1>5. CASE Restart
  <2>1. restarts' = restarts + 1 /\ restarts \in Nat
    BY <1>0, <1>5 DEF Restart, ChainTyping
  <2> QED BY <1>a, <2>1
<1> QED BY <1>0, <1>1, <1>2, <1>3, <1>4, <1>5, StepKinds

(* What is archived when the records agree with the keys.                  *)
LEMMA ArchiveEntries ==
    ASSUME RegistryTyping, Indexed(records, lookup), NEW h
    PROVE  \A e \in Archive(h) : e.owner # None => e.key = lookup[e.owner] /\ e.stake = wallets[e.owner]
BY DEF Archive, Stored, Stake, Indexed, RegistryTyping, Recs

(* The stakes of the last archive.                                         *)
LEMMA StakesStep ==
    ASSUME Typing, RegistryInv, StakesInv, [Next]_vars
    PROVE  StakesInv'
<1>0. RegistryTyping /\ ChainTyping
  BY DEF Typing
<1>a. SUFFICES ASSUME ~disturbed', saving' = None PROVE StakesInv'
  BY DEF StakesInv, Quiet
<1>b. ~disturbed
  BY <1>a, StaysDisturbed
<1>1. CASE Arrival \/ Still \/ Strike
  <2>1. UNCHANGED <<lookup, wallets, archive, tip, saving>>
    BY <1>1 DEF Arrival, Arrive, Still, Strike, JudgeKeeps, registryVars, chainVars
  <2> QED BY <1>b, <2>1 DEF StakesInv, Quiet
<1>2. CASE Header
  BY <1>0, <1>2, <1>a, HeaderSaves DEF Header
<1>3. CASE StoreStep
  <2>1. StoreArchive
    BY <1>0, <1>3, <1>a, StoreMoves DEF StoreStep
  <2>2. UNCHANGED <<lookup, wallets, tip>> /\ archive' = [archive EXCEPT ![tip] = Archive(tip)]
    BY <2>1 DEF StoreArchive, StoreUnchanged
  <2>3. saving # None /\ saving.step = "archive"
    BY <2>1 DEF StoreArchive, At
  <2>4. Indexed(records, lookup)
    BY <1>b, <2>3 DEF RegistryInv
  <2>5. archive'[tip] = Archive(tip)
    BY <1>0, <2>2 DEF RegistryTyping, ChainTyping
  <2> QED BY <1>0, <2>2, <2>4, <2>5, ArchiveEntries DEF StakesInv
<1>4. CASE ReadTip
  <2>1. UNCHANGED <<lookup, wallets, tip, saving>>
    BY <1>4 DEF ReadTip, chainVars
  <2>2. archive'[tip] = archive[tip]
    BY <1>0, <1>4 DEF ReadTip, ChainTyping
  <2> QED BY <1>a, <1>b, <2>1, <2>2 DEF StakesInv, Quiet
<1>5. CASE Restart
  <2>1. UNCHANGED <<lookup, wallets, tip>> /\ archive' = [archive EXCEPT ![tip] = Archive(tip)]
        /\ saving = None
    BY <1>5, <1>a DEF Restart, initial_archive
  <2>2. Indexed(records, lookup)
    BY <1>b, <2>1 DEF RegistryInv
  <2>3. archive'[tip] = Archive(tip)
    BY <1>0, <2>1 DEF RegistryTyping, ChainTyping
  <2> QED BY <1>0, <2>1, <2>2, <2>3, ArchiveEntries DEF StakesInv
<1> QED BY <1>0, <1>1, <1>2, <1>3, <1>4, <1>5, StepKinds

-----------------------------------------------------------------------------
(* The theorems. *)

IInv == Typing /\ LoopInv /\ FundsInv /\ UnbondInv /\ RegistryInv /\ MakerInv /\ StakesInv

(* The parts hold together.                                                *)
LEMMA Inductive == Spec => []IInv
<1>1. Init => IInv
  BY TypingInit, RegistryInit DEF IInv
<1>2. IInv /\ [Next]_vars => IInv'
  <2> SUFFICES ASSUME IInv, [Next]_vars PROVE IInv'
    OBVIOUS
  <2>1. Typing'
    BY RegistryTyped, ChainTyped, LoopTyped, StrikesTyped DEF IInv, Typing
  <2>2. LoopInv' /\ FundsInv' /\ UnbondInv'
    BY LoopTyped, FundsStep, UnbondStep DEF IInv
  <2>3. RegistryInv' /\ MakerInv' /\ StakesInv'
    BY RegistryStep, MakerStep, StakesStep DEF IInv
  <2> QED BY <2>1, <2>2, <2>3 DEF IInv
<1> QED BY <1>1, <1>2, PTL DEF Spec

(* A node takes a block of the n-th elected validator from the broadcast   *)
(* only after all attempts for those before it: get_proposer_or_new_block  *)
(* gives each of them Attempts rounds, whatever the order of the election, *)
(* the stores of peers' blocks and the restarts in between.                *)
THEOREM BackupsWait == Spec => []BackupWaits
<1>1. Typing /\ LoopInv => BackupWaits
  <2> SUFFICES ASSUME Typing, LoopInv, main \in {"loop", "turn"},
                      NEW i \in DOMAIN proposers, proposers[i] \in ToSet(tracker)
               PROVE  waits >= Attempts * (i - 1)
    BY DEF BackupWaits
  <2>1. /\ i \in Nat /\ i >= 1 /\ i <= index /\ index \in Nat /\ tried \in Nat /\ waits \in Nat
        /\ waits >= Attempts * (index - 1) + tried
    BY AttemptsAssumption, ValidatorsFinite DEF LoopInv, Typing, LoopTyping
  <2>2. i - 1 \in Nat /\ index - 1 \in Nat /\ i - 1 <= index - 1
    BY <2>1
  <2>3. /\ Attempts * (i - 1) \in Nat /\ Attempts * (index - 1) \in Nat
        /\ Attempts * (i - 1) <= Attempts * (index - 1)
    BY <2>2, AttemptSums
  <2> QED BY <2>1, <2>3
<1> QED BY <1>1, Inductive, PTL DEF IInv

(* Whenever a height is archived, the next election can be held: as long   *)
(* as nothing has disturbed the records (batch_validator.cpp:56), each of  *)
(* them is the one its wallet's key leads to, so that the entries of the   *)
(* archive have different owners, each with its stake, and the draws end   *)
(* (select_validators.cpp:185); and the last block's maker is one of them  *)
(* (store_txns.cpp:292).                                                   *)
THEOREM ElectionsAlwaysPossible == Spec => []ElectionsPossible
<1>1. IInv => ElectionsPossible
  <2> SUFFICES ASSUME IInv PROVE ElectionsPossible
    OBVIOUS
  <2> USE DEF IInv
  <2>1. TypeOK
    BY TypingTypes
  <2>2. RecordsIndexed
    <3>1. Quiet => Indexed(records, lookup)
      BY DEF Quiet, RegistryInv
    <3> QED BY <3>1 DEF RecordsIndexed, Indexed, Stored
  <2>3. PlacesFillable
    <3> SUFFICES ASSUME Quiet, \A v \in Validator : wallets[v] > 0, archive[tip] # None
                 PROVE  Fillable(Weighted(tip))
      BY DEF PlacesFillable
    <3>1. archive[tip] \subseteq Entry
      BY DEF Typing, RegistryTyping, ChainTyping
    <3>2. \A e \in archive[tip] : e.owner # None =>
              e.key = lookup[e.owner] /\ e.stake = wallets[e.owner]
      BY DEF StakesInv
    <3>3. ASSUME NEW e \in Weighted(tip) PROVE e.owner \in Validator /\ e.stake > 0
      <4>1. e \in Entry /\ e \in archive[tip] /\ e.owner # None
        BY <3>1 DEF Weighted
      <4>2. e.owner \in Validator
        BY <4>1 DEF Entry
      <4> QED BY <3>2, <4>1, <4>2
    <3>4. ASSUME NEW e \in Weighted(tip), NEW f \in Weighted(tip), e.owner = f.owner PROVE e = f
      <4>1. e \in Entry /\ f \in Entry /\ e.owner # None
            /\ e \in archive[tip] /\ f \in archive[tip]
        BY <3>1 DEF Weighted
      <4>2. e.key = f.key /\ e.stake = f.stake
        BY <3>2, <3>4, <4>1
      <4> QED BY <3>4, <4>1, <4>2 DEF Entry
    <3> QED BY <3>3, <3>4, Fills
  <2>4. MakerArchived
    BY DEF MakerArchived, MakerInv, Quiet
  <2> QED BY <2>1, <2>2, <2>3, <2>4 DEF ElectionsPossible
<1> QED BY <1>1, Inductive, PTL

(* From the moment a wallet's unregistration is in a block, nothing it     *)
(* spends is accepted until the unbonding time is over or it has           *)
(* registered again: check_validator refuses it by the one or the other of *)
(* two databases, whichever of them the store has written.                 *)
THEOREM SpendsAlwaysUnbonded == Spec => SpendsUnbonded
<1>1. IInv /\ [Next]_vars => [\A v \in Validator :
        (/\ Len(pool') = Len(pool) + 1
         /\ Last(pool').type = "spend" /\ Last(pool').who = v
         /\ left[v] # None)
            => clock - left[v] >= Unbonding]_vars
  <2> SUFFICES ASSUME IInv, [Next]_vars, NEW v \in Validator, Len(pool') = Len(pool) + 1,
                      Last(pool').type = "spend", Last(pool').who = v, left[v] # None
               PROVE  clock - left[v] >= Unbonding
    OBVIOUS
  <2>0. RegistryTyping /\ ChainTyping /\ pool \in Seq(Txn) /\ Len(pool) \in Nat
    BY DEF IInv, Typing, ChainTyping
  <2>1. CASE Arrival
    <3>1. PICK t \in Txn :
              /\ Arrive(t)
              /\ t.type = "spend" =>
                    /\ check_validator(t.who)
                    /\ wallets[t.who] > Spends(pool, t.who) + Spends(Booked, t.who)
      BY <2>1 DEF Arrival
    <3>2. pool' = Append(pool, t)
      BY <3>1 DEF Arrive
    <3>3. Last(pool') = t
      BY <2>0, <3>2 DEF Last
    <3>4. lookup[v] = None /\ unbond[v] = None
      BY <3>1, <3>3 DEF check_validator
    <3> QED BY <3>4 DEF IInv, UnbondInv
  <2>2. CASE Header
    <3>1. PICK k \in Key, n \in 0..Len(pool) : pool' = SubSeq(pool, n + 1, Len(pool))
      BY <2>0, <2>2, HeaderSaves DEF Header
    <3>2. Len(pool') <= Len(pool)
      BY <2>0, <3>1
    <3> QED BY <2>0, <3>2
  <2>3. CASE StoreStep \/ ReadTip \/ Strike \/ Still
    <3>1. pool' = pool
      BY <2>3 DEF StoreStep, StoreUnbond, StoreLookup, StoreRecords, StoreProposer, StoreArchive,
         StoreUnchanged, ReadTip, Strike, Still, JudgeKeeps
    <3> QED BY <2>0, <3>1
  <2>4. CASE Restart
    <3>1. pool' = <<>>
      BY <2>4 DEF Restart
    <3> QED BY <2>0, <3>1
  <2> QED BY <2>0, <2>1, <2>2, <2>3, <2>4, StepKinds
<1> QED BY <1>1, Inductive, PTL DEF Spec, SpendsUnbonded

-----------------------------------------------------------------------------
(* Thread pools. *)

(* Every variable keeps its type, and the queue its limit: a thread tests  *)
(* the length under the mutex each time it is woken.                       *)
IType == PoolTypeOK /\ QueueBounded

(* The first state has the right types.                                    *)
LEMMA TypeInit == PoolInit => IType
<1> SUFFICES ASSUME PoolInit PROVE IType
  OBVIOUS
<1>1. ASSUME NEW th \in Thread PROVE todo[th] \in Seq(Task)
  BY RequestsAssumption DEF PoolInit, Thread
<1>2. Len(tasks) = 0 /\ tasks \in Seq(Task)
  BY DEF PoolInit
<1>3. todo \in [Thread -> Seq(Task)]
  BY <1>1 DEF PoolInit
<1>4. /\ at \in [Thread -> PoolPlaces]
      /\ \A p \in Producer : at[p] = "run"
      /\ \A th \in Thread : at[th] # "full"
  BY ThreadAssumption DEF PoolInit, Thread, PoolPlaces
<1>5. task \in [Worker -> Task \cup {NoTask}] /\ ran \subseteq Task /\ waited \in BOOLEAN
  BY DEF PoolInit
<1> QED BY <1>2, <1>3, <1>4, <1>5, MaxQueueSizeAssumption DEF IType, PoolTypeOK, QueueBounded

(* Every step keeps the types and the bound.                               *)
LEMMA TypeStep == IType /\ [PoolNext]_poolVars => IType'
<1> SUFFICES ASSUME IType, [PoolNext]_poolVars PROVE IType'
  OBVIOUS
<1> USE ThreadAssumption DEF IType, PoolTypeOK, QueueBounded, Thread, PoolPlaces
<1>1. ASSUME NEW th \in Thread, Push(th) PROVE IType'
  BY <1>1, MaxQueueSizeAssumption DEF Push
<1>2. ASSUME NEW th \in Thread, Block(th) PROVE IType'
  BY <1>2 DEF Block
<1>3. ASSUME NEW th \in Thread, Notify(th) PROVE IType'
  BY <1>3 DEF Notify, Waiting, Woken
<1>4. ASSUME NEW w \in Worker, Take(w) PROVE IType'
  <2>1. Head(tasks) \in Task /\ Tail(tasks) \in Seq(Task) /\ Spawns[Head(tasks)] \in Seq(Task)
    BY <1>4, SpawnsAssumption DEF Take
  <2>2. Len(Tail(tasks)) <= MaxQueueSize
    BY <1>4, MaxQueueSizeAssumption DEF Take
  <2> QED BY <1>4, <2>1, <2>2 DEF Take
<1>5. ASSUME NEW w \in Worker, Sleep(w) PROVE IType'
  BY <1>5 DEF Sleep
<1>6. ASSUME NEW w \in Worker, Finish(w) PROVE IType'
  BY <1>6 DEF Finish
<1>7. ASSUME NEW th \in Thread, SpuriousWake(th) PROVE IType'
  BY <1>7 DEF SpuriousWake, Waiting, Woken
<1>8. CASE UNCHANGED poolVars
  BY <1>8 DEF poolVars
<1> QED BY <1>1, <1>2, <1>3, <1>4, <1>5, <1>6, <1>7, <1>8
        DEF PoolNext, ThreadStep, EnqueueStep, WorkerStep

(* Type correctness and the limit of the queue, in every instance.         *)
THEOREM QueueStaysBounded == PoolSpec => [](PoolTypeOK /\ QueueBounded)
<1> QED BY TypeInit, TypeStep, PTL DEF PoolSpec, IType

(* A thread waits for room only if that is on record, and a queued task is *)
(* either announced or looked for.                                         *)
ISleep ==
    /\ ~waited => \A th \in Thread : at[th] # "full"
    /\ NoSleepBesideWork

(* Every step keeps somebody awake beside a queued task, until somebody    *)
(* waits for room.                                                         *)
LEMMA SleepStep == IType /\ ISleep /\ [PoolNext]_poolVars => ISleep'
<1> SUFFICES ASSUME IType, ISleep, [PoolNext]_poolVars, ~waited' PROVE ISleep'
  BY DEF ISleep, NoSleepBesideWork
<1> USE ThreadAssumption DEF ISleep, NoSleepBesideWork, IType, PoolTypeOK, Thread, PoolPlaces
<1>1. ASSUME NEW th \in Thread, Push(th) PROVE ISleep'
  BY <1>1 DEF Push
<1>2. ASSUME NEW th \in Thread, Block(th) PROVE ISleep'
  BY <1>2 DEF Block
<1>3. ASSUME NEW th \in Thread, Notify(th) PROVE ISleep'
  <2>1. CASE Waiting = {}
    BY <1>3, <2>1 DEF Notify, Waiting
  <2>2. ASSUME NEW u \in Waiting, at' = [at EXCEPT ![th] = "run", ![u] = Woken(u)]
        PROVE ISleep'
    <3>1. u \in Worker /\ at'[u] = "look"
      BY <1>3, <2>2 DEF Notify, Waiting, Woken
    <3> QED BY <1>3, <2>2, <3>1 DEF Notify, Waiting, Woken
  <2> QED BY <1>3, <2>1, <2>2 DEF Notify
<1>4. ASSUME NEW w \in Worker, Take(w) PROVE ISleep'
  BY <1>4 DEF Take
<1>5. ASSUME NEW w \in Worker, Sleep(w) PROVE ISleep'
  BY <1>5 DEF Sleep
<1>6. ASSUME NEW w \in Worker, Finish(w) PROVE ISleep'
  BY <1>6 DEF Finish
<1>7. ASSUME NEW th \in Thread, SpuriousWake(th) PROVE ISleep'
  BY <1>7 DEF SpuriousWake, Waiting, Woken
<1>8. CASE UNCHANGED poolVars
  BY <1>8 DEF poolVars
<1> QED BY <1>1, <1>2, <1>3, <1>4, <1>5, <1>6, <1>7, <1>8
        DEF PoolNext, ThreadStep, EnqueueStep, WorkerStep

(* As long as no thread has had to wait for room, no notification is lost: *)
(* the workers do not all sleep beside a queued task.                      *)
THEOREM NoLostNotification == PoolSpec => []NoSleepBesideWork
<1>1. PoolInit => ISleep
  BY ThreadAssumption DEF PoolInit, ISleep, NoSleepBesideWork, Thread
<1> QED BY <1>1, TypeInit, TypeStep, SleepStep, PTL DEF PoolSpec, ISleep

-----------------------------------------------------------------------------
(* Sequences in which nothing is twice. *)

(* What is appended is the only new element.                               *)
LEMMA AppendElements ==
    ASSUME NEW T, NEW s \in Seq(T), NEW e \in T
    PROVE  /\ Elements(Append(s, e)) = Elements(s) \cup {e}
           /\ Once(s) /\ e \notin Elements(s) => Once(Append(s, e))
<1> DEFINE a == Append(s, e)
<1>1. /\ Len(s) \in Nat /\ DOMAIN s = 1 .. Len(s) /\ DOMAIN a = 1 .. Len(s) + 1
      /\ \A i \in 1 .. Len(s) : a[i] = s[i]
      /\ a[Len(s) + 1] = e
  OBVIOUS
<1> HIDE DEF a
<1>2. 1 .. Len(s) + 1 = (1 .. Len(s)) \cup {Len(s) + 1}
  BY <1>1
<1>3. Elements(a) = Elements(s) \cup {e}
  BY <1>1, <1>2 DEF Elements
<1>4. ASSUME Once(s), e \notin Elements(s) PROVE Once(a)
  BY <1>1, <1>2, <1>4 DEF Elements, Once
<1> QED BY <1>3, <1>4 DEF a

(* Without its head a sequence has lost one element.                       *)
LEMMA TailElements ==
    ASSUME NEW T, NEW s \in Seq(T), s # <<>>, Once(s)
    PROVE  /\ Once(Tail(s)) /\ Head(s) \in Elements(s)
           /\ Elements(Tail(s)) = Elements(s) \ {Head(s)}
<1> DEFINE b == Tail(s)
<1>1. /\ Len(s) \in Nat /\ Len(s) >= 1 /\ DOMAIN s = 1 .. Len(s) /\ Head(s) = s[1]
      /\ DOMAIN b = 1 .. Len(s) - 1
      /\ \A i \in 1 .. Len(s) - 1 : b[i] = s[i + 1]
  OBVIOUS
<1> HIDE DEF b
<1>2. Once(b) /\ Head(s) \in Elements(s)
  <2>1. ASSUME NEW i \in DOMAIN b, NEW k \in DOMAIN b, b[i] = b[k] PROVE i = k
    <3>1. /\ i \in Int /\ k \in Int /\ i + 1 \in DOMAIN s /\ k + 1 \in DOMAIN s
          /\ b[i] = s[i + 1] /\ b[k] = s[k + 1]
      BY <1>1
    <3>2. i + 1 = k + 1
      BY <2>1, <3>1 DEF Once
    <3> QED BY <3>1, <3>2
  <2>2. 1 \in DOMAIN s
    BY <1>1
  <2> QED BY <1>1, <2>1, <2>2 DEF Once, Elements
<1>3. Elements(b) \subseteq Elements(s) \ {Head(s)}
  BY <1>1 DEF Once, Elements
<1>4. ASSUME NEW e \in Elements(s) \ {Head(s)} PROVE e \in Elements(b)
  <2>1. PICK i \in 1 .. Len(s) : s[i] = e
    BY <1>1 DEF Elements
  <2>2. i - 1 \in 1 .. Len(s) - 1
    BY <1>1, <1>4, <2>1
  <2>3. b[i - 1] = e
    BY <1>1, <2>1, <2>2
  <2> QED BY <1>1, <2>2, <2>3 DEF Elements
<1> QED BY <1>2, <1>3, <1>4 DEF b

(* A sequence in which nothing is twice has as many elements as its length. *)
LEMMA OnceCardinality ==
    ASSUME NEW T, NEW s \in Seq(T), Once(s)
    PROVE  Cardinality(Elements(s)) = Len(s)
<1>1. Len(s) \in Nat /\ DOMAIN s = 1 .. Len(s) /\ s \in [1 .. Len(s) -> Elements(s)]
  BY DEF Elements
<1>2. s \in Bijection(1 .. Len(s), Elements(s))
  <2>1. \A i, k \in 1 .. Len(s) : s[i] = s[k] => i = k
    BY <1>1 DEF Once
  <2>2. \A e \in Elements(s) : \E i \in 1 .. Len(s) : s[i] = e
    BY <1>1 DEF Elements
  <2>3. s \in Injection(1 .. Len(s), Elements(s))
    BY <1>1, <2>1 DEF Injection, IsInjective
  <2>4. s \in Surjection(1 .. Len(s), Elements(s))
    BY <1>1, <2>2 DEF Surjection
  <2> QED BY <2>3, <2>4 DEF Bijection
<1>3. IsFiniteSet(1 .. Len(s)) /\ Cardinality(1 .. Len(s)) = Len(s)
  <2>1. 1 \in Int /\ Len(s) \in Int
    BY <1>1
  <2> QED BY <1>1, <2>1, FS_Interval
<1> QED BY <1>2, <1>3, FS_Bijection DEF ExistsBijection

-----------------------------------------------------------------------------
(* Where the tasks are. *)

(* A worker that looks for a task has none, and nothing left to enqueue;   *)
(* nothing is twice in what a thread enqueues, in the queue, or in both.   *)
PlaceInv ==
    /\ \A w \in Worker : at[w] \in {"look", "empty"} => task[w] = NoTask /\ todo[w] = <<>>
    /\ Once(tasks) /\ \A th \in Thread : Once(todo[th])
    /\ \A th, u \in Thread : th # u => Elements(todo[th]) \cap Elements(todo[u]) = {}
    /\ ToEnqueue \cup Elements(tasks) \cup Started = Known
    /\ ToEnqueue \cap (Elements(tasks) \cup Started) = {}
    /\ Elements(tasks) \cap Started = {}
    /\ ran \cap Running = {}
    /\ \A v, w \in Worker : v # w /\ task[v] # NoTask => task[v] # task[w]

(* The invariant holds at the beginning.                                   *)
LEMMA PlaceInit == PoolInit => PlaceInv
<1> SUFFICES ASSUME PoolInit PROVE PlaceInv
  OBVIOUS
<1>1. Elements(<<>>) = {} /\ Once(<<>>)
  BY DEF Elements, Once
<1>2. Running = {} /\ ran = {} /\ Started = {} /\ tasks = <<>>
  BY DEF PoolInit, Running, Started
<1>3. \A th \in Thread : todo[th] = IF th \in Worker THEN <<>> ELSE Requests[th]
  BY DEF PoolInit
<1>4. ToEnqueue = UNION {Elements(Requests[p]) : p \in Producer}
  BY <1>1, <1>3, ThreadAssumption DEF ToEnqueue, Thread
<1>5. Known = ToEnqueue
  BY <1>2, <1>4 DEF Known
<1>6. \A th \in Thread : Once(todo[th])
  BY <1>1, <1>3, TaskAssumption DEF Thread
<1>7. \A th, u \in Thread : th # u => Elements(todo[th]) \cap Elements(todo[u]) = {}
  BY <1>1, <1>3, TaskAssumption DEF Thread
<1>8. \A w \in Worker : task[w] = NoTask /\ todo[w] = <<>>
  BY <1>3 DEF PoolInit, Thread
<1> QED BY <1>1, <1>2, <1>5, <1>6, <1>7, <1>8 DEF PlaceInv

(* Every step moves at most one task, to the place that comes next.        *)
LEMMA PlaceStep == IType /\ PlaceInv /\ [PoolNext]_poolVars => PlaceInv'
<1> SUFFICES ASSUME IType, PlaceInv, [PoolNext]_poolVars PROVE PlaceInv'
  OBVIOUS
<1> USE ThreadAssumption
<1>1. ASSUME NEW th \in Thread, Push(th) PROVE PlaceInv'
  <2> DEFINE h == Head(todo[th])
  <2>1. /\ at[th] = "run" /\ todo[th] # <<>> /\ todo[th] \in Seq(Task) /\ tasks \in Seq(Task)
        /\ tasks' = Append(tasks, h) /\ at' = [at EXCEPT ![th] = "notify"]
        /\ todo'[th] = Tail(todo[th]) /\ \A u \in Thread \ {th} : todo'[u] = todo[u]
        /\ task' = task /\ ran' = ran /\ h \in Task
    BY <1>1 DEF Push, IType, PoolTypeOK
  <2>2. /\ Once(todo'[th]) /\ h \in Elements(todo[th])
        /\ Elements(todo'[th]) = Elements(todo[th]) \ {h}
    BY <2>1, TailElements DEF PlaceInv
  <2>3. h \in ToEnqueue
    BY <2>2 DEF ToEnqueue
  <2>4. Elements(tasks') = Elements(tasks) \cup {h} /\ Once(tasks')
    BY <2>1, <2>3, AppendElements DEF PlaceInv
  <2>5. \A u \in Thread \ {th} : h \notin Elements(todo[u])
    BY <2>2 DEF PlaceInv
  <2>6. ToEnqueue' = ToEnqueue \ {h}
    BY <2>1, <2>2, <2>5 DEF ToEnqueue
  <2>7. Running' = Running /\ Started' = Started /\ Known' = Known
    BY <2>1 DEF Running, Started, Known
  <2>8. \A u, v \in Thread : u # v => Elements(todo'[u]) \cap Elements(todo'[v]) = {}
    BY <2>1, <2>2 DEF PlaceInv
  <2>9. \A w \in Worker : at'[w] \in {"look", "empty"} => task'[w] = NoTask /\ todo'[w] = <<>>
    BY <2>1 DEF PlaceInv, IType, PoolTypeOK, Thread
  <2>10. \A u \in Thread : Once(todo'[u])
    BY <2>1, <2>2 DEF PlaceInv
  <2> HIDE DEF h
  <2> QED BY <2>1, <2>3, <2>4, <2>6, <2>7, <2>8, <2>9, <2>10 DEF PlaceInv
<1>2. ASSUME UNCHANGED <<tasks, task, todo, ran>>,
             \A w \in Worker : at'[w] \in {"look", "empty"} =>
                at[w] \in {"look", "empty"} \/ (task[w] = NoTask /\ todo[w] = <<>>)
      PROVE  PlaceInv'
  <2>1. UNCHANGED <<ToEnqueue, Running, Started, Known>>
    BY <1>2 DEF ToEnqueue, Running, Started, Known
  <2> QED BY <1>2, <2>1 DEF PlaceInv
<1>3. ASSUME NEW th \in Thread, Block(th) PROVE PlaceInv'
  BY <1>2, <1>3 DEF Block, IType, PoolTypeOK, Thread
<1>4. ASSUME NEW th \in Thread, Notify(th) PROVE PlaceInv'
  BY <1>2, <1>4 DEF Notify, Waiting, Woken, IType, PoolTypeOK, Thread
<1>5. ASSUME NEW w \in Worker, Take(w) PROVE PlaceInv'
  <2> DEFINE h == Head(tasks)
             new == Elements(Spawns[h])
  <2>1. /\ at[w] = "look" /\ tasks # <<>> /\ tasks \in Seq(Task) /\ tasks' = Tail(tasks)
        /\ task' = [task EXCEPT ![w] = h] /\ at' = [at EXCEPT ![w] = "run"] /\ ran' = ran
        /\ todo'[w] = Spawns[h] /\ \A u \in Thread \ {w} : todo'[u] = todo[u]
        /\ h \in Task /\ w \in Thread
    BY <1>5 DEF Take, IType, PoolTypeOK, Thread
  <2>2. Once(tasks') /\ h \in Elements(tasks) /\ Elements(tasks') = Elements(tasks) \ {h}
    BY <2>1, TailElements DEF PlaceInv
  <2>3. /\ task[w] = NoTask /\ todo[w] = <<>> /\ Elements(todo[w]) = {} /\ task'[w] = h /\ h # NoTask
        /\ \A v \in Worker \ {w} : task'[v] = task[v]
    BY <2>1, NoTaskAssumption DEF PlaceInv, Elements, IType, PoolTypeOK
  <2>4. h \notin Started /\ h \notin Running
    BY <2>2 DEF PlaceInv, Started
  <2>5. Running' = Running \cup {h} /\ Started' = Started \cup {h}
    BY <2>1, <2>3 DEF Running, Started
  <2>6. Known' = Known \cup new
    <3> DEFINE First  == UNION {Elements(Requests[p]) : p \in Producer}
               Made(S) == UNION {Elements(Spawns[t]) : t \in S}
    <3>1. Known = First \cup Made(Started)
      BY DEF Known
    <3>2. Known' = First \cup Made(Started')
      BY DEF Known
    <3>3. Made(Started \cup {h}) = Made(Started) \cup new
      OBVIOUS
    <3> HIDE DEF First, Made, new, h
    <3> QED BY <2>5, <3>1, <3>2, <3>3
  <2>7. Started \subseteq Task
    BY DEF Started, Running, IType, PoolTypeOK
  <2>8. new \cap Known = {}
    <3>1. \A p \in Producer : new \cap Elements(Requests[p]) = {}
      BY <2>1, TaskAssumption
    <3>2. \A t \in Started : new \cap Elements(Spawns[t]) = {}
      BY <2>1, <2>4, <2>7, TaskAssumption
    <3> HIDE DEF new
    <3> SUFFICES ASSUME NEW e \in new, e \in Known PROVE FALSE
      OBVIOUS
    <3>3. CASE \E p \in Producer : e \in Elements(Requests[p])
      BY <3>1, <3>3
    <3>4. CASE \E t \in Started : e \in Elements(Spawns[t])
      BY <3>2, <3>4
    <3> QED BY <3>3, <3>4 DEF Known
  <2>9. ToEnqueue' = ToEnqueue \cup new
    BY <2>1, <2>3 DEF ToEnqueue
  <2>10. \A u \in Thread : Elements(todo[u]) \subseteq Known
    BY DEF PlaceInv, ToEnqueue
  <2>11. \A u, v \in Thread : u # v => Elements(todo'[u]) \cap Elements(todo'[v]) = {}
    BY <2>1, <2>8, <2>10 DEF PlaceInv
  <2>12. \A u \in Thread : Once(todo'[u])
    BY <2>1, TaskAssumption DEF PlaceInv
  <2>13. \A v \in Worker : at'[v] \in {"look", "empty"} => task'[v] = NoTask /\ todo'[v] = <<>>
    BY <2>1, <2>3 DEF PlaceInv, IType, PoolTypeOK, Thread
  <2>14. \A u, v \in Worker : u # v /\ task'[u] # NoTask => task'[u] # task'[v]
    BY <2>3, <2>4 DEF PlaceInv, Running
  <2> HIDE DEF h, new
  <2>15. /\ ToEnqueue' \cup Elements(tasks') \cup Started' = Known'
         /\ ToEnqueue' \cap (Elements(tasks') \cup Started') = {}
         /\ Elements(tasks') \cap Started' = {}
    BY <2>2, <2>4, <2>5, <2>6, <2>8, <2>9 DEF PlaceInv
  <2>16. ran' \cap Running' = {}
    BY <2>1, <2>4, <2>5 DEF PlaceInv, Started
  <2> QED BY <2>2, <2>11, <2>12, <2>13, <2>14, <2>15, <2>16 DEF PlaceInv
<1>6. ASSUME NEW w \in Worker, Sleep(w) PROVE PlaceInv'
  BY <1>2, <1>6 DEF Sleep, IType, PoolTypeOK, Thread
<1>7. ASSUME NEW w \in Worker, Finish(w) PROVE PlaceInv'
  <2>1. /\ todo[w] = <<>> /\ task[w] # NoTask /\ ran' = ran \cup {task[w]}
        /\ task' = [task EXCEPT ![w] = NoTask] /\ at' = [at EXCEPT ![w] = "look"]
        /\ tasks' = tasks /\ todo' = todo
    BY <1>7 DEF Finish
  <2>2. task'[w] = NoTask /\ \A v \in Worker \ {w} : task'[v] = task[v] /\ task[v] # task[w]
    BY <2>1 DEF PlaceInv, IType, PoolTypeOK
  <2>3. Running' = Running \ {task[w]} /\ task[w] \in Running
    BY <2>1, <2>2 DEF Running
  <2>4. Started' = Started /\ ToEnqueue' = ToEnqueue
    BY <2>1, <2>3 DEF Started, ToEnqueue
  <2>5. Known' = Known
    BY <2>4 DEF Known
  <2>6. \A v \in Worker : at'[v] \in {"look", "empty"} => task'[v] = NoTask /\ todo'[v] = <<>>
    BY <2>1, <2>2 DEF PlaceInv, IType, PoolTypeOK, Thread
  <2>7. \A u, v \in Worker : u # v /\ task'[u] # NoTask => task'[u] # task'[v]
    BY <2>2 DEF PlaceInv
  <2>8. ran' \cap Running' = {}
    BY <2>1, <2>3 DEF PlaceInv
  <2> QED BY <2>1, <2>4, <2>5, <2>6, <2>7, <2>8 DEF PlaceInv
<1>8. ASSUME NEW th \in Thread, SpuriousWake(th) PROVE PlaceInv'
  BY <1>2, <1>8 DEF SpuriousWake, Waiting, Woken, IType, PoolTypeOK, Thread
<1>9. CASE UNCHANGED poolVars
  BY <1>2, <1>9 DEF poolVars
<1> QED BY <1>1, <1>3, <1>4, <1>5, <1>6, <1>7, <1>8, <1>9
        DEF PoolNext, ThreadStep, EnqueueStep, WorkerStep

(* Every task that has been enqueued is in one place, however many threads *)
(* enqueue, take, wait and are woken: none is lost and none runs twice.    *)
THEOREM WorkIsConserved == PoolSpec => []WorkConserved
<1>1. IType /\ PlaceInv => WorkConserved
  <2> SUFFICES ASSUME IType, PlaceInv PROVE WorkConserved
    OBVIOUS
  <2>1. Cardinality(Elements(tasks)) = Len(tasks)
    BY OnceCardinality DEF IType, PoolTypeOK, PlaceInv
  <2> QED BY <2>1 DEF IType, PlaceInv, WorkConserved, InOnePlace
<1> QED BY <1>1, TypeInit, TypeStep, PlaceInit, PlaceStep, PTL DEF PoolSpec
=============================================================================
