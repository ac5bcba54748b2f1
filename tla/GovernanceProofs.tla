-------------------------- MODULE GovernanceProofs --------------------------
(***************************************************************************)
(* Proofs about Governance, for any contracts, proposals, governances and  *)
(* bounds.                                                                 *)
(*                                                                         *)
(* The invariant, IInv, is stated after what the operators of storing a    *)
(* block do: each of them takes databases to databases, and what a fold    *)
(* over transactions, results or copies makes of a proposal follows from   *)
(* what one step makes of it.  Storing a block is then taken in two parts, *)
(* the batch up to the adjusted copies and the turn of the ledgers, and    *)
(* making one in one.  Once the program has ended in the middle of storing *)
(* only Halted is claimed; Inv joins the two.                              *)
(***************************************************************************)
EXTENDS Governance, FoldProofs
-----------------------------------------------------------------------------
(* What holds of a fold over the transactions, results or copies of a block *)
(* by one step at a time: Q[s] holds the databases that s can lead to.      *)

(* What proposals are to be stored, one by one.                            *)
LEMMA ProposalsFold ==
    ASSUME NEW d, NEW x, NEW time, IsFiniteSet(x.proposals), NEW D, d \in D,
           \A t \in x.proposals, e \in D : StoreProposal(t, e, time) \in D,
           NEW Q, d \in Q[{}],
           \A s \in SUBSET x.proposals : \A t \in x.proposals \ s : \A e \in Q[s] :
               StoreProposal(t, e, time) \in Q[s \union {t}]
    PROVE  batch_proposals(d, x, time) \in Q[x.proposals]
<1> DEFINE S == x.proposals
           F == [z \in S \X D |-> StoreProposal(z[1], z[2], time)]
           Eq(h) == h = [s \in SUBSET S |->
                          IF s = {} THEN d ELSE StoreProposal(Pick(s), h[s \ {Pick(s)}], time)]
           h == CHOOSE f : Eq(f)
<1>1. PICK g : IsIter(g, F, d, S)
  BY IterExists
<1>2. \A s \in SUBSET S : g[s] \in D
  <2>1. F \in [S \X D -> D]
    OBVIOUS
  <2>2. IsFiniteSet(S)
    OBVIOUS
  <2> HIDE DEF F, S
  <2> QED BY <1>1, <2>1, <2>2, IterIn
<1>3. \A s \in SUBSET S : s # {} =>
         F[<<Pick(s), g[s \ {Pick(s)}]>>] = StoreProposal(Pick(s), g[s \ {Pick(s)}], time)
  <2> HIDE DEF S
  <2> QED BY <1>2, PickIn
<1>4. Eq(h)
  <2>1. Eq(g)
    <3> HIDE DEF F, S
    <3> QED BY <1>1, <1>3 DEF IsIter
  <2> QED BY <2>1
<1>5. batch_proposals(d, x, time) = h[S]
  BY DEF batch_proposals, FoldSet, MapThenFoldSet, Pick
<1>6. S = x.proposals
  OBVIOUS
<1> HIDE DEF h, S
<1>7. \A s \in SUBSET S : s # {} =>
         (h[s \ {Pick(s)}] \in Q[s \ {Pick(s)}] => h[s] \in Q[s])
  <2> SUFFICES ASSUME NEW s \in SUBSET S, s # {}, h[s \ {Pick(s)}] \in Q[s \ {Pick(s)}]
               PROVE  h[s] \in Q[s]
    OBVIOUS
  <2>1. h[s] = StoreProposal(Pick(s), h[s \ {Pick(s)}], time)
    BY <1>4
  <2>2. Pick(s) \in S \ (s \ {Pick(s)}) /\ s = (s \ {Pick(s)}) \union {Pick(s)}
    BY PickIn
  <2>3. \A e \in Q[s \ {Pick(s)}] : StoreProposal(Pick(s), e, time) \in Q[(s \ {Pick(s)}) \union {Pick(s)}]
    BY <1>6, <2>2
  <2> QED BY <2>1, <2>2, <2>3
<1>8. h[{}] \in Q[{}]
  BY <1>4
<1>9. h[S] \in Q[S]
  BY <1>6, <1>7, <1>8, FoldReaches
<1> QED BY <1>5, <1>6, <1>9

(* The results of one kind.                                                *)
LEMMA ResultsFold ==
    ASSUME NEW d, NEW R, IsFiniteSet(R), NEW D, d \in D,
           \A t \in R, e \in D : StoreResult(t, e) \in D,
           NEW Q, d \in Q[{}],
           \A s \in SUBSET R : \A t \in R \ s : \A e \in Q[s] :
               StoreResult(t, e) \in Q[s \union {t}]
    PROVE  FoldSet(StoreResult, d, R) \in Q[R]
<1> DEFINE S == R
           F == [z \in S \X D |-> StoreResult(z[1], z[2])]
           Eq(h) == h = [s \in SUBSET S |->
                          IF s = {} THEN d ELSE StoreResult(Pick(s), h[s \ {Pick(s)}])]
           h == CHOOSE f : Eq(f)
<1>1. PICK g : IsIter(g, F, d, S)
  BY IterExists
<1>2. \A s \in SUBSET S : g[s] \in D
  <2>1. F \in [S \X D -> D]
    OBVIOUS
  <2>2. IsFiniteSet(S)
    OBVIOUS
  <2> HIDE DEF F, S
  <2> QED BY <1>1, <2>1, <2>2, IterIn
<1>3. \A s \in SUBSET S : s # {} =>
         F[<<Pick(s), g[s \ {Pick(s)}]>>] = StoreResult(Pick(s), g[s \ {Pick(s)}])
  <2> HIDE DEF S
  <2> QED BY <1>2, PickIn
<1>4. Eq(h)
  <2>1. Eq(g)
    <3> HIDE DEF F, S
    <3> QED BY <1>1, <1>3 DEF IsIter
  <2> QED BY <2>1
<1>5. FoldSet(StoreResult, d, R) = h[S]
  BY DEF FoldSet, MapThenFoldSet, Pick
<1>6. S = R
  OBVIOUS
<1> HIDE DEF h, S
<1>7. \A s \in SUBSET S : s # {} =>
         (h[s \ {Pick(s)}] \in Q[s \ {Pick(s)}] => h[s] \in Q[s])
  <2> SUFFICES ASSUME NEW s \in SUBSET S, s # {}, h[s \ {Pick(s)}] \in Q[s \ {Pick(s)}]
               PROVE  h[s] \in Q[s]
    OBVIOUS
  <2>1. h[s] = StoreResult(Pick(s), h[s \ {Pick(s)}])
    BY <1>4
  <2>2. Pick(s) \in S \ (s \ {Pick(s)}) /\ s = (s \ {Pick(s)}) \union {Pick(s)}
    BY PickIn
  <2>3. \A e \in Q[s \ {Pick(s)}] : StoreResult(Pick(s), e) \in Q[(s \ {Pick(s)}) \union {Pick(s)}]
    BY <1>6, <2>2
  <2> QED BY <2>1, <2>2, <2>3
<1>8. h[{}] \in Q[{}]
  BY <1>4
<1>9. h[S] \in Q[S]
  BY <1>6, <1>7, <1>8, FoldReaches
<1> QED BY <1>5, <1>6, <1>9

(* The votes.                                                              *)
LEMMA VotesFold ==
    ASSUME NEW d, NEW x, IsFiniteSet(x.votes), NEW D, d \in D,
           \A t \in x.votes, e \in D : StoreVote(t, e) \in D,
           NEW Q, d \in Q[{}],
           \A s \in SUBSET x.votes : \A t \in x.votes \ s : \A e \in Q[s] :
               StoreVote(t, e) \in Q[s \union {t}]
    PROVE  batch_votes(d, x) \in Q[x.votes]
<1> DEFINE S == x.votes
           F == [z \in S \X D |-> StoreVote(z[1], z[2])]
           Eq(h) == h = [s \in SUBSET S |->
                          IF s = {} THEN d ELSE StoreVote(Pick(s), h[s \ {Pick(s)}])]
           h == CHOOSE f : Eq(f)
<1>1. PICK g : IsIter(g, F, d, S)
  BY IterExists
<1>2. \A s \in SUBSET S : g[s] \in D
  <2>1. F \in [S \X D -> D]
    OBVIOUS
  <2>2. IsFiniteSet(S)
    OBVIOUS
  <2> HIDE DEF F, S
  <2> QED BY <1>1, <2>1, <2>2, IterIn
<1>3. \A s \in SUBSET S : s # {} =>
         F[<<Pick(s), g[s \ {Pick(s)}]>>] = StoreVote(Pick(s), g[s \ {Pick(s)}])
  <2> HIDE DEF S
  <2> QED BY <1>2, PickIn
<1>4. Eq(h)
  <2>1. Eq(g)
    <3> HIDE DEF F, S
    <3> QED BY <1>1, <1>3 DEF IsIter
  <2> QED BY <2>1
<1>5. batch_votes(d, x) = h[S]
  BY DEF batch_votes, FoldSet, MapThenFoldSet, Pick
<1>6. S = x.votes
  OBVIOUS
<1> HIDE DEF h, S
<1>7. \A s \in SUBSET S : s # {} =>
         (h[s \ {Pick(s)}] \in Q[s \ {Pick(s)}] => h[s] \in Q[s])
  <2> SUFFICES ASSUME NEW s \in SUBSET S, s # {}, h[s \ {Pick(s)}] \in Q[s \ {Pick(s)}]
               PROVE  h[s] \in Q[s]
    OBVIOUS
  <2>1. h[s] = StoreVote(Pick(s), h[s \ {Pick(s)}])
    BY <1>4
  <2>2. Pick(s) \in S \ (s \ {Pick(s)}) /\ s = (s \ {Pick(s)}) \union {Pick(s)}
    BY PickIn
  <2>3. \A e \in Q[s \ {Pick(s)}] : StoreVote(Pick(s), e) \in Q[(s \ {Pick(s)}) \union {Pick(s)}]
    BY <1>6, <2>2
  <2> QED BY <2>1, <2>2, <2>3
<1>8. h[{}] \in Q[{}]
  BY <1>4
<1>9. h[S] \in Q[S]
  BY <1>6, <1>7, <1>8, FoldReaches
<1> QED BY <1>5, <1>6, <1>9

(* The adjusted copies.                                                    *)
LEMMA CopiesFold ==
    ASSUME NEW d, NEW temp, IsFiniteSet(temp), NEW D, d \in D,
           \A t \in temp, e \in D : StoreCopy(t, e) \in D,
           NEW Q, d \in Q[{}],
           \A s \in SUBSET temp : \A t \in temp \ s : \A e \in Q[s] :
               StoreCopy(t, e) \in Q[s \union {t}]
    PROVE  store_proposal_adjustment(d, temp) \in Q[temp]
<1> DEFINE S == temp
           F == [z \in S \X D |-> StoreCopy(z[1], z[2])]
           Eq(h) == h = [s \in SUBSET S |->
                          IF s = {} THEN d ELSE StoreCopy(Pick(s), h[s \ {Pick(s)}])]
           h == CHOOSE f : Eq(f)
<1>1. PICK g : IsIter(g, F, d, S)
  BY IterExists
<1>2. \A s \in SUBSET S : g[s] \in D
  <2>1. F \in [S \X D -> D]
    OBVIOUS
  <2>2. IsFiniteSet(S)
    OBVIOUS
  <2> HIDE DEF F, S
  <2> QED BY <1>1, <2>1, <2>2, IterIn
<1>3. \A s \in SUBSET S : s # {} =>
         F[<<Pick(s), g[s \ {Pick(s)}]>>] = StoreCopy(Pick(s), g[s \ {Pick(s)}])
  <2> HIDE DEF S
  <2> QED BY <1>2, PickIn
<1>4. Eq(h)
  <2>1. Eq(g)
    <3> HIDE DEF F, S
    <3> QED BY <1>1, <1>3 DEF IsIter
  <2> QED BY <2>1
<1>5. store_proposal_adjustment(d, temp) = h[S]
  BY DEF store_proposal_adjustment, FoldSet, MapThenFoldSet, Pick
<1>6. S = temp
  OBVIOUS
<1> HIDE DEF h, S
<1>7. \A s \in SUBSET S : s # {} =>
         (h[s \ {Pick(s)}] \in Q[s \ {Pick(s)}] => h[s] \in Q[s])
  <2> SUFFICES ASSUME NEW s \in SUBSET S, s # {}, h[s \ {Pick(s)}] \in Q[s \ {Pick(s)}]
               PROVE  h[s] \in Q[s]
    OBVIOUS
  <2>1. h[s] = StoreCopy(Pick(s), h[s \ {Pick(s)}])
    BY <1>4
  <2>2. Pick(s) \in S \ (s \ {Pick(s)}) /\ s = (s \ {Pick(s)}) \union {Pick(s)}
    BY PickIn
  <2>3. \A e \in Q[s \ {Pick(s)}] : StoreCopy(Pick(s), e) \in Q[(s \ {Pick(s)}) \union {Pick(s)}]
    BY <1>6, <2>2
  <2> QED BY <2>1, <2>2, <2>3
<1>8. h[{}] \in Q[{}]
  BY <1>4
<1>9. h[S] \in Q[S]
  BY <1>6, <1>7, <1>8, FoldReaches
<1> QED BY <1>5, <1>6, <1>9
-----------------------------------------------------------------------------
(* What the databases hold. *)

(* Governances that pass the checks of an update.                          *)
Checked == {g \in LaterGov : check_governance(g)}
Govs == Checked \union {FirstGov[c] : c \in Contract}
Recs == [contract : Contract, stage : Nat, start : Nat, end : Nat, votes : VoteCounts, fee : Nat]
Empties == [contract : {NoContract}, stage : Nat, start : Nat, end : Nat, votes : VoteCounts, fee : Nat]
Kept == Recs \union Empties \union {NoProposal}
Ledgers == [stage : Nat, cycleEnd : Nat, stageEnd : Nat \union {NoTime},
            ids : SUBSET Proposal, pending : SUBSET Proposal]
Dues == [contracts : SUBSET [contract : Contract, ids : SUBSET Proposal], ids : SUBSET Proposal]
DB == [gov : [Contract -> Govs], proposals : [Proposal -> Kept],
       adaptive : [Proposal -> Nat \union {NoTime}], ledger : [Contract -> Ledgers],
       due : Dues, govTxn : SUBSET Proposal]

Updates == [contract : Contract, gov : Checked]
Asks == [id : Proposal, contract : Contract, start : Nat, end : Nat]
Ballots == [id : Proposal, votes : VoteCounts]
Txns == [update : SUBSET Updates, proposals : SUBSET Asks, votes : SUBSET Ballots, fast : BOOLEAN]
Outcomes == [id : Proposal, contract : Contract, final : BOOLEAN, fast : BOOLEAN,
             passed : BOOLEAN, funded : BOOLEAN]
Copies == [id : Proposal, record : Recs]

(* A record is that of a proposal, an empty one, or none.                  *)
LEMMA KeptIs ==
    ASSUME NEW r \in Kept
    PROVE  /\ Genuine(r) <=> r \in Recs
           /\ r \in Recs => r.contract \in Contract /\ r # NoProposal
           /\ r \in Empties => r # NoProposal /\ ~ Genuine(r)
           /\ (r # NoProposal /\ ~ Genuine(r)) => r \in Empties
           /\ Parsed(r) \in Recs \union Empties
           /\ ~ Genuine(r) => Parsed(r) \in Empties
           /\ Genuine(r) => Parsed(r) = r
<1>1. r \in Recs => r.contract \in Contract /\ r # NoProposal
  BY ProposalAssumption DEF Recs
<1>2. r \in Empties => r.contract = NoContract /\ r # NoProposal
  BY ProposalAssumption DEF Empties
<1>3. Nothing \in Empties
  BY GovAssumption DEF Nothing, Empties
<1>4. NoContract \notin Contract
  BY ProposalAssumption
<1>5. Genuine(r) <=> r \in Recs
  BY <1>1, <1>2, <1>4 DEF Genuine, Kept
<1> QED BY <1>1, <1>2, <1>3, <1>5 DEF Genuine, Kept, Parsed

(* A record with another stage and no votes is one of the same kind.       *)
LEMMA NextStage ==
    ASSUME NEW r \in Recs \union Empties, NEW n \in Nat, NEW v \in VoteCounts
    PROVE  /\ [r EXCEPT !.stage = n, !.votes = v] \in Recs \union Empties
           /\ [r EXCEPT !.stage = n] \in Recs \union Empties
           /\ r \in Empties => /\ [r EXCEPT !.stage = n, !.votes = v] \in Empties
                              /\ [r EXCEPT !.stage = n] \in Empties
           /\ r \in Recs => /\ [r EXCEPT !.stage = n, !.votes = v] \in Recs
                           /\ [r EXCEPT !.stage = n] \in Recs
BY DEF Recs, Empties

(* The databases, part by part.                                            *)
LEMMA Parts1 ==
    ASSUME NEW d \in DB
    PROVE  /\ d.gov \in [Contract -> Govs]
           /\ d.proposals \in [Proposal -> Kept]
           /\ d.adaptive \in [Proposal -> Nat \union {NoTime}]
           /\ d.ledger \in [Contract -> Ledgers]
           /\ d.due \in Dues
           /\ d.govTxn \subseteq Proposal
           /\ d = [gov |-> d.gov, proposals |-> d.proposals, adaptive |-> d.adaptive,
                   ledger |-> d.ledger, due |-> d.due, govTxn |-> d.govTxn]
BY DEF DB

(* Databases are made of their parts.                                      *)
LEMMA Whole ==
    ASSUME NEW g \in [Contract -> Govs], NEW p \in [Proposal -> Kept],
           NEW a \in [Proposal -> Nat \union {NoTime}], NEW l \in [Contract -> Ledgers],
           NEW u \in Dues, NEW x \in SUBSET Proposal
    PROVE  [gov |-> g, proposals |-> p, adaptive |-> a, ledger |-> l, due |-> u, govTxn |-> x] \in DB
BY DEF DB

(* What is assumed of governances.                                         *)
LEMMA GovFacts ==
    ASSUME NEW g \in Govs, g # NoGov
    PROVE  /\ g.type \in Kinds /\ g.period \in Nat \ {0} /\ g.start \in Nat
           /\ g.stages \in Seq([length : Nat])
           /\ check_governance(g)
           /\ g.type = "STAGED" <=> Len(g.stages) # 0
           /\ Len(g.stages) \in Nat
<1>1. g \in Governed /\ check_governance(g)
  BY FirstGovAssumption DEF Govs, Checked, Governed
<1>2. /\ g.type \in Kinds /\ g.period \in Nat \ {0} /\ g.start \in Nat
      /\ g.stages \in Seq([length : Nat])
  BY <1>1, GovAssumption
<1>3. (g.type = "STAGED") <=> (g.stages # <<>>)
  BY <1>1 DEF check_governance
<1>4. Len(g.stages) \in Nat /\ (Len(g.stages) = 0 <=> g.stages = <<>>)
  BY <1>2
<1> QED BY <1>1, <1>2, <1>3, <1>4

(* An element of a sequence.                                               *)
LEMMA Element ==
    ASSUME NEW X, NEW s \in Seq(X), NEW i \in 1 .. Len(s)
    PROVE  s[i] \in X
OBVIOUS

(* A new ledger.                                                           *)
LEMMA NewLedger ==
    ASSUME NEW g \in Govs, g # NoGov, ByLedger(g)
    PROVE  LET l == make_staged_cycle_ledger(g, g.start) IN
           /\ l \in Ledgers /\ l.stage = 0 /\ l.ids = {} /\ l.pending = {}
           /\ g.type = "STAGED" => l.stageEnd \in Nat
           /\ g.type = "CYCLE" => l.stageEnd = NoTime
<1>1. g.type = "STAGED" => g.stages[1].length \in Nat
  <2> SUFFICES ASSUME g.type = "STAGED" PROVE g.stages[1].length \in Nat
    OBVIOUS
  <2> DEFINE s == g.stages
  <2>1. s \in Seq([length : Nat]) /\ Len(s) \in Nat /\ Len(s) # 0
    BY GovFacts
  <2> HIDE DEF s
  <2>2. 1 \in 1 .. Len(s)
    BY <2>1
  <2>3. s[1] \in [length : Nat]
    BY <2>1, <2>2, Element
  <2> QED BY <2>3 DEF s
<1>2. g.start + g.period \in Nat /\ g.start \in Nat
  BY GovFacts
<1>3. g.type = "STAGED" => g.start + g.stages[1].length \in Nat
  BY <1>1, <1>2
<1> QED BY <1>2, <1>3 DEF make_staged_cycle_ledger, Ledgers, ByLedger
-----------------------------------------------------------------------------
(* What a stored proposal and a ledger have to do with each other. *)

In(d, p, c) == p \in d.ledger[c].ids \/ p \in d.ledger[c].pending
Stored(d, p) == Genuine(d.proposals[p])
Hollow(d, p) == d.proposals[p] # NoProposal /\ ~ Stored(d, p)

(* The record of a stored proposal.                                        *)
LEMMA RecordOf ==
    ASSUME NEW d \in DB, NEW p \in Proposal, Stored(d, p)
    PROVE  d.proposals[p] \in Recs /\ d.proposals[p] # NoProposal
<1>1. d.proposals[p] \in Kept
  BY Parts1
<1> QED BY <1>1, KeptIs DEF Stored, Genuine

(* Nothing has changed about a proposal.                                   *)
Same(d, e, p) ==
    /\ e.proposals[p] = d.proposals[p] /\ e.adaptive[p] = d.adaptive[p]
    /\ p \in e.govTxn <=> p \in d.govTxn
    /\ \A c \in Contract : /\ p \in e.ledger[c].ids <=> p \in d.ledger[c].ids
                           /\ p \in e.ledger[c].pending <=> p \in d.ledger[c].pending

(* Nothing has changed about the governances, the ends of ledgers and what *)
(* is due.                                                                 *)
Frame(d, e) ==
    /\ e.gov = d.gov /\ e.due = d.due
    /\ \A c \in Contract : /\ e.ledger[c].stage = d.ledger[c].stage
                           /\ e.ledger[c].cycleEnd = d.ledger[c].cycleEnd
                           /\ e.ledger[c].stageEnd = d.ledger[c].stageEnd
                           /\ e.ledger[c].ids \subseteq d.ledger[c].ids

(* Two records of a proposal that differ at most in the votes.             *)
Alike(r, s) ==
    \/ r = s
    \/ /\ Genuine(r) /\ Genuine(s)
       /\ r.contract = s.contract /\ r.stage = s.stage /\ r.fee = s.fee

(* An update drops what the ledger had.                                    *)
LEMMA UpdatesStep ==
    ASSUME NEW d \in DB, NEW x \in Txns
    PROVE  LET e == batch_contract_updates(d, x) IN
           /\ e \in DB /\ e.due = d.due /\ e.adaptive = d.adaptive /\ e.govTxn = d.govTxn
           /\ \A p \in Proposal : e.proposals[p] \in {d.proposals[p], NoProposal}
           /\ \A c \in Contract :
                 \/ e.gov[c] = d.gov[c] /\ e.ledger[c] = d.ledger[c]
                 \/ /\ e.gov[c] \in Checked
                    /\ \A p \in Proposal : In(d, p, c) => e.proposals[p] = NoProposal
                    /\ e.ledger[c] = IF ByLedger(e.gov[c])
                                     THEN make_staged_cycle_ledger(e.gov[c], e.gov[c].start)
                                     ELSE d.ledger[c]
<1> DEFINE e == batch_contract_updates(d, x)
<1>1. CASE x.update = {}
  BY <1>1 DEF batch_contract_updates
<1>2. CASE x.update # {}
  <2> DEFINE u == CHOOSE y \in x.update : TRUE
             old == d.ledger[u.contract]
             ps == [p \in Proposal |-> IF p \in Removed(old) THEN NoProposal ELSE d.proposals[p]]
             new == IF ByLedger(u.gov) THEN make_staged_cycle_ledger(u.gov, u.gov.start) ELSE old
  <2>1. u \in Updates
    BY <1>2 DEF Txns
  <2>2. u.contract \in Contract /\ u.gov \in Checked /\ u.gov \in Govs /\ u.gov # NoGov
    BY <2>1, GovAssumption DEF Updates, Checked, Govs
  <2>3. new \in Ledgers
    BY <2>2, NewLedger, Parts1
  <2>4. e = [d EXCEPT !.gov[u.contract] = u.gov, !.proposals = ps, !.ledger[u.contract] = new]
    BY <1>2 DEF batch_contract_updates
  <2>5. ps \in [Proposal -> Kept]
    BY Parts1 DEF Kept
  <2> HIDE DEF u, ps, new
  <2>6. e = [gov |-> [d.gov EXCEPT ![u.contract] = u.gov], proposals |-> ps,
             adaptive |-> d.adaptive, ledger |-> [d.ledger EXCEPT ![u.contract] = new],
             due |-> d.due, govTxn |-> d.govTxn]
    BY <2>4 DEF DB
  <2> HIDE DEF e
  <2>7. e \in DB
    BY <2>2, <2>3, <2>5, <2>6, Parts1, Whole
  <2>8. \A p \in Proposal : e.proposals[p] \in {d.proposals[p], NoProposal}
    BY <2>6 DEF ps
  <2>9. ASSUME NEW c \in Contract, c # u.contract
        PROVE  e.gov[c] = d.gov[c] /\ e.ledger[c] = d.ledger[c]
    BY <2>6, <2>9, Parts1
  <2>10. e.gov[u.contract] = u.gov /\ e.ledger[u.contract] = new
    BY <2>2, <2>6, Parts1
  <2>11. \A p \in Proposal : In(d, p, u.contract) => e.proposals[p] = NoProposal
    BY <2>6 DEF ps, In, Removed
  <2> QED BY <2>2, <2>6, <2>7, <2>8, <2>9, <2>10, <2>11 DEF e, new
<1> QED BY <1>1, <1>2

(* It drops no other.                                                      *)
LEMMA UpdatesDrop ==
    ASSUME NEW d \in DB, NEW x \in Txns, NEW p \in Proposal,
           ~ \E u \in x.update : p \in Removed(d.ledger[u.contract])
    PROVE  batch_contract_updates(d, x).proposals[p] = d.proposals[p]
<1>1. CASE x.update = {}
  BY <1>1 DEF batch_contract_updates
<1>2. CASE x.update # {}
  BY <1>2 DEF batch_contract_updates, DB
<1> QED BY <1>1, <1>2

(* What storing t makes of its proposal.                                   *)
Entered(d, e, t) ==
    LET g == d.gov[t.contract]
        r == e.proposals[t.id]
    IN  /\ r \in Recs /\ r.contract = t.contract /\ r.stage = 0
        /\ r.fee = IF g.type = "STAGED" THEN purse[t.id] \div Len(g.stages) ELSE purse[t.id]
        /\ g.type \in {"ADAPTIVE", "STAGGERED"} => e.adaptive[t.id] \in Nat
        /\ t.id \in e.govTxn <=> t.id \in d.govTxn
        /\ \A c \in Contract :
              /\ t.id \in e.ledger[c].ids <=> t.id \in d.ledger[c].ids
              /\ t.id \in e.ledger[c].pending <=>
                    (t.id \in d.ledger[c].pending \/ (c = t.contract /\ ByLedger(g)))

(* The record of a new proposal.                                           *)
LEMMA SetupStep ==
    ASSUME purse \in [Proposal -> Nat], NEW t \in Asks, NEW g \in Govs, g # NoGov
    PROVE  /\ setup(t, g) \in Recs
           /\ \A n \in Nat : [setup(t, g) EXCEPT !.end = n] \in Recs
           /\ \A m, n \in Nat : [setup(t, g) EXCEPT !.start = m, !.end = n] \in Recs
<1>1. purse[t.id] \in Nat /\ t.contract \in Contract
  BY DEF Asks
<1>2. g.type = "STAGED" => Len(g.stages) \in Nat \ {0}
  BY GovFacts
<1>3. g.type = "STAGED" => purse[t.id] \div Len(g.stages) \in Nat
  BY <1>1, <1>2
<1>4. setup(t, g) \in Recs
  BY <1>1, <1>3, GovAssumption DEF setup, Recs
<1> QED BY <1>4 DEF Recs

(* Storing one proposal.                                                   *)
LEMMA ProposalStep ==
    ASSUME purse \in [Proposal -> Nat], NEW d \in DB, NEW t \in Asks, NEW time \in Nat,
           d.gov[t.contract] # NoGov
    PROVE  LET e == StoreProposal(t, d, time) IN
           /\ e \in DB /\ Frame(d, e)
           /\ \A q \in Proposal : q # t.id => Same(d, e, q)
           /\ Entered(d, e, t)
<1> DEFINE e == StoreProposal(t, d, time)
           g == d.gov[t.contract]
           from == IF t.start < time THEN time ELSE t.start
           Wrote(r, a, l) ==
               [gov |-> d.gov, proposals |-> [d.proposals EXCEPT ![t.id] = r],
                adaptive |-> [d.adaptive EXCEPT ![t.id] = a],
                ledger |-> l, due |-> d.due, govTxn |-> d.govTxn]
           queued == [d.ledger EXCEPT ![t.contract] =
                         [d.ledger[t.contract] EXCEPT !.pending = d.ledger[t.contract].pending \union {t.id}]]
<1>1. /\ t.id \in Proposal /\ t.contract \in Contract /\ t.start \in Nat /\ t.end \in Nat
      /\ from \in Nat
  BY DEF Asks
<1>2. g \in Govs /\ g # NoGov
  BY <1>1, Parts1
<1>3. g.type \in Kinds /\ g.period \in Nat /\ from + g.period \in Nat
  BY <1>1, <1>2, GovFacts
<1> HIDE DEF g, from
<1>4. \A r \in Recs : \A a \in Nat \union {NoTime}, l \in [Contract -> Ledgers] : Wrote(r, a, l) \in DB
  BY <1>1, Parts1, Whole DEF Kept
<1>5. queued \in [Contract -> Ledgers]
  BY <1>1, Parts1 DEF Ledgers
<1> DEFINE Good(r, a, l) ==
               /\ r \in Recs /\ a \in Nat \union {NoTime} /\ e = Wrote(r, a, l)
               /\ r.contract = t.contract /\ r.stage = 0
               /\ r.fee = IF g.type = "STAGED" THEN purse[t.id] \div Len(g.stages) ELSE purse[t.id]
               /\ (g.type \in {"ADAPTIVE", "STAGGERED"} => a \in Nat)
               /\ l = IF ByLedger(g) THEN queued ELSE d.ledger
<1>6. \E r, a, l : Good(r, a, l)
  <2>1. d.adaptive[t.id] \in Nat \union {NoTime} /\ [d.adaptive EXCEPT ![t.id] = d.adaptive[t.id]] = d.adaptive
    BY <1>1, Parts1
  <2>2. CASE g.type = "ADAPTIVE"
    <3> DEFINE r == [setup(t, g) EXCEPT !.end = t.end]
    <3>1. e = [d EXCEPT !.proposals[t.id] = r, !.adaptive[t.id] = t.end]
      BY <2>2 DEF StoreProposal, g
    <3>2. r \in Recs
      BY <1>1, <1>2, SetupStep
    <3>3. r.contract = t.contract /\ r.stage = 0
          /\ r.fee = IF g.type = "STAGED" THEN purse[t.id] \div Len(g.stages) ELSE purse[t.id]
      BY DEF setup
    <3> HIDE DEF r, e
    <3>4. e = Wrote(r, t.end, d.ledger)
      BY <3>1 DEF DB
    <3>5. ~ ByLedger(g)
      BY <2>2 DEF ByLedger
    <3> QED BY <1>1, <2>2, <3>2, <3>3, <3>4, <3>5
  <2>3. CASE g.type = "STAGGERED"
    <3> DEFINE r == [setup(t, g) EXCEPT !.start = from, !.end = from + g.period]
    <3>1. e = [d EXCEPT !.proposals[t.id] = r, !.adaptive[t.id] = from + g.period]
      BY <2>3 DEF StoreProposal, g, from
    <3>2. r \in Recs
      BY <1>1, <1>2, <1>3, SetupStep
    <3>3. r.contract = t.contract /\ r.stage = 0
          /\ r.fee = IF g.type = "STAGED" THEN purse[t.id] \div Len(g.stages) ELSE purse[t.id]
      BY DEF setup
    <3> HIDE DEF r, e
    <3>4. e = Wrote(r, from + g.period, d.ledger)
      BY <3>1 DEF DB
    <3>5. ~ ByLedger(g)
      BY <2>3 DEF ByLedger
    <3> QED BY <1>3, <2>3, <3>2, <3>3, <3>4, <3>5
  <2>4. CASE g.type = "REMOVE"
    <3> DEFINE r == setup(t, g)
    <3>1. e = [d EXCEPT !.proposals[t.id] = r]
      BY <2>4 DEF StoreProposal, g
    <3>2. r \in Recs
      BY <1>1, <1>2, SetupStep
    <3>3. r.contract = t.contract /\ r.stage = 0
          /\ r.fee = IF g.type = "STAGED" THEN purse[t.id] \div Len(g.stages) ELSE purse[t.id]
      BY DEF setup
    <3> HIDE DEF r, e
    <3>4. e = Wrote(r, d.adaptive[t.id], d.ledger)
      BY <2>1, <3>1 DEF DB
    <3>5. ~ ByLedger(g)
      BY <2>4 DEF ByLedger
    <3> QED BY <2>1, <2>4, <3>2, <3>3, <3>4, <3>5
  <2>5. CASE g.type \in {"STAGED", "CYCLE"}
    <3> DEFINE r == setup(t, g)
    <3>1. e = [d EXCEPT !.proposals[t.id] = r,
                        !.ledger[t.contract].pending = d.ledger[t.contract].pending \union {t.id}]
      BY <2>5 DEF StoreProposal, g
    <3>2. r \in Recs
      BY <1>1, <1>2, SetupStep
    <3>3. r.contract = t.contract /\ r.stage = 0
          /\ r.fee = IF g.type = "STAGED" THEN purse[t.id] \div Len(g.stages) ELSE purse[t.id]
      BY DEF setup
    <3> HIDE DEF r, e
    <3>4. e = Wrote(r, d.adaptive[t.id], queued)
      BY <2>1, <3>1 DEF DB
    <3>5. ByLedger(g)
      BY <1>2, <2>5 DEF ByLedger
    <3> QED BY <2>1, <2>5, <3>2, <3>3, <3>4, <3>5
  <2> QED BY <1>3, <2>2, <2>3, <2>4, <2>5 DEF Kinds
<1>7. PICK r, a, l : Good(r, a, l)
  BY <1>6
<1>8. r \in Recs /\ a \in Nat \union {NoTime} /\ e = Wrote(r, a, l)
      /\ l = IF ByLedger(g) THEN queued ELSE d.ledger
  BY <1>7
<1>9. l \in [Contract -> Ledgers]
  BY <1>5, <1>8, Parts1
<1>10. e \in DB
  <2> HIDE DEF Wrote, e
  <2> QED BY <1>4, <1>8, <1>9
<1>11. /\ e.gov = d.gov /\ e.due = d.due /\ e.govTxn = d.govTxn /\ e.ledger = l
       /\ e.proposals = [d.proposals EXCEPT ![t.id] = r]
       /\ e.adaptive = [d.adaptive EXCEPT ![t.id] = a]
  <2> HIDE DEF e, queued
  <2> QED BY <1>8
<1>12. ASSUME NEW c \in Contract
       PROVE  /\ l[c].stage = d.ledger[c].stage /\ l[c].cycleEnd = d.ledger[c].cycleEnd
              /\ l[c].stageEnd = d.ledger[c].stageEnd /\ l[c].ids = d.ledger[c].ids
              /\ l[c].pending = IF c = t.contract /\ ByLedger(g) THEN d.ledger[c].pending \union {t.id}
                                ELSE d.ledger[c].pending
  <2>1. d.ledger \in [Contract -> Ledgers] /\ d.ledger[c] \in Ledgers
    BY Parts1
  <2>2. CASE ~ ByLedger(g) \/ c # t.contract
    <3>1. l[c] = d.ledger[c]
      <4> HIDE DEF e, Wrote
      <4> QED BY <1>8, <2>1, <2>2
    <3> QED BY <2>2, <3>1
  <2>3. CASE ByLedger(g) /\ c = t.contract
    <3>1. l[c] = [d.ledger[c] EXCEPT !.pending = d.ledger[c].pending \union {t.id}]
      <4> HIDE DEF e, Wrote
      <4> QED BY <1>8, <2>1, <2>3
    <3> QED BY <2>1, <2>3, <3>1 DEF Ledgers
  <2> QED BY <2>2, <2>3
<1>13. d.proposals \in [Proposal -> Kept]
       /\ d.adaptive \in [Proposal -> Nat \union {NoTime}]
  BY Parts1
<1> HIDE DEF e, queued, Wrote
<1>14. Frame(d, e)
  BY <1>11, <1>12 DEF Frame
<1>15. ASSUME NEW q \in Proposal, q # t.id PROVE Same(d, e, q)
  <2>1. e.proposals[q] = d.proposals[q] /\ e.adaptive[q] = d.adaptive[q]
    BY <1>11, <1>13, <1>15
  <2>2. \A c \in Contract :
           /\ q \in e.ledger[c].ids <=> q \in d.ledger[c].ids
           /\ q \in e.ledger[c].pending <=> q \in d.ledger[c].pending
    <3> SUFFICES ASSUME NEW c \in Contract
                 PROVE  (q \in e.ledger[c].ids <=> q \in d.ledger[c].ids)
                        /\ (q \in e.ledger[c].pending <=> q \in d.ledger[c].pending)
      OBVIOUS
    <3>1. l[c].ids = d.ledger[c].ids
          /\ l[c].pending \in {d.ledger[c].pending, d.ledger[c].pending \union {t.id}}
      BY <1>12
    <3>2. e.ledger[c] = l[c]
      BY <1>11
    <3> QED BY <1>15, <3>1, <3>2
  <2>3. q \in e.govTxn <=> q \in d.govTxn
    BY <1>11
  <2> QED BY <2>1, <2>2, <2>3 DEF Same
<1>16. Entered(d, e, t)
  <2>1. e.proposals[t.id] = r /\ e.adaptive[t.id] = a
    BY <1>1, <1>11, <1>13
  <2>2. /\ r.contract = t.contract /\ r.stage = 0
        /\ r.fee = IF g.type = "STAGED" THEN purse[t.id] \div Len(g.stages) ELSE purse[t.id]
        /\ (g.type \in {"ADAPTIVE", "STAGGERED"} => a \in Nat)
    BY <1>7
  <2> HIDE DEF Good
  <2>3. \A c \in Contract :
           /\ t.id \in e.ledger[c].ids <=> t.id \in d.ledger[c].ids
           /\ t.id \in e.ledger[c].pending <=>
                 (t.id \in d.ledger[c].pending \/ (c = t.contract /\ ByLedger(g)))
    BY <1>11, <1>12
  <2>4. t.id \in e.govTxn <=> t.id \in d.govTxn
    BY <1>11
  <2> QED BY <1>8, <2>1, <2>2, <2>3, <2>4 DEF Entered, g
<1> QED BY <1>10, <1>14, <1>15, <1>16 DEF e

(* The relations between databases compose.                                *)
LEMMA Compose ==
    ASSUME NEW d, NEW e, NEW f
    PROVE  /\ Frame(d, d)
           /\ Frame(d, e) /\ Frame(e, f) => Frame(d, f)
           /\ \A p : Same(d, d, p)
           /\ \A p : Same(d, e, p) /\ Same(e, f, p) => Same(d, f, p)
<1>1. Frame(d, d) /\ \A p : Same(d, d, p)
  BY DEF Frame, Same
<1>2. Frame(d, e) /\ Frame(e, f) => Frame(d, f)
  BY DEF Frame
<1>3. ASSUME NEW p, Same(d, e, p), Same(e, f, p)
      PROVE  Same(d, f, p)
  <2>1. /\ f.proposals[p] = d.proposals[p] /\ f.adaptive[p] = d.adaptive[p]
        /\ p \in f.govTxn <=> p \in d.govTxn
    BY <1>3 DEF Same
  <2>2. \A c \in Contract : /\ p \in f.ledger[c].ids <=> p \in d.ledger[c].ids
                            /\ p \in f.ledger[c].pending <=> p \in d.ledger[c].pending
    BY <1>3 DEF Same
  <2> QED BY <2>1, <2>2 DEF Same
<1> QED BY <1>1, <1>2, <1>3

(* A proposal that entered is still as it was when nothing changes it, and *)
(* it enters as from databases that had the same of it.                    *)
LEMMA EnteredStays ==
    ASSUME NEW d, NEW e, NEW f, NEW t, e.gov = d.gov
    PROVE  /\ Entered(d, e, t) /\ Same(e, f, t.id) => Entered(d, f, t)
           /\ Same(d, e, t.id) /\ Entered(e, f, t) => Entered(d, f, t)
<1>1. ASSUME Entered(d, e, t), Same(e, f, t.id) PROVE Entered(d, f, t)
  <2>1. f.proposals[t.id] = e.proposals[t.id] /\ f.adaptive[t.id] = e.adaptive[t.id]
        /\ (t.id \in f.govTxn <=> t.id \in e.govTxn)
    BY <1>1 DEF Same
  <2>2. \A c \in Contract :
           /\ t.id \in f.ledger[c].ids <=> t.id \in e.ledger[c].ids
           /\ t.id \in f.ledger[c].pending <=> t.id \in e.ledger[c].pending
    BY <1>1 DEF Same
  <2> QED BY <1>1, <2>1, <2>2 DEF Entered
<1>2. ASSUME Same(d, e, t.id), Entered(e, f, t) PROVE Entered(d, f, t)
  <2>1. t.id \in e.govTxn <=> t.id \in d.govTxn
    BY <1>2 DEF Same
  <2>2. \A c \in Contract :
           /\ t.id \in e.ledger[c].ids <=> t.id \in d.ledger[c].ids
           /\ t.id \in e.ledger[c].pending <=> t.id \in d.ledger[c].pending
    BY <1>2 DEF Same
  <2> QED BY <1>2, <2>1, <2>2 DEF Entered
<1> QED BY <1>1, <1>2

(* The proposals of a block are all stored, each one once.                 *)
LEMMA ProposalsStep ==
    ASSUME purse \in [Proposal -> Nat], NEW d \in DB, NEW x \in Txns, IsFiniteSet(x.proposals),
           NEW time \in Nat, \A t \in x.proposals : d.gov[t.contract] # NoGov
    PROVE  LET e == batch_proposals(d, x, time) IN
           /\ e \in DB /\ Frame(d, e)
           /\ \A p \in Proposal : (\A t \in x.proposals : t.id # p) => Same(d, e, p)
           /\ \A t \in x.proposals :
                 (\A u \in x.proposals : u.id = t.id => u = t) => Entered(d, e, t)
<1> DEFINE S == x.proposals
           D == {e \in DB : e.gov = d.gov}
           Arrived(s, e) ==
               /\ Frame(d, e)
               /\ \A p \in Proposal : (\A t \in s : t.id # p) => Same(d, e, p)
               /\ \A t \in s : (\A u \in S : u.id = t.id => u = t) => Entered(d, e, t)
           Q == [s \in SUBSET S |-> {e \in D : Arrived(s, e)}]
<1>1. S \subseteq Asks
  BY DEF Txns
<1>2. \A t \in S : t.id \in Proposal
  BY <1>1 DEF Asks
<1>3. \A t \in S, e \in D :
         LET f == StoreProposal(t, e, time) IN
         f \in D /\ Frame(e, f) /\ Entered(e, f, t) /\ \A q \in Proposal : q # t.id => Same(e, f, q)
  <2> SUFFICES ASSUME NEW t \in S, NEW e \in D
               PROVE  LET f == StoreProposal(t, e, time) IN
                      f \in D /\ Frame(e, f) /\ Entered(e, f, t)
                      /\ \A q \in Proposal : q # t.id => Same(e, f, q)
    OBVIOUS
  <2> DEFINE f == StoreProposal(t, e, time)
  <2>1. t \in Asks /\ e \in DB /\ e.gov[t.contract] # NoGov
    BY <1>1
  <2>2. f \in DB /\ Frame(e, f) /\ Entered(e, f, t) /\ \A q \in Proposal : q # t.id => Same(e, f, q)
    BY <2>1, ProposalStep
  <2> HIDE DEF f
  <2>3. f.gov = d.gov
    BY <2>2 DEF Frame
  <2> QED BY <2>2, <2>3 DEF f
<1>4. \A t \in S, e \in D : StoreProposal(t, e, time) \in D
  BY <1>3
<1>5. d \in Q[{}]
  BY Compose
<1>6. ASSUME NEW s \in SUBSET S, NEW t \in S \ s, NEW e \in Q[s]
      PROVE  StoreProposal(t, e, time) \in Q[s \union {t}]
  <2> DEFINE f == StoreProposal(t, e, time)
  <2>1. e \in D /\ Arrived(s, e)
    OBVIOUS
  <2>2. f \in D /\ Frame(e, f) /\ Entered(e, f, t) /\ \A q \in Proposal : q # t.id => Same(e, f, q)
    BY <1>3, <2>1
  <2> HIDE DEF f
  <2>3. Frame(d, f)
    BY <2>1, <2>2, Compose
  <2>4. ASSUME NEW p \in Proposal, \A u \in s \union {t} : u.id # p PROVE Same(d, f, p)
    <3>1. Same(d, e, p) /\ Same(e, f, p)
      BY <2>1, <2>2, <2>4
    <3> QED BY <3>1, Compose
  <2>5. ASSUME NEW v \in s \union {t}, \A u \in S : u.id = v.id => u = v PROVE Entered(d, f, v)
    <3>1. v.id \in Proposal
      BY <1>2
    <3>2. CASE v = t
      <4>1. \A u \in s : u.id # t.id
        BY <2>5, <3>2
      <4>2. Same(d, e, t.id)
        BY <2>1, <3>1, <3>2, <4>1
      <4> QED BY <2>1, <2>2, <3>2, <4>2, EnteredStays
    <3>3. CASE v # t
      <4>1. v \in s /\ t.id # v.id
        BY <2>5, <3>3
      <4>2. Entered(d, e, v)
        BY <2>1, <2>5, <4>1
      <4>3. Same(e, f, v.id)
        BY <2>2, <3>1, <4>1
      <4> QED BY <2>1, <4>2, <4>3, EnteredStays
    <3> QED BY <3>2, <3>3
  <2>6. s \union {t} \in SUBSET S
    OBVIOUS
  <2>7. Arrived(s \union {t}, f)
    BY <2>3, <2>4, <2>5
  <2> HIDE DEF Arrived
  <2> QED BY <2>2, <2>6, <2>7 DEF f
<1>7. d \in D
  OBVIOUS
<1> HIDE DEF Q, D
<1>8. batch_proposals(d, x, time) \in Q[x.proposals]
  BY <1>4, <1>5, <1>6, <1>7, ProposalsFold
<1> QED BY <1>8 DEF Q, D

(* Votes change votes.                                                     *)
LEMMA VotesStep ==
    ASSUME NEW d \in DB, NEW x \in Txns, IsFiniteSet(x.votes)
    PROVE  LET e == batch_votes(d, x) IN
           /\ e \in DB /\ e.gov = d.gov /\ e.due = d.due /\ e.adaptive = d.adaptive
           /\ e.govTxn = d.govTxn /\ e.ledger = d.ledger
           /\ \A p \in Proposal : Alike(d.proposals[p], e.proposals[p])
<1> DEFINE Arrived(e) ==
               /\ e.gov = d.gov /\ e.due = d.due /\ e.adaptive = d.adaptive
               /\ e.govTxn = d.govTxn /\ e.ledger = d.ledger
               /\ \A p \in Proposal : Alike(d.proposals[p], e.proposals[p])
           D == {e \in DB : Arrived(e)}
           Q == [s \in SUBSET x.votes |-> D]
<1>1. ASSUME NEW t \in x.votes, NEW e \in D
      PROVE  StoreVote(t, e) \in D
  <2> DEFINE f == StoreVote(t, e)
  <2>1. t \in Ballots /\ t.id \in Proposal /\ t.votes \in VoteCounts
    BY DEF Txns, Ballots
  <2>2. CASE ~ Genuine(e.proposals[t.id])
    BY <2>2 DEF StoreVote
  <2>3. CASE Genuine(e.proposals[t.id])
    <3> DEFINE r == [e.proposals[t.id] EXCEPT !.votes = t.votes]
    <3>1. e.proposals[t.id] \in Recs
      BY <2>1, <2>3, Parts1, KeptIs
    <3>2. r \in Recs /\ r.contract = e.proposals[t.id].contract
          /\ r.stage = e.proposals[t.id].stage /\ r.fee = e.proposals[t.id].fee
      BY <2>1, <3>1 DEF Recs
    <3>3. f = [e EXCEPT !.proposals = [e.proposals EXCEPT ![t.id] = r]]
      BY <2>3 DEF StoreVote
    <3> HIDE DEF r, f
    <3>4. f = [gov |-> e.gov, proposals |-> [e.proposals EXCEPT ![t.id] = r],
               adaptive |-> e.adaptive, ledger |-> e.ledger, due |-> e.due, govTxn |-> e.govTxn]
      BY <3>3 DEF DB
    <3>5. [e.proposals EXCEPT ![t.id] = r] \in [Proposal -> Kept]
      BY <3>2, Parts1 DEF Kept
    <3>6. f \in DB
      BY <3>4, <3>5, Parts1, Whole
    <3>7. Genuine(r)
      BY <3>2, KeptIs DEF Kept
    <3>8. ASSUME NEW p \in Proposal PROVE Alike(d.proposals[p], f.proposals[p])
      <4>1. CASE p = t.id
        <5>1. f.proposals[p] = r
          BY <2>1, <3>4, <4>1, Parts1
        <5> QED BY <2>3, <3>2, <3>7, <4>1, <5>1 DEF Alike
      <4>2. CASE p # t.id
        <5>1. f.proposals[p] = e.proposals[p]
          BY <2>1, <3>4, <4>2, Parts1
        <5> QED BY <5>1
      <4> QED BY <4>1, <4>2
    <3>9. Arrived(f)
      BY <3>4, <3>8
    <3> HIDE DEF Arrived
    <3> QED BY <3>6, <3>9 DEF f
  <2> QED BY <2>2, <2>3
<1>2. d \in D
  BY DEF Alike
<1> HIDE DEF D
<1>3. \A s \in SUBSET x.votes : \A t \in x.votes \ s : \A e \in Q[s] :
         StoreVote(t, e) \in Q[s \union {t}]
  BY <1>1
<1>4. d \in Q[{}] /\ \A t \in x.votes, e \in D : StoreVote(t, e) \in D
  BY <1>1, <1>2
<1> HIDE DEF Q
<1>5. batch_votes(d, x) \in Q[x.votes]
  BY <1>2, <1>3, <1>4, VotesFold
<1> QED BY <1>5 DEF Q, D

(* The proposals that wait for a cycle are the same.                       *)
SamePending(d, e) == \A c \in Contract : e.ledger[c].pending = d.ledger[c].pending

(* What a result makes of its proposal: a final one ends it, one of a      *)
(* stage takes it to the next stage or drops it; where there is none, one  *)
(* of a stage may leave an empty record.                                   *)
Counted(d, e, r) ==
    LET p == r.id IN
    /\ r.final => ~ Stored(e, p)
    /\ (~ r.final /\ r.fast) => Same(d, e, p)
    /\ p \in e.govTxn => p \in d.govTxn \/ (r.final /\ Stored(d, p))
    /\ Hollow(e, p) => ~ Stored(d, p) /\ (Hollow(d, p) \/ ~ r.fast)
    /\ (Stored(d, p) /\ ~ Stored(e, p)) =>
          r.final \/ (~ r.fast /\ p \notin e.ledger[r.contract].ids)
    /\ Stored(e, p) =>
          /\ Stored(d, p)
          /\ e.proposals[p].contract = d.proposals[p].contract
          /\ e.proposals[p].fee = d.proposals[p].fee
          /\ ~ r.fast => e.proposals[p].stage = d.proposals[p].stage + 1
          /\ e.adaptive[p] = d.adaptive[p]
          /\ \A c \in Contract : p \in e.ledger[c].ids <=> p \in d.ledger[c].ids

(* Databases with other proposals, ends, ledgers and transactions to run.  *)
Built(d, ps, a, l, x) ==
    [gov |-> d.gov, proposals |-> ps, adaptive |-> a, ledger |-> l, due |-> d.due, govTxn |-> x]

(* Databases built from parts of the right kinds.                          *)
LEMMA BuiltIn ==
    ASSUME NEW d \in DB, NEW ps \in [Proposal -> Kept],
           NEW a \in [Proposal -> Nat \union {NoTime}], NEW l \in [Contract -> Ledgers],
           NEW x \in SUBSET Proposal
    PROVE  Built(d, ps, a, l, x) \in DB
BY Parts1, Whole DEF Built

(* A ledger without a proposal.                                            *)
Without(d, r) ==
    [d.ledger EXCEPT ![r.contract] = [d.ledger[r.contract] EXCEPT !.ids = d.ledger[r.contract].ids \ {r.id}]]

(* Taking a proposal out of its ledger leaves other proposals and the      *)
(* times of ledgers alone.                                                 *)
LEMMA WithoutFacts ==
    ASSUME NEW d \in DB, NEW r \in Outcomes
    PROVE  /\ Without(d, r) \in [Contract -> Ledgers]
           /\ r.id \notin Without(d, r)[r.contract].ids
           /\ \A c \in Contract :
                 LET l == Without(d, r)[c] IN
                 /\ l.stage = d.ledger[c].stage /\ l.cycleEnd = d.ledger[c].cycleEnd
                 /\ l.stageEnd = d.ledger[c].stageEnd /\ l.pending = d.ledger[c].pending
                 /\ l.ids \subseteq d.ledger[c].ids
                 /\ \A q : q # r.id => (q \in l.ids <=> q \in d.ledger[c].ids)
<1>1. d.ledger \in [Contract -> Ledgers] /\ r.contract \in Contract
  BY Parts1 DEF Outcomes
<1>2. [d.ledger[r.contract] EXCEPT !.ids = d.ledger[r.contract].ids \ {r.id}] \in Ledgers
  BY <1>1 DEF Ledgers
<1>3. Without(d, r) \in [Contract -> Ledgers]
  BY <1>1, <1>2 DEF Without
<1>4. ASSUME NEW c \in Contract
      PROVE  LET l == Without(d, r)[c] IN
             /\ l.stage = d.ledger[c].stage /\ l.cycleEnd = d.ledger[c].cycleEnd
             /\ l.stageEnd = d.ledger[c].stageEnd /\ l.pending = d.ledger[c].pending
             /\ l.ids \subseteq d.ledger[c].ids
             /\ \A q : q # r.id => (q \in l.ids <=> q \in d.ledger[c].ids)
  <2>1. d.ledger[c] \in Ledgers
    BY <1>1
  <2>2. CASE c # r.contract
    <3>1. Without(d, r)[c] = d.ledger[c]
      BY <1>1, <2>2 DEF Without
    <3> QED BY <3>1
  <2>3. CASE c = r.contract
    <3>1. Without(d, r)[c] = [d.ledger[c] EXCEPT !.ids = d.ledger[c].ids \ {r.id}]
      BY <1>1, <2>3 DEF Without
    <3> QED BY <2>1, <3>1 DEF Ledgers
  <2> QED BY <2>2, <2>3
<1>5. r.id \notin Without(d, r)[r.contract].ids
  BY <1>1 DEF Without, Ledgers
<1> QED BY <1>3, <1>4, <1>5

(* The databases after the end of a proposal, written out.                 *)
LEMMA EndIs ==
    ASSUME NEW d \in DB, NEW r \in Outcomes
    PROVE  End(r, d) = Built(d, [d.proposals EXCEPT ![r.id] = NoProposal],
                             [d.adaptive EXCEPT ![r.id] = NoTime], d.ledger, d.govTxn)
<1>1. End(r, d) = [d EXCEPT !.proposals = [d.proposals EXCEPT ![r.id] = NoProposal],
                            !.adaptive = [d.adaptive EXCEPT ![r.id] = NoTime]]
  BY DEF End
<1>2. d = Built(d, d.proposals, d.adaptive, d.ledger, d.govTxn)
  BY Parts1 DEF Built
<1> QED BY <1>1, <1>2 DEF Built

(* What one result does.                                                   *)
LEMMA ResultStep ==
    ASSUME NEW d \in DB, NEW r \in Outcomes
    PROVE  LET e == StoreResult(r, d) IN
           /\ e \in DB /\ Frame(d, e) /\ SamePending(d, e)
           /\ \A q \in Proposal : q # r.id => Same(d, e, q)
           /\ Counted(d, e, r)
<1> DEFINE e == StoreResult(r, d)
           p == r.id
           ps(v) == [d.proposals EXCEPT ![p] = v]
           B(v, a, l, x) == Built(d, ps(v), [d.adaptive EXCEPT ![p] = a], l, x)
           Fits(f, v, a, l, x) ==
               /\ f \in DB /\ Frame(d, f) /\ SamePending(d, f)
               /\ \A q \in Proposal : q # p => Same(d, f, q)
               /\ f.proposals[p] = v /\ f.adaptive[p] = a /\ f.govTxn = x /\ f.ledger = l
<1>1. /\ p \in Proposal /\ r.contract \in Contract
      /\ r.final \in BOOLEAN /\ r.fast \in BOOLEAN /\ r.passed \in BOOLEAN
  BY DEF Outcomes
<1>2. /\ d.proposals \in [Proposal -> Kept]
      /\ d.adaptive \in [Proposal -> Nat \union {NoTime}]
      /\ d.ledger \in [Contract -> Ledgers] /\ d.govTxn \subseteq Proposal
  BY Parts1
<1>3. \A v \in Kept : ps(v) \in [Proposal -> Kept]
  BY <1>1, <1>2
(* Whatever it does, it does to its own proposal.                          *)
<1>4. ASSUME NEW v \in Kept, NEW a \in Nat \union {NoTime},
             NEW l \in {d.ledger, Without(d, r)}, NEW x \in {d.govTxn, d.govTxn \union {p}}
      PROVE  Fits(B(v, a, l, x), v, a, l, x)
  <2> DEFINE f == B(v, a, l, x)
  <2>1. l \in [Contract -> Ledgers]
    BY <1>2, WithoutFacts
  <2>2. /\ ps(v) \in [Proposal -> Kept]
        /\ [d.adaptive EXCEPT ![p] = a] \in [Proposal -> Nat \union {NoTime}]
        /\ x \in SUBSET Proposal
    BY <1>1, <1>2, <1>3
  <2>3. f \in DB
    BY <2>1, <2>2, BuiltIn
  <2>4. /\ f.gov = d.gov /\ f.due = d.due /\ f.govTxn = x /\ f.ledger = l
        /\ f.proposals = ps(v) /\ f.adaptive = [d.adaptive EXCEPT ![p] = a]
    BY DEF Built
  <2> HIDE DEF f
  <2>5. \A c \in Contract :
           /\ l[c].stage = d.ledger[c].stage /\ l[c].cycleEnd = d.ledger[c].cycleEnd
           /\ l[c].stageEnd = d.ledger[c].stageEnd /\ l[c].pending = d.ledger[c].pending
           /\ l[c].ids \subseteq d.ledger[c].ids
           /\ \A q : q # p => (q \in l[c].ids <=> q \in d.ledger[c].ids)
    BY WithoutFacts
  <2>6. Frame(d, f) /\ SamePending(d, f)
    BY <2>4, <2>5 DEF Frame, SamePending
  <2>7. ASSUME NEW q \in Proposal, q # p PROVE Same(d, f, q)
    <3>1. f.proposals[q] = d.proposals[q] /\ f.adaptive[q] = d.adaptive[q]
      BY <1>1, <1>2, <2>4, <2>7
    <3>2. q \in f.govTxn <=> q \in d.govTxn
      BY <2>4, <2>7
    <3>3. \A c \in Contract : /\ q \in f.ledger[c].ids <=> q \in d.ledger[c].ids
                              /\ q \in f.ledger[c].pending <=> q \in d.ledger[c].pending
      BY <2>4, <2>5, <2>7
    <3> QED BY <3>1, <3>2, <3>3 DEF Same
  <2>8. f.proposals[p] = v /\ f.adaptive[p] = a
    BY <1>1, <1>2, <2>4
  <2> QED BY <2>3, <2>4, <2>6, <2>7, <2>8 DEF f
<1>5. /\ d.proposals[p] \in Kept /\ d.adaptive[p] \in Nat \union {NoTime}
      /\ [d.adaptive EXCEPT ![p] = d.adaptive[p]] = d.adaptive
      /\ ps(d.proposals[p]) = d.proposals
  BY <1>1, <1>2
<1>6. CASE r.final
  <2> DEFINE x == wrap_gov_txn(r, d)
             one == [End(r, d) EXCEPT !.govTxn = x]
  <2>1. x \in {d.govTxn, d.govTxn \union {p}} /\ (x # d.govTxn => Stored(d, p))
    BY DEF wrap_gov_txn, Stored
  <2>2. one = Built(d, ps(NoProposal), [d.adaptive EXCEPT ![p] = NoTime], d.ledger, x)
    <3>1. End(r, d) = Built(d, ps(NoProposal), [d.adaptive EXCEPT ![p] = NoTime], d.ledger, d.govTxn)
      BY EndIs
    <3> HIDE DEF x
    <3> QED BY <3>1 DEF Built
  <2>3. one.ledger = d.ledger
    BY <2>2 DEF Built
  <2>4. RemoveFromLedger(one, r) =
           Built(d, ps(NoProposal), [d.adaptive EXCEPT ![p] = NoTime], Without(d, r), x)
    <3>1. RemoveFromLedger(one, r) = [one EXCEPT !.ledger = Without(d, r)]
      <4> HIDE DEF one
      <4> QED BY <2>3 DEF RemoveFromLedger, Without
    <3> HIDE DEF x, one
    <3> QED BY <2>2, <3>1 DEF Built
  <2>5. e = IF ByLedger(d.gov[r.contract]) THEN RemoveFromLedger(one, r) ELSE one
    BY <1>6 DEF StoreResult
  <2> HIDE DEF x, one, e
  <2>6. \E l \in {d.ledger, Without(d, r)} : e = B(NoProposal, NoTime, l, x)
    BY <2>2, <2>4, <2>5
  <2>7. /\ e \in DB /\ Frame(d, e) /\ SamePending(d, e)
        /\ \A q \in Proposal : q # p => Same(d, e, q)
        /\ e.proposals[p] = NoProposal /\ e.govTxn = x
    <3> HIDE DEF B
    <3>1. PICK l \in {d.ledger, Without(d, r)} : e = B(NoProposal, NoTime, l, x)
      BY <2>6
    <3>2. /\ NoProposal \in Kept /\ NoTime \in Nat \union {NoTime}
          /\ x \in {d.govTxn, d.govTxn \union {p}}
      BY <2>1 DEF Kept
    <3>3. Fits(B(NoProposal, NoTime, l, x), NoProposal, NoTime, l, x)
      <4> HIDE DEF Fits
      <4> QED BY <1>4, <3>2
    <3> QED BY <3>1, <3>3
  <2>8. Counted(d, e, r)
    BY <1>6, <2>1, <2>7 DEF Counted, Stored, Hollow, Genuine
  <2> QED BY <2>7, <2>8 DEF e
<1>7. CASE ~ r.final /\ ~ r.fast /\ r.passed
  <2> DEFINE old == Parsed(d.proposals[p])
             v == [old EXCEPT !.stage = old.stage + 1, !.votes = NoVotes]
  <2>1. /\ old \in Recs \union Empties /\ (~ Stored(d, p) => old \in Empties)
        /\ (Stored(d, p) => old = d.proposals[p] /\ old \in Recs)
    BY <1>5, KeptIs DEF Stored
  <2>2. /\ v \in Kept /\ v.contract = old.contract /\ v.fee = old.fee
        /\ v.stage = old.stage + 1
        /\ (Stored(d, p) => v \in Recs) /\ (~ Stored(d, p) => v \in Empties)
    <3>1. NoVotes \in VoteCounts
      BY GovAssumption
    <3> HIDE DEF old
    <3>2. old.stage + 1 \in Nat
      BY <2>1 DEF Recs, Empties
    <3>3. v.contract = old.contract /\ v.fee = old.fee /\ v.stage = old.stage + 1
      BY <2>1 DEF Recs, Empties
    <3> QED BY <2>1, <3>1, <3>2, <3>3, NextStage DEF Kept
  <2>3. e = [d EXCEPT !.proposals = ps(v)]
    BY <1>1, <1>2, <1>7 DEF StoreResult
  <2> HIDE DEF v, e
  <2>4. e = B(v, d.adaptive[p], d.ledger, d.govTxn)
    BY <1>5, <2>3 DEF Built, DB
  <2>5. /\ e \in DB /\ Frame(d, e) /\ SamePending(d, e)
        /\ \A q \in Proposal : q # p => Same(d, e, q)
        /\ e.proposals[p] = v /\ e.adaptive[p] = d.adaptive[p] /\ e.govTxn = d.govTxn
        /\ e.ledger = d.ledger
    <3> HIDE DEF B
    <3>1. d.ledger \in {d.ledger, Without(d, r)} /\ d.govTxn \in {d.govTxn, d.govTxn \union {p}}
      OBVIOUS
    <3>2. Fits(B(v, d.adaptive[p], d.ledger, d.govTxn), v, d.adaptive[p], d.ledger, d.govTxn)
      <4> HIDE DEF Fits
      <4> QED BY <1>4, <1>5, <2>2, <3>1
    <3> QED BY <2>4, <3>2
  <2>6. /\ Stored(e, p) => Stored(d, p) /\ old = d.proposals[p]
        /\ Stored(d, p) => Stored(e, p)
    BY <2>1, <2>2, <2>5, KeptIs DEF Stored
  <2> HIDE DEF old
  <2>7. Counted(d, e, r)
    BY <1>7, <2>2, <2>5, <2>6 DEF Counted, Hollow
  <2> QED BY <2>5, <2>7 DEF e
<1>8. CASE ~ r.final /\ ~ r.fast /\ ~ r.passed
  <2> DEFINE one == [d EXCEPT !.proposals[r.id] = NoProposal]
  <2>1. e = RemoveFromLedger(one, r)
    BY <1>8 DEF StoreResult
  <2>2. one.ledger = d.ledger
    BY DEF DB
  <2>3. e = [one EXCEPT !.ledger = Without(d, r)]
    <3> HIDE DEF one
    <3> QED BY <2>1, <2>2 DEF RemoveFromLedger, Without
  <2> HIDE DEF e
  <2>4. e = B(NoProposal, d.adaptive[p], Without(d, r), d.govTxn)
    BY <1>5, <2>3 DEF Built, DB
  <2>5. /\ e \in DB /\ Frame(d, e) /\ SamePending(d, e)
        /\ \A q \in Proposal : q # p => Same(d, e, q)
        /\ e.proposals[p] = NoProposal /\ e.govTxn = d.govTxn /\ e.ledger = Without(d, r)
    <3> HIDE DEF B
    <3>1. Without(d, r) \in {d.ledger, Without(d, r)} /\ d.govTxn \in {d.govTxn, d.govTxn \union {p}}
          /\ NoProposal \in Kept
      BY DEF Kept
    <3>2. Fits(B(NoProposal, d.adaptive[p], Without(d, r), d.govTxn),
               NoProposal, d.adaptive[p], Without(d, r), d.govTxn)
      <4> HIDE DEF Fits
      <4> QED BY <1>4, <1>5, <3>1
    <3> QED BY <2>4, <3>2
  <2>6. Counted(d, e, r)
    <3>1. p \notin e.ledger[r.contract].ids
      BY <2>5, WithoutFacts
    <3> QED BY <1>8, <2>5, <3>1 DEF Counted, Stored, Hollow, Genuine
  <2> QED BY <2>5, <2>6 DEF e
<1>9. CASE ~ r.final /\ r.fast
  <2>1. e = d
    BY <1>9 DEF StoreResult
  <2>2. Frame(d, d) /\ SamePending(d, d) /\ \A q : Same(d, d, q)
    BY Compose DEF SamePending
  <2>3. Counted(d, d, r)
    BY <1>9, <2>2 DEF Counted, Hollow
  <2> QED BY <2>1, <2>2, <2>3
<1> QED BY <1>1, <1>6, <1>7, <1>8, <1>9

(* That no pending proposal changed is kept by composition.                *)
LEMMA ComposePending ==
    ASSUME NEW d, NEW e, NEW f
    PROVE  SamePending(d, d) /\ (SamePending(d, e) /\ SamePending(e, f) => SamePending(d, f))
BY DEF SamePending

(* A result that was counted still is when nothing changes its proposal,   *)
(* and it is counted as from databases that had the same of it.            *)
LEMMA CountedStays ==
    ASSUME NEW d, NEW e, NEW f, NEW r \in Outcomes
    PROVE  /\ Counted(d, e, r) /\ Same(e, f, r.id) => Counted(d, f, r)
           /\ Same(d, e, r.id) /\ Counted(e, f, r) => Counted(d, f, r)
<1>1. ASSUME Counted(d, e, r), Same(e, f, r.id) PROVE Counted(d, f, r)
  <2>1. /\ f.proposals[r.id] = e.proposals[r.id] /\ f.adaptive[r.id] = e.adaptive[r.id]
        /\ r.id \in f.govTxn <=> r.id \in e.govTxn
    BY <1>1 DEF Same
  <2>2. \A c \in Contract : r.id \in f.ledger[c].ids <=> r.id \in e.ledger[c].ids
    BY <1>1 DEF Same
  <2>3. (Stored(f, r.id) <=> Stored(e, r.id)) /\ (Hollow(f, r.id) <=> Hollow(e, r.id))
    BY <2>1 DEF Stored, Hollow
  <2>4. (~ r.final /\ r.fast) => Same(d, f, r.id)
    BY <1>1, Compose DEF Counted
  <2>5. r.contract \in Contract
    BY DEF Outcomes
  <2> QED BY <1>1, <2>1, <2>2, <2>3, <2>4, <2>5 DEF Counted
<1>2. ASSUME Same(d, e, r.id), Counted(e, f, r) PROVE Counted(d, f, r)
  <2>1. /\ e.proposals[r.id] = d.proposals[r.id] /\ e.adaptive[r.id] = d.adaptive[r.id]
        /\ r.id \in e.govTxn <=> r.id \in d.govTxn
    BY <1>2 DEF Same
  <2>2. \A c \in Contract : r.id \in e.ledger[c].ids <=> r.id \in d.ledger[c].ids
    BY <1>2 DEF Same
  <2>3. (Stored(e, r.id) <=> Stored(d, r.id)) /\ (Hollow(e, r.id) <=> Hollow(d, r.id))
    BY <2>1 DEF Stored, Hollow
  <2>4. (~ r.final /\ r.fast) => Same(d, f, r.id)
    BY <1>2, Compose DEF Counted
  <2>5. r.contract \in Contract
    BY DEF Outcomes
  <2> QED BY <1>2, <2>1, <2>2, <2>3, <2>4, <2>5 DEF Counted
<1> QED BY <1>1, <1>2

(* The results of what was due, each proposal's only one.                  *)
LEMMA DueResultsStep ==
    ASSUME NEW d \in DB, NEW R \in SUBSET Outcomes, IsFiniteSet(R)
    PROVE  LET e == FoldSet(StoreResult, d, R) IN
           /\ e \in DB /\ Frame(d, e) /\ SamePending(d, e)
           /\ \A p \in Proposal : (\A r \in R : r.id # p) => Same(d, e, p)
           /\ \A r \in R : (\A u \in R : u.id = r.id => u = r) => Counted(d, e, r)
<1> DEFINE Arrived(s, e) ==
               /\ Frame(d, e) /\ SamePending(d, e)
               /\ \A p \in Proposal : (\A r \in s : r.id # p) => Same(d, e, p)
               /\ \A r \in s : (\A u \in R : u.id = r.id => u = r) => Counted(d, e, r)
           Q == [s \in SUBSET R |-> {e \in DB : Arrived(s, e)}]
<1>1. \A r \in R : r \in Outcomes /\ r.id \in Proposal
  BY DEF Outcomes
<1>2. \A r \in R, e \in DB : StoreResult(r, e) \in DB
  BY <1>1, ResultStep
<1>3. d \in Q[{}]
  BY Compose, ComposePending
<1>4. ASSUME NEW s \in SUBSET R, NEW r \in R \ s, NEW e \in Q[s]
      PROVE  StoreResult(r, e) \in Q[s \union {r}]
  <2> DEFINE f == StoreResult(r, e)
  <2>1. e \in DB /\ Arrived(s, e)
    OBVIOUS
  <2>2. /\ f \in DB /\ Frame(e, f) /\ SamePending(e, f)
        /\ \A q \in Proposal : q # r.id => Same(e, f, q)
        /\ Counted(e, f, r)
    BY <1>1, <2>1, ResultStep
  <2> HIDE DEF f
  <2>3. Frame(d, f) /\ SamePending(d, f)
    BY <2>1, <2>2, Compose, ComposePending
  <2>4. ASSUME NEW p \in Proposal, \A u \in s \union {r} : u.id # p PROVE Same(d, f, p)
    <3>1. Same(d, e, p) /\ Same(e, f, p)
      BY <2>1, <2>2, <2>4
    <3> QED BY <3>1, Compose
  <2>5. ASSUME NEW v \in s \union {r}, \A u \in R : u.id = v.id => u = v PROVE Counted(d, f, v)
    <3>1. v.id \in Proposal
      BY <1>1
    <3>2. CASE v = r
      <4>1. \A u \in s : u.id # r.id
        BY <2>5, <3>2
      <4>2. Same(d, e, r.id)
        BY <2>1, <3>1, <3>2, <4>1
      <4> QED BY <1>1, <2>2, <3>2, <4>2, CountedStays
    <3>3. CASE v # r
      <4>1. v \in s /\ r.id # v.id
        BY <2>5, <3>3
      <4>2. Counted(d, e, v)
        BY <2>1, <2>5, <4>1
      <4>3. Same(e, f, v.id)
        BY <2>2, <3>1, <4>1
      <4> QED BY <1>1, <4>2, <4>3, CountedStays
    <3> QED BY <3>2, <3>3
  <2>6. s \union {r} \in SUBSET R
    OBVIOUS
  <2>7. Arrived(s \union {r}, f)
    BY <2>3, <2>4, <2>5
  <2> HIDE DEF Arrived
  <2> QED BY <2>2, <2>6, <2>7 DEF f
<1> HIDE DEF Q
<1>5. FoldSet(StoreResult, d, R) \in Q[R]
  BY <1>2, <1>3, <1>4, ResultsFold
<1> QED BY <1>5 DEF Q

(* The results of fast quorums: the final ones end their proposals.        *)
LEMMA FastResultsStep ==
    ASSUME NEW d \in DB, NEW R \in SUBSET Outcomes, IsFiniteSet(R), \A r \in R : r.fast
    PROVE  LET e == FoldSet(StoreResult, d, R) IN
           /\ e \in DB /\ Frame(d, e) /\ SamePending(d, e)
           /\ \A p \in Proposal : (\A r \in R : r.id = p => ~ r.final) => Same(d, e, p)
           /\ \A r \in R : r.final => ~ Stored(e, r.id)
           /\ \A p \in Proposal : Hollow(e, p) => Hollow(d, p)
           /\ \A p \in Proposal :
                 p \in e.govTxn => \/ p \in d.govTxn
                                   \/ Stored(d, p) /\ \E r \in R : r.id = p /\ r.final
<1> DEFINE Arrived(s, e) ==
               /\ Frame(d, e) /\ SamePending(d, e)
               /\ \A p \in Proposal : (\A r \in s : r.id = p => ~ r.final) => Same(d, e, p)
               /\ \A r \in s : r.final => ~ Stored(e, r.id)
               /\ \A p \in Proposal : Hollow(e, p) => Hollow(d, p)
               /\ \A p \in Proposal :
                     p \in e.govTxn => \/ p \in d.govTxn
                                       \/ Stored(d, p) /\ \E r \in s : r.id = p /\ r.final
           Q == [s \in SUBSET R |-> {e \in DB : Arrived(s, e)}]
<1>1. \A r \in R : r \in Outcomes /\ r.id \in Proposal
  BY DEF Outcomes
<1>2. \A r \in R, e \in DB : StoreResult(r, e) \in DB
  BY <1>1, ResultStep
<1>3. d \in Q[{}]
  BY Compose, ComposePending
<1>4. ASSUME NEW s \in SUBSET R, NEW r \in R \ s, NEW e \in Q[s]
      PROVE  StoreResult(r, e) \in Q[s \union {r}]
  <2> DEFINE f == StoreResult(r, e)
  <2>1. e \in DB /\ Arrived(s, e)
    OBVIOUS
  <2>2. /\ f \in DB /\ Frame(e, f) /\ SamePending(e, f)
        /\ \A q \in Proposal : q # r.id => Same(e, f, q)
        /\ Counted(e, f, r)
    BY <1>1, <2>1, ResultStep
  <2> HIDE DEF f
  <2>3. Frame(d, f) /\ SamePending(d, f)
    BY <2>1, <2>2, Compose, ComposePending
  <2>4. ASSUME NEW p \in Proposal, \A u \in s \union {r} : u.id = p => ~ u.final PROVE Same(d, f, p)
    <3>1. Same(d, e, p)
      BY <2>1, <2>4
    <3>2. Same(e, f, p)
      BY <2>2, <2>4 DEF Counted
    <3> QED BY <3>1, <3>2, Compose
  <2>5. ASSUME NEW v \in s \union {r}, v.final PROVE ~ Stored(f, v.id)
    <3>1. v.id \in Proposal
      BY <1>1
    <3>2. CASE v = r
      BY <2>2, <2>5, <3>2 DEF Counted
    <3>3. CASE v # r
      <4>1. ~ Stored(e, v.id)
        BY <2>1, <2>5, <3>3
      <4>2. v.id # r.id => Same(e, f, v.id)
        BY <2>2, <3>1
      <4>3. v.id = r.id => (Stored(f, v.id) => Stored(e, v.id))
        BY <2>2 DEF Counted
      <4> QED BY <4>1, <4>2, <4>3 DEF Same, Stored
    <3> QED BY <3>2, <3>3
  <2>6. ASSUME NEW p \in Proposal, p \in f.govTxn
        PROVE  p \in d.govTxn \/ (Stored(d, p) /\ \E u \in s \union {r} : u.id = p /\ u.final)
    <3>1. CASE p \in e.govTxn
      BY <2>1, <2>6, <3>1
    <3>2. CASE p \notin e.govTxn
      <4>1. p = r.id
        BY <2>2, <2>6, <3>2 DEF Same
      <4>2. r.final /\ Stored(e, p)
        BY <2>2, <2>6, <3>2, <4>1 DEF Counted
      <4>3. \A u \in s : u.id = p => ~ u.final
        BY <2>1, <4>2
      <4>4. Same(d, e, p)
        BY <2>1, <4>3
      <4> QED BY <4>1, <4>2, <4>4 DEF Same, Stored
    <3> QED BY <3>1, <3>2
  <2>7. ASSUME NEW p \in Proposal, Hollow(f, p) PROVE Hollow(d, p)
    <3>1. p = r.id => Hollow(e, p)
      BY <2>2, <2>7 DEF Counted
    <3>2. p # r.id => Hollow(e, p)
      BY <2>2, <2>7 DEF Same, Hollow, Stored
    <3> QED BY <2>1, <3>1, <3>2
  <2>8. s \union {r} \in SUBSET R
    OBVIOUS
  <2>9. Arrived(s \union {r}, f)
    BY <2>3, <2>4, <2>5, <2>6, <2>7
  <2> HIDE DEF Arrived
  <2> QED BY <2>2, <2>8, <2>9 DEF f
<1> HIDE DEF Q
<1>5. FoldSet(StoreResult, d, R) \in Q[R]
  BY <1>2, <1>3, <1>4, ResultsFold
<1> QED BY <1>5 DEF Q

(* A proposal counted at most once besides fast quorums.                   *)
CountedOnce(R, p) == \A r, u \in R : r.id = p /\ u.id = p /\ ~ r.fast /\ ~ u.fast => r = u

(* What the results of a block make of a proposal.                         *)
Decided(d, e, R, p) ==
    /\ (\E r \in R : r.id = p /\ r.final) => ~ Stored(e, p)
    /\ p \in e.govTxn => p \in d.govTxn \/ (Stored(d, p) /\ \E r \in R : r.id = p /\ r.final)
    /\ (\A r \in R : r.id # p) => Same(d, e, p)
    /\ Hollow(e, p) => ~ Stored(d, p) /\ (Hollow(d, p) \/ \E r \in R : r.id = p /\ ~ r.fast)
    /\ (Stored(d, p) /\ ~ Stored(e, p)) =>
          \E r \in R : r.id = p /\ (r.final \/ (~ r.fast /\ p \notin e.ledger[r.contract].ids))
    /\ Stored(e, p) =>
          /\ Stored(d, p)
          /\ e.proposals[p].contract = d.proposals[p].contract
          /\ e.proposals[p].fee = d.proposals[p].fee
          /\ e.proposals[p].stage = d.proposals[p].stage
                + (IF \E r \in R : r.id = p /\ ~ r.fast THEN 1 ELSE 0)
          /\ e.adaptive[p] = d.adaptive[p]
          /\ \A c \in Contract : p \in e.ledger[c].ids <=> p \in d.ledger[c].ids

(* All results of a block.                                                 *)
LEMMA ResultsStep ==
    ASSUME NEW d \in DB, NEW R \in SUBSET Outcomes, IsFiniteSet(R)
    PROVE  LET e == batch_proposal_results(d, R) IN
           /\ e \in DB /\ Frame(d, e) /\ SamePending(d, e)
           /\ \A p \in Proposal : CountedOnce(R, p) => Decided(d, e, R, p)
<1> DEFINE A == {r \in R : ~ r.fast}
           B == {r \in R : r.fast}
           m == FoldSet(StoreResult, d, A)
           e == FoldSet(StoreResult, m, B)
<1>1. A \in SUBSET Outcomes /\ B \in SUBSET Outcomes /\ IsFiniteSet(A) /\ IsFiniteSet(B)
  BY FS_Subset
<1>2. /\ m \in DB /\ Frame(d, m) /\ SamePending(d, m)
      /\ \A p \in Proposal : (\A r \in A : r.id # p) => Same(d, m, p)
      /\ \A r \in A : (\A u \in A : u.id = r.id => u = r) => Counted(d, m, r)
  <2> HIDE DEF A
  <2> QED BY <1>1, DueResultsStep
<1>3. /\ e \in DB /\ Frame(m, e) /\ SamePending(m, e)
      /\ \A p \in Proposal : (\A r \in B : r.id = p => ~ r.final) => Same(m, e, p)
      /\ \A r \in B : r.final => ~ Stored(e, r.id)
      /\ \A p \in Proposal : Hollow(e, p) => Hollow(m, p)
      /\ \A p \in Proposal :
            p \in e.govTxn => \/ p \in m.govTxn
                              \/ Stored(m, p) /\ \E r \in B : r.id = p /\ r.final
  <2>1. \A r \in B : r.fast
    OBVIOUS
  <2> HIDE DEF m, B
  <2> QED BY <1>1, <1>2, <2>1, FastResultsStep
<1>4. batch_proposal_results(d, R) = e
  BY DEF batch_proposal_results
<1> HIDE DEF m, e
<1>5. Frame(d, e) /\ SamePending(d, e)
  BY <1>2, <1>3, Compose, ComposePending
<1>6. ASSUME NEW p \in Proposal, CountedOnce(R, p)
      PROVE  Decided(d, e, R, p)
  <2>1. CASE \A r \in A : r.id # p
    <3>1. Same(d, m, p)
      BY <1>2, <2>1
    <3>2. /\ m.proposals[p] = d.proposals[p] /\ m.adaptive[p] = d.adaptive[p]
          /\ p \in m.govTxn <=> p \in d.govTxn
          /\ \A c \in Contract : p \in m.ledger[c].ids <=> p \in d.ledger[c].ids
      BY <3>1 DEF Same
    <3>3. CASE \A r \in B : r.id = p => ~ r.final
      <4>1. Same(d, e, p)
        BY <1>3, <3>1, <3>3, Compose
      <4>2. /\ e.proposals[p] = d.proposals[p] /\ e.adaptive[p] = d.adaptive[p]
            /\ p \in e.govTxn <=> p \in d.govTxn
            /\ \A c \in Contract : p \in e.ledger[c].ids <=> p \in d.ledger[c].ids
        BY <4>1 DEF Same
      <4>3. ~ \E r \in R : r.id = p /\ (r.final \/ ~ r.fast)
        BY <2>1, <3>3
      <4>4. Stored(e, p) => e.proposals[p].stage = e.proposals[p].stage + 0
        <5>1. e.proposals[p] \in Kept
          BY <1>3, Parts1
        <5> QED BY <5>1, KeptIs DEF Stored, Recs
      <4>5. (Stored(e, p) <=> Stored(d, p)) /\ (Hollow(e, p) <=> Hollow(d, p))
        BY <4>2 DEF Stored, Hollow
      <4>6. Hollow(d, p) => ~ Stored(d, p)
        BY DEF Hollow
      <4> QED BY <4>1, <4>2, <4>3, <4>4, <4>5, <4>6 DEF Decided
    <3>4. CASE \E r \in B : r.id = p /\ r.final
      <4>1. ~ Stored(e, p)
        BY <1>3, <3>4
      <4>2. p \in e.govTxn => p \in d.govTxn \/ Stored(d, p)
        BY <1>3, <3>2 DEF Stored
      <4>3. \E r \in R : r.id = p /\ r.final
        BY <3>4
      <4>4. Hollow(e, p) => Hollow(d, p) /\ ~ Stored(d, p)
        BY <1>3, <3>2 DEF Hollow, Stored
      <4> QED BY <4>1, <4>2, <4>3, <4>4 DEF Decided
    <3> QED BY <3>3, <3>4
  <2>2. CASE \E r \in A : r.id = p
    <3>1. PICK r \in A : r.id = p
      BY <2>2
    <3>2. \A u \in A : u.id = r.id => u = r
      BY <1>6, <3>1 DEF CountedOnce
    <3>3. Counted(d, m, r)
      BY <1>2, <3>2
    <3>4. r \in R /\ ~ r.fast /\ \E u \in R : u.id = p /\ ~ u.fast
      BY <3>1
    <3>5. CASE \A u \in B : u.id = p => ~ u.final
      <4>1. Same(m, e, p)
        BY <1>3, <3>5
      <4>2. /\ e.proposals[p] = m.proposals[p] /\ e.adaptive[p] = m.adaptive[p]
            /\ p \in e.govTxn <=> p \in m.govTxn
            /\ \A c \in Contract : p \in e.ledger[c].ids <=> p \in m.ledger[c].ids
        BY <4>1 DEF Same
      <4>3. (\E u \in R : u.id = p /\ u.final) => r.final
        BY <3>1, <3>2, <3>5
      <4>4. Counted(d, e, r)
        BY <1>1, <3>1, <3>3, <4>1, CountedStays
      <4>5. ~ \A u \in R : u.id # p
        BY <3>1
      <4> QED BY <3>1, <3>4, <4>3, <4>4, <4>5 DEF Decided, Counted
    <3>6. CASE \E u \in B : u.id = p /\ u.final
      <4>1. ~ Stored(e, p)
        BY <1>3, <3>6
      <4>2. p \in e.govTxn => p \in d.govTxn \/ Stored(d, p)
        BY <1>3, <3>1, <3>3 DEF Counted
      <4>3. \E u \in R : u.id = p /\ u.final
        BY <3>6
      <4>4. Hollow(e, p) => ~ Stored(d, p)
        BY <1>3, <3>1, <3>3 DEF Counted
      <4> QED BY <3>4, <4>1, <4>2, <4>3, <4>4 DEF Decided
    <3> QED BY <3>5, <3>6
  <2> QED BY <2>1, <2>2
<1> QED BY <1>3, <1>4, <1>5, <1>6

(* The copies with adjusted votes are written over the proposals.          *)
LEMMA CopiesStep ==
    ASSUME NEW d \in DB, NEW temp \in SUBSET Copies, IsFiniteSet(temp)
    PROVE  LET e == store_proposal_adjustment(d, temp) IN
           /\ e \in DB /\ e.gov = d.gov /\ e.due = d.due /\ e.adaptive = d.adaptive
           /\ e.govTxn = d.govTxn /\ e.ledger = d.ledger
           /\ \A p \in Proposal :
                 \/ e.proposals[p] = d.proposals[p] /\ \A t \in temp : t.id # p
                 \/ \E t \in temp : t.id = p /\ e.proposals[p] = t.record
<1> DEFINE Arrived(s, e) ==
               /\ e.gov = d.gov /\ e.due = d.due /\ e.adaptive = d.adaptive
               /\ e.govTxn = d.govTxn /\ e.ledger = d.ledger
               /\ \A p \in Proposal :
                     \/ e.proposals[p] = d.proposals[p] /\ \A t \in s : t.id # p
                     \/ \E t \in s : t.id = p /\ e.proposals[p] = t.record
           Q == [s \in SUBSET temp |-> {e \in DB : Arrived(s, e)}]
<1>1. ASSUME NEW t \in temp, NEW e \in DB
      PROVE  /\ StoreCopy(t, e) \in DB
             /\ StoreCopy(t, e) = [gov |-> e.gov, proposals |-> [e.proposals EXCEPT ![t.id] = t.record],
                                   adaptive |-> e.adaptive, ledger |-> e.ledger, due |-> e.due,
                                   govTxn |-> e.govTxn]
  <2>1. t.id \in Proposal /\ t.record \in Recs
    BY DEF Copies
  <2>2. StoreCopy(t, e) = [e EXCEPT !.proposals = [e.proposals EXCEPT ![t.id] = t.record]]
    BY DEF StoreCopy
  <2>3. StoreCopy(t, e) = [gov |-> e.gov, proposals |-> [e.proposals EXCEPT ![t.id] = t.record],
                           adaptive |-> e.adaptive, ledger |-> e.ledger, due |-> e.due,
                           govTxn |-> e.govTxn]
    BY <2>2 DEF DB
  <2>4. [e.proposals EXCEPT ![t.id] = t.record] \in [Proposal -> Kept]
    BY <2>1, Parts1 DEF Kept
  <2> QED BY <2>3, <2>4, Parts1, Whole
<1>2. ASSUME NEW s \in SUBSET temp, NEW t \in temp \ s, NEW e \in Q[s]
      PROVE  StoreCopy(t, e) \in Q[s \union {t}]
  <2> DEFINE f == StoreCopy(t, e)
  <2>1. e \in DB /\ Arrived(s, e)
    OBVIOUS
  <2>2. f \in DB /\ f = [gov |-> e.gov, proposals |-> [e.proposals EXCEPT ![t.id] = t.record],
                         adaptive |-> e.adaptive, ledger |-> e.ledger, due |-> e.due,
                         govTxn |-> e.govTxn]
    BY <1>1, <2>1
  <2>3. t.id \in Proposal /\ e.proposals \in [Proposal -> Kept]
    BY <2>1, Parts1 DEF Copies
  <2> HIDE DEF f
  <2>4. ASSUME NEW p \in Proposal
        PROVE  \/ f.proposals[p] = d.proposals[p] /\ \A u \in s \union {t} : u.id # p
               \/ \E u \in s \union {t} : u.id = p /\ f.proposals[p] = u.record
    <3>1. CASE p = t.id
      BY <2>2, <2>3, <3>1
    <3>2. CASE p # t.id
      <4>1. f.proposals[p] = e.proposals[p]
        BY <2>2, <2>3, <3>2
      <4> QED BY <2>1, <3>2, <4>1
    <3> QED BY <3>1, <3>2
  <2>5. s \union {t} \in SUBSET temp /\ Arrived(s \union {t}, f)
    BY <2>1, <2>2, <2>4
  <2> HIDE DEF Arrived
  <2> QED BY <2>2, <2>5 DEF f
<1>3. d \in Q[{}]
  OBVIOUS
<1> HIDE DEF Q
<1>4. store_proposal_adjustment(d, temp) \in Q[temp]
  BY <1>1, <1>2, <1>3, CopiesFold
<1> QED BY <1>4 DEF Q
-----------------------------------------------------------------------------
(* The inductive invariant. *)

Live(p) == p \notin overwritten
Staged(d, c) == d.gov[c] # NoGov /\ d.gov[c].type = "STAGED"
DueIn(d, p, c) == \E e \in d.due.contracts : e.contract = c /\ p \in e.ids

InBlock == IF block = NoBlock THEN {} ELSE block.txns.proposals
Results == IF block = NoBlock THEN {} ELSE block.results
Asked(p) == \E t \in waiting.proposals \union InBlock : t.id = p

(* Nothing is known of a proposal but perhaps its transaction.             *)
Untouched(p) ==
    /\ stored.proposals[p] = NoProposal /\ snapshot[p] = NoProposal /\ p \notin removed
    /\ \A c \in Contract : ~ In(stored, p, c)
    /\ \A r \in Results : r.id # p

Blocks == [made : {TRUE}, time : Times, txns : Txns, results : SUBSET Outcomes,
           gone : BOOLEAN, temp : SUBSET Copies]

Bounded(txns) == IsFiniteSet(txns.proposals) /\ IsFiniteSet(txns.votes)

InvTypes ==
    /\ stored \in DB /\ waiting \in Txns /\ Bounded(waiting)
    /\ block # NoBlock =>
          /\ block \in Blocks /\ Bounded(block.txns)
          /\ IsFiniteSet(block.results) /\ IsFiniteSet(block.temp)
    /\ purse \in [Proposal -> Nat] /\ snapshot \in [Proposal -> Recs \union {NoProposal}]
    /\ clock \in Times /\ rare \in 0 .. MaxRare
    /\ executed \in [Proposal -> Nat] /\ finals \in [Proposal -> Nat]
    /\ \A t \in waiting.proposals \union InBlock : stored.gov[t.contract] # NoGov
    /\ \A c \in Contract : stored.gov[c] \in LaterGov \union {FirstGov[c]}

(* A proposal is asked for once, before anything else is known of it, and  *)
(* has a purse from then on.                                               *)
Fresh(p) ==
    /\ Asked(p) => Untouched(p) /\ purse[p] > 0 /\ finals[p] = 0
    /\ (purse[p] = 0 /\ finals[p] = 0) => Untouched(p)
    /\ \A s, t \in waiting.proposals : s.id = p /\ t.id = p => s = t
    /\ \A s, t \in InBlock : s.id = p /\ t.id = p => s = t
    /\ \A s \in InBlock, t \in waiting.proposals : ~ (s.id = p /\ t.id = p)

(* A proposal in a ledger is its contract's, once, and in a stage if it is *)
(* voted on.                                                               *)
Placed(d, p, c) ==
    (Stored(d, p) /\ In(d, p, c)) =>
        /\ d.proposals[p].contract = c /\ ByLedger(d.gov[c])
        /\ ~ (p \in d.ledger[c].ids /\ p \in d.ledger[c].pending)
        /\ Staged(d, c) => /\ p \in d.ledger[c].pending => d.proposals[p].stage = 0
                           /\ p \in d.ledger[c].ids => d.proposals[p].stage > 0
DuePlaced(d, p, c) ==
    (Stored(d, p) /\ DueIn(d, p, c)) =>
        /\ d.proposals[p].contract = c /\ ByLedger(d.gov[c])
        /\ Staged(d, c) => d.proposals[p].stage > 0

(* The stages that were paid for before a stage.                           *)
PaidBefore(stage) == IF stage = 0 THEN 0 ELSE stage - 1
Counting(p) == \E r \in Results : r.id = p /\ ~ r.fast

(* What is left in the purse is enough for the stages left.                *)
Paid(p, c) ==
    (Stored(stored, p) /\ finals[p] = 0 /\ Staged(stored, c)
        /\ (In(stored, p, c) \/ DueIn(stored, p, c))) =>
        LET r == stored.proposals[p] IN
        r.fee * Len(stored.gov[c].stages)
            <= purse[p] + r.fee * (PaidBefore(r.stage) + (IF Counting(p) THEN 1 ELSE 0))

Ending(d, p, c) == Staged(d, c) => d.proposals[p].stage >= Len(d.gov[c].stages)

(* Where there are traces of a proposal, a record of it or a place in a    *)
(* ledger, it is stored or it is over; and the ledger is one contract's.   *)
Ended(p) == finals[p] > 0 \/ p \in removed
Known(d, p) == d.proposals[p] # NoProposal \/ \E c \in Contract : In(d, p, c)
Near(d, p, c) == In(d, p, c) \/ DueIn(d, p, c)
Remnant(p) ==
    /\ (Known(stored, p) \/ \E c \in Contract : DueIn(stored, p, c)) =>
          Stored(stored, p) \/ Ended(p)
    /\ \A b, c \in Contract : Near(stored, p, b) /\ Near(stored, p, c) => b = c

(* The results of a block are those of what is due.  One of an empty       *)
(* record is not final and not paid for.                                   *)
Resulted(p) ==
    /\ \A r \in Results : r.id = p =>
          /\ r.fast => r.final = r.passed
          /\ r.final => finals[p] > 0
          /\ (r.fast \/ Stored(stored, p)) => r.funded
          /\ (~ r.fast /\ ~ Stored(stored, p)) => Ended(p) /\ ~ r.final
          /\ (~ r.fast /\ Stored(stored, p)) =>
                /\ r.contract = stored.proposals[p].contract
                /\ ~ r.final => DueIn(stored, p, r.contract) /\ Staged(stored, r.contract)
                /\ DueIn(stored, p, r.contract) => (r.final <=> Ending(stored, p, r.contract))
    /\ CountedOnce(Results, p)
    /\ (block # NoBlock /\ Stored(stored, p)
          /\ (p \in stored.due.ids \/ \E c \in Contract : DueIn(stored, p, c))) => Counting(p)
    /\ (Stored(stored, p) /\ finals[p] > 0) => \E r \in Results : r.id = p /\ r.final

(* The transactions of a proposal wait to be run once, when it is over.    *)
Ran(p) ==
    /\ executed[p] <= 1 /\ (p \in stored.govTxn => executed[p] = 0)
    /\ (executed[p] > 0 \/ p \in stored.govTxn) => ~ Stored(stored, p) /\ finals[p] > 0

(* Ledger and proposal are in the same stage.                              *)
InStep(p, c) ==
    /\ (p \in stored.ledger[c].ids /\ Staged(stored, c) /\ Stored(stored, p)) =>
          stored.proposals[p].stage + (IF Due(p) THEN 1 ELSE 0) = stored.ledger[c].stage
    /\ (Stored(stored, p) /\ DueIn(stored, p, c) /\ p \notin stored.ledger[c].ids) =>
          Ending(stored, p, c)

(* A ledger is at a stage of its contract, and ends with it.               *)
Timed(d, c) ==
    /\ Staged(d, c) => /\ d.ledger[c].stageEnd # NoTime
                       /\ d.ledger[c].stage \in 0 .. Len(d.gov[c].stages)
    /\ (d.gov[c] # NoGov /\ d.gov[c].type = "CYCLE") => d.ledger[c].stageEnd = NoTime

Lengths(g) == [k \in DOMAIN g.stages |-> g.stages[k].length]
LengthsTo(g, k) == SumFunctionOnSet(Lengths(g), 1 .. k)

(* The end of a stage is as far from its cycle's as the stages after it.   *)
InCycle(d, c) ==
    (Staged(d, c) /\ d.ledger[c].ids # {}) =>
        LET g == d.gov[c]
            l == d.ledger[c]
        IN  /\ l.stage > 0
            /\ IF g.stages[l.stage].length = 0 THEN l.stageEnd = l.cycleEnd
               ELSE l.stageEnd + g.period = l.cycleEnd + LengthsTo(g, l.stage)

InvDue == stored.due.ids = {} \/ stored.due.contracts = {}
InvTemp ==
    block # NoBlock => \A t \in block.temp :
        /\ Stored(stored, t.id)
        /\ \E v \in VoteCounts : t.record = [stored.proposals[t.id] EXCEPT !.votes = v]
InvProposals ==
    \A p \in Proposal : Live(p) =>
        /\ Fresh(p) /\ Remnant(p) /\ Resulted(p) /\ Ran(p)
        /\ \A c \in Contract : /\ Placed(stored, p, c) /\ DuePlaced(stored, p, c) /\ Paid(p, c)
                               /\ p \notin missed => InStep(p, c)
InvLedgers == \A c \in Contract : Timed(stored, c) /\ InCycle(stored, c)

(* No governance is of the type REMOVE: a proposal to a contract of that   *)
(* type would be in no ledger and have no end.                             *)
NoRemoval == \A g \in Governed : g.type # "REMOVE"

IInv ==
    /\ InvTypes /\ InvDue /\ InvTemp /\ InvProposals /\ InvLedgers /\ SpentAtEnd
-----------------------------------------------------------------------------
(* What storing a block makes of proposals and ledgers, up to the check of *)
(* what is due. *)

Adjusted == store_proposal_adjustment(Batched(stored), block.temp)

(* No adjusted copy undoes what the block changed about a proposal.        *)
Survives(p) ==
    /\ Live(p)
    /\ \A x \in block.temp : x.id = p => Batched(stored).proposals[p] = stored.proposals[p]

(* The times of a ledger.                                                  *)
SameTimes(d, e, c) ==
    /\ e.gov[c] = d.gov[c] /\ e.ledger[c].stage = d.ledger[c].stage
    /\ e.ledger[c].cycleEnd = d.ledger[c].cycleEnd /\ e.ledger[c].stageEnd = d.ledger[c].stageEnd

(* A proposal that is not new is at most where and what it was, with its   *)
(* result counted.                                                         *)
Carried(d, p) ==
    /\ Stored(d, p) =>
          /\ Stored(stored, p)
          /\ d.proposals[p].contract = stored.proposals[p].contract
          /\ d.proposals[p].fee = stored.proposals[p].fee
          /\ d.proposals[p].stage = stored.proposals[p].stage + (IF Counting(p) THEN 1 ELSE 0)
          /\ \A r \in Results : r.id = p => ~ r.final
          /\ d.adaptive[p] = stored.adaptive[p]
          /\ \A c \in Contract :
                /\ p \in d.ledger[c].ids <=> p \in stored.ledger[c].ids
                /\ p \in d.ledger[c].pending <=> p \in stored.ledger[c].pending
                /\ In(stored, p, c) => SameTimes(stored, d, c)
    /\ p \in d.govTxn =>
          p \in stored.govTxn \/ (Stored(stored, p) /\ \E r \in Results : r.id = p /\ r.final)
    /\ \A c \in Contract : In(d, p, c) => In(stored, p, c)

(* A new proposal waits for its contract's next cycle or has its end.      *)
Joined(d, t) ==
    LET g == d.gov[t.contract]
        r == d.proposals[t.id]
    IN  /\ Stored(d, t.id) /\ r.contract = t.contract /\ r.stage = 0
        /\ r.fee = IF g.type = "STAGED" THEN purse[t.id] \div Len(g.stages) ELSE purse[t.id]
        /\ g.type \in {"ADAPTIVE", "STAGGERED"} => d.adaptive[t.id] \in Nat
        /\ t.id \notin d.govTxn
        /\ \A c \in Contract :
              /\ t.id \notin d.ledger[c].ids
              /\ t.id \in d.ledger[c].pending <=> (c = t.contract /\ ByLedger(g))

(* A ledger has the times it had, or is new.                               *)
Ledgered(d, c) ==
    \/ SameTimes(stored, d, c) /\ d.ledger[c].ids \subseteq stored.ledger[c].ids
    \/ /\ d.gov[c] \in Checked
       /\ ByLedger(d.gov[c]) =>
             LET l == make_staged_cycle_ledger(d.gov[c], d.gov[c].start) IN
             /\ d.ledger[c].stage = l.stage /\ d.ledger[c].cycleEnd = l.cycleEnd
             /\ d.ledger[c].stageEnd = l.stageEnd /\ d.ledger[c].ids = {}

(* Records that differ in the votes.                                       *)
LEMMA AlikeFacts ==
    ASSUME NEW d \in DB, NEW e \in DB, NEW p \in Proposal, Alike(d.proposals[p], e.proposals[p])
    PROVE  /\ Stored(e, p) <=> Stored(d, p)
           /\ Hollow(e, p) <=> Hollow(d, p)
           /\ Stored(e, p) => /\ e.proposals[p].contract = d.proposals[p].contract
                              /\ e.proposals[p].fee = d.proposals[p].fee
                              /\ e.proposals[p].stage = d.proposals[p].stage
BY DEF Alike, Stored, Hollow, Genuine

(* The steps of storing a block up to its results, one after the other.    *)
LEMMA BeforeSteps ==
    ASSUME InvTypes, block # NoBlock
    PROVE  \E d1, d2, d3 \in DB :
              /\ BeforeResults(stored) = d3
              /\ d1 = batch_contract_updates(stored, block.txns)
              /\ Frame(d1, d2)
              /\ \A p \in Proposal : (\A t \in InBlock : t.id # p) => Same(d1, d2, p)
              /\ \A t \in InBlock :
                    (\A u \in InBlock : u.id = t.id => u = t) => Entered(d1, d2, t)
              /\ d3.gov = d2.gov /\ d3.adaptive = d2.adaptive
              /\ d3.govTxn = d2.govTxn /\ d3.ledger = d2.ledger
              /\ \A p \in Proposal : Alike(d2.proposals[p], d3.proposals[p])
<1> DEFINE x == block.txns
           d1 == batch_contract_updates(stored, x)
           d2 == batch_proposals(d1, x, block.time)
           d3 == batch_votes(d2, x)
<1>1. /\ stored \in DB /\ purse \in [Proposal -> Nat] /\ block \in Blocks /\ x \in Txns
      /\ IsFiniteSet(x.proposals) /\ IsFiniteSet(x.votes)
      /\ InBlock = x.proposals
  BY DEF InvTypes, Bounded, Blocks, InBlock
<1>2. block.time \in Nat
  BY <1>1, GovAssumption DEF Blocks, Times
<1>3. BeforeResults(stored) = d3
  BY DEF BeforeResults
<1>4. /\ d1 \in DB
      /\ \A c \in Contract : d1.gov[c] = stored.gov[c] \/ d1.gov[c] \in Checked
  BY <1>1, UpdatesStep
<1>5. \A t \in x.proposals : d1.gov[t.contract] # NoGov
  <2> SUFFICES ASSUME NEW t \in x.proposals PROVE d1.gov[t.contract] # NoGov
    OBVIOUS
  <2>1. t.contract \in Contract
    BY <1>1 DEF Txns, Asks
  <2>2. stored.gov[t.contract] # NoGov
    BY <1>1 DEF InvTypes
  <2>3. NoGov \notin Checked
    BY GovAssumption DEF Checked
  <2> HIDE DEF d1
  <2> QED BY <1>4, <2>1, <2>2, <2>3
<1> HIDE DEF d1
<1>6. /\ d2 \in DB /\ Frame(d1, d2)
      /\ \A p \in Proposal : (\A t \in x.proposals : t.id # p) => Same(d1, d2, p)
      /\ \A t \in x.proposals :
            (\A u \in x.proposals : u.id = t.id => u = t) => Entered(d1, d2, t)
  BY <1>1, <1>2, <1>4, <1>5, ProposalsStep
<1> HIDE DEF d2
<1>7. /\ d3 \in DB /\ d3.gov = d2.gov /\ d3.adaptive = d2.adaptive
      /\ d3.govTxn = d2.govTxn /\ d3.ledger = d2.ledger
      /\ \A p \in Proposal : Alike(d2.proposals[p], d3.proposals[p])
  BY <1>1, <1>6, VotesStep
<1> HIDE DEF d3, x
<1> QED
  <2>1. d1 = batch_contract_updates(stored, block.txns)
    BY DEF d1, x
  <2> QED BY <1>1, <1>3, <1>4, <1>6, <1>7, <2>1

(* All of them.                                                            *)
LEMMA StepsOfBlock ==
    ASSUME IInv, block # NoBlock
    PROVE  \E d1, d2, d3, d4 \in DB :
              /\ Adjusted \in DB /\ Batched(stored) = d4
              /\ d1 = batch_contract_updates(stored, block.txns)
              /\ Frame(d1, d2)
              /\ \A p \in Proposal : (\A t \in InBlock : t.id # p) => Same(d1, d2, p)
              /\ \A t \in InBlock :
                    (\A u \in InBlock : u.id = t.id => u = t) => Entered(d1, d2, t)
              /\ d3.gov = d2.gov /\ d3.adaptive = d2.adaptive
              /\ d3.govTxn = d2.govTxn /\ d3.ledger = d2.ledger
              /\ \A p \in Proposal : Alike(d2.proposals[p], d3.proposals[p])
              /\ Frame(d3, d4) /\ SamePending(d3, d4)
              /\ \A p \in Proposal : CountedOnce(Results, p) => Decided(d3, d4, Results, p)
              /\ Adjusted.gov = d4.gov /\ Adjusted.adaptive = d4.adaptive
              /\ Adjusted.govTxn = d4.govTxn /\ Adjusted.ledger = d4.ledger
              /\ \A p \in Proposal :
                    \/ Adjusted.proposals[p] = d4.proposals[p] /\ \A t \in block.temp : t.id # p
                    \/ \E t \in block.temp : t.id = p /\ Adjusted.proposals[p] = t.record
<1>1. /\ block \in Blocks /\ IsFiniteSet(block.results) /\ block.results \in SUBSET Outcomes
      /\ IsFiniteSet(block.temp) /\ block.temp \in SUBSET Copies /\ Results = block.results
  BY DEF IInv, InvTypes, Blocks, Results
<1>2. PICK d1, d2, d3 \in DB :
         /\ BeforeResults(stored) = d3
         /\ d1 = batch_contract_updates(stored, block.txns)
         /\ Frame(d1, d2)
         /\ \A p \in Proposal : (\A t \in InBlock : t.id # p) => Same(d1, d2, p)
         /\ \A t \in InBlock :
               (\A u \in InBlock : u.id = t.id => u = t) => Entered(d1, d2, t)
         /\ d3.gov = d2.gov /\ d3.adaptive = d2.adaptive
         /\ d3.govTxn = d2.govTxn /\ d3.ledger = d2.ledger
         /\ \A p \in Proposal : Alike(d2.proposals[p], d3.proposals[p])
  BY BeforeSteps DEF IInv
<1> DEFINE d4 == batch_proposal_results(d3, block.results)
           d5 == store_proposal_adjustment(d4, block.temp)
<1>3. Batched(stored) = d4 /\ Adjusted = d5
  BY <1>2 DEF Batched, Adjusted
<1>4. /\ d4 \in DB /\ Frame(d3, d4) /\ SamePending(d3, d4)
      /\ \A p \in Proposal : CountedOnce(Results, p) => Decided(d3, d4, Results, p)
  BY <1>1, ResultsStep
<1> HIDE DEF d4
<1>5. /\ d5 \in DB /\ d5.gov = d4.gov /\ d5.adaptive = d4.adaptive
      /\ d5.govTxn = d4.govTxn /\ d5.ledger = d4.ledger
      /\ \A p \in Proposal :
            \/ d5.proposals[p] = d4.proposals[p] /\ \A t \in block.temp : t.id # p
            \/ \E t \in block.temp : t.id = p /\ d5.proposals[p] = t.record
  BY <1>1, <1>4, CopiesStep
<1> HIDE DEF d5
<1> QED BY <1>2, <1>3, <1>4, <1>5

(* What an adjusted copy makes of a proposal that survives it.             *)
LEMMA CopiesKeep ==
    ASSUME IInv, block # NoBlock, NEW d4 \in DB, Batched(stored) = d4, NEW d5 \in DB,
           NEW p \in Proposal, Survives(p),
           \/ d5.proposals[p] = d4.proposals[p] /\ \A t \in block.temp : t.id # p
           \/ \E t \in block.temp : t.id = p /\ d5.proposals[p] = t.record
    PROVE  /\ Alike(d4.proposals[p], d5.proposals[p])
           /\ ~ Stored(stored, p) => d5.proposals[p] = d4.proposals[p]
<1>1. CASE d5.proposals[p] = d4.proposals[p]
  BY <1>1 DEF Alike
<1>2. CASE \E t \in block.temp : t.id = p /\ d5.proposals[p] = t.record
  <2>1. PICK t \in block.temp : t.id = p /\ d5.proposals[p] = t.record
    BY <1>2
  <2>2. d4.proposals[p] = stored.proposals[p]
    BY <2>1 DEF Survives
  <2>3. Stored(stored, p) /\ \E v \in VoteCounts : t.record = [stored.proposals[p] EXCEPT !.votes = v]
    BY <2>1 DEF IInv, InvTemp
  <2>4. PICK v \in VoteCounts : t.record = [stored.proposals[p] EXCEPT !.votes = v]
    BY <2>3
  <2>5. stored \in DB
    BY DEF IInv, InvTypes
  <2>6. stored.proposals[p] \in Recs
    BY <2>3, <2>5, RecordOf
  <2> DEFINE r == stored.proposals[p]
             s == [r EXCEPT !.votes = v]
  <2>7. s \in Recs /\ s.contract = r.contract /\ s.stage = r.stage /\ s.fee = r.fee
    BY <2>6 DEF Recs
  <2>8. Genuine(s)
    BY <2>7, KeptIs DEF Kept
  <2> HIDE DEF s
  <2>9. d5.proposals[p] = s
    BY <2>1, <2>4 DEF s
  <2> QED BY <2>2, <2>3, <2>7, <2>8, <2>9 DEF Alike, Stored
<1> QED BY <1>1, <1>2

(* The ledgers after the batch.                                            *)
LEMMA BatchLedgers ==
    ASSUME IInv, block # NoBlock, NEW c \in Contract
    PROVE  Adjusted \in DB /\ Ledgered(Adjusted, c)
<1>1. PICK d1, d2, d3, d4 \in DB :
         /\ Adjusted \in DB
         /\ d1 = batch_contract_updates(stored, block.txns)
         /\ Frame(d1, d2)
         /\ d3.gov = d2.gov /\ d3.ledger = d2.ledger
         /\ Frame(d3, d4)
         /\ Adjusted.gov = d4.gov /\ Adjusted.ledger = d4.ledger
  BY StepsOfBlock
<1>2. stored \in DB /\ block.txns \in Txns
  BY DEF IInv, InvTypes, Blocks
<1> DEFINE d == Adjusted
<1>3. \/ d1.gov[c] = stored.gov[c] /\ d1.ledger[c] = stored.ledger[c]
      \/ /\ d1.gov[c] \in Checked
         /\ ByLedger(d1.gov[c]) =>
               d1.ledger[c] = make_staged_cycle_ledger(d1.gov[c], d1.gov[c].start)
  BY <1>1, <1>2, UpdatesStep
<1>4. /\ d.gov[c] = d1.gov[c] /\ d.ledger[c].stage = d1.ledger[c].stage
      /\ d.ledger[c].cycleEnd = d1.ledger[c].cycleEnd /\ d.ledger[c].stageEnd = d1.ledger[c].stageEnd
      /\ d.ledger[c].ids \subseteq d1.ledger[c].ids
  BY <1>1 DEF Frame
<1> HIDE DEF d
<1>5. CASE d1.gov[c] = stored.gov[c] /\ d1.ledger[c] = stored.ledger[c]
  BY <1>1, <1>4, <1>5 DEF Ledgered, SameTimes, d
<1>6. CASE /\ d1.gov[c] \in Checked
           /\ ByLedger(d1.gov[c]) =>
                 d1.ledger[c] = make_staged_cycle_ledger(d1.gov[c], d1.gov[c].start)
  <2>1. make_staged_cycle_ledger(d1.gov[c], d1.gov[c].start).ids = {}
    BY DEF make_staged_cycle_ledger
  <2> QED BY <1>1, <1>4, <1>6, <2>1 DEF Ledgered, d
<1> QED BY <1>1, <1>3, <1>5, <1>6 DEF d

(* A proposal that was not asked for in the block.                         *)
LEMMA BatchCarries ==
    ASSUME IInv, block # NoBlock, NEW p \in Proposal, Survives(p), \A t \in InBlock : t.id # p
    PROVE  Carried(Adjusted, p)
<1> DEFINE d == Adjusted
<1>1. PICK d1, d2, d3, d4 \in DB :
         /\ d \in DB /\ Batched(stored) = d4
         /\ d1 = batch_contract_updates(stored, block.txns)
         /\ Frame(d1, d2) /\ Same(d1, d2, p)
         /\ d3.gov = d2.gov /\ d3.adaptive = d2.adaptive
         /\ d3.govTxn = d2.govTxn /\ d3.ledger = d2.ledger
         /\ Alike(d2.proposals[p], d3.proposals[p])
         /\ Frame(d3, d4) /\ SamePending(d3, d4)
         /\ (CountedOnce(Results, p) => Decided(d3, d4, Results, p))
         /\ d.gov = d4.gov /\ d.adaptive = d4.adaptive
         /\ d.govTxn = d4.govTxn /\ d.ledger = d4.ledger
         /\ \/ d.proposals[p] = d4.proposals[p] /\ \A t \in block.temp : t.id # p
            \/ \E t \in block.temp : t.id = p /\ d.proposals[p] = t.record
  BY StepsOfBlock
<1>2. stored \in DB /\ block.txns \in Txns
  BY DEF IInv, InvTypes, Blocks
<1>3. /\ d1.adaptive = stored.adaptive /\ d1.govTxn = stored.govTxn
      /\ d1.proposals[p] \in {stored.proposals[p], NoProposal}
      /\ \A c \in Contract :
            \/ d1.gov[c] = stored.gov[c] /\ d1.ledger[c] = stored.ledger[c]
            \/ /\ In(stored, p, c) => d1.proposals[p] = NoProposal
               /\ d1.ledger[c] = IF ByLedger(d1.gov[c])
                                 THEN make_staged_cycle_ledger(d1.gov[c], d1.gov[c].start)
                                 ELSE stored.ledger[c]
  <2>1. d1 = batch_contract_updates(stored, block.txns)
    BY <1>1
  <2> HIDE DEF d
  <2> QED BY <1>2, <2>1, UpdatesStep
<1> HIDE DEF d
<1>4. Alike(d4.proposals[p], d.proposals[p])
  BY <1>1, CopiesKeep
<1>5. Live(p) => Resulted(p)
  BY DEF IInv, InvProposals
<1>6. CountedOnce(Results, p) /\ Decided(d3, d4, Results, p)
  BY <1>1, <1>5 DEF Resulted, Survives
(* Ledgers up to the update.                                               *)
<1>7. ASSUME NEW c \in Contract
      PROVE  /\ p \in d1.ledger[c].ids => p \in stored.ledger[c].ids
             /\ p \in d1.ledger[c].pending => p \in stored.ledger[c].pending
             /\ Stored(d1, p) =>
                   /\ p \in d1.ledger[c].ids <=> p \in stored.ledger[c].ids
                   /\ p \in d1.ledger[c].pending <=> p \in stored.ledger[c].pending
                   /\ In(stored, p, c) => d1.gov[c] = stored.gov[c] /\ d1.ledger[c] = stored.ledger[c]
  <2>1. CASE d1.gov[c] = stored.gov[c] /\ d1.ledger[c] = stored.ledger[c]
    BY <2>1
  <2>2. CASE /\ In(stored, p, c) => d1.proposals[p] = NoProposal
             /\ d1.ledger[c] = IF ByLedger(d1.gov[c])
                               THEN make_staged_cycle_ledger(d1.gov[c], d1.gov[c].start)
                               ELSE stored.ledger[c]
    <3>1. /\ make_staged_cycle_ledger(d1.gov[c], d1.gov[c].start).ids = {}
          /\ make_staged_cycle_ledger(d1.gov[c], d1.gov[c].start).pending = {}
      BY DEF make_staged_cycle_ledger
    <3> QED BY <2>2, <3>1 DEF In, Stored, Genuine
  <2> QED BY <1>3, <2>1, <2>2
<1>8. ASSUME NEW c \in Contract
      PROVE  /\ p \in d.ledger[c].ids => p \in d1.ledger[c].ids
             /\ p \in d.ledger[c].pending <=> p \in d1.ledger[c].pending
             /\ d.gov[c] = d1.gov[c] /\ d.ledger[c].stage = d1.ledger[c].stage
             /\ d.ledger[c].cycleEnd = d1.ledger[c].cycleEnd
             /\ d.ledger[c].stageEnd = d1.ledger[c].stageEnd
             /\ p \in d4.ledger[c].ids <=> p \in d.ledger[c].ids
             /\ p \in d3.ledger[c].ids <=> p \in d1.ledger[c].ids
  <2>1. /\ p \in d2.ledger[c].ids <=> p \in d1.ledger[c].ids
        /\ p \in d2.ledger[c].pending <=> p \in d1.ledger[c].pending
    BY <1>1 DEF Same
  <2>2. /\ d2.gov[c] = d1.gov[c] /\ d2.ledger[c].stage = d1.ledger[c].stage
        /\ d2.ledger[c].cycleEnd = d1.ledger[c].cycleEnd
        /\ d2.ledger[c].stageEnd = d1.ledger[c].stageEnd
    BY <1>1 DEF Frame
  <2>3. /\ d4.gov[c] = d3.gov[c] /\ d4.ledger[c].stage = d3.ledger[c].stage
        /\ d4.ledger[c].cycleEnd = d3.ledger[c].cycleEnd
        /\ d4.ledger[c].stageEnd = d3.ledger[c].stageEnd
        /\ d4.ledger[c].ids \subseteq d3.ledger[c].ids
    BY <1>1 DEF Frame
  <2>4. d4.ledger[c].pending = d3.ledger[c].pending
    BY <1>1 DEF SamePending
  <2> QED BY <1>1, <2>1, <2>2, <2>3, <2>4
<1>9. \A c \in Contract : In(d, p, c) => In(stored, p, c)
  BY <1>7, <1>8 DEF In
<1>10. /\ d2.proposals[p] = d1.proposals[p] /\ d2.adaptive[p] = d1.adaptive[p]
       /\ p \in d2.govTxn <=> p \in d1.govTxn
  BY <1>1 DEF Same
<1>11. Stored(d3, p) => /\ Stored(stored, p) /\ Stored(d1, p)
                        /\ d3.proposals[p].contract = stored.proposals[p].contract
                        /\ d3.proposals[p].fee = stored.proposals[p].fee
                        /\ d3.proposals[p].stage = stored.proposals[p].stage
  <2>1. /\ Stored(d3, p) <=> Stored(d2, p)
        /\ Stored(d3, p) => /\ d3.proposals[p].contract = d2.proposals[p].contract
                            /\ d3.proposals[p].fee = d2.proposals[p].fee
                            /\ d3.proposals[p].stage = d2.proposals[p].stage
    BY <1>1, AlikeFacts
  <2> QED BY <1>3, <1>10, <2>1 DEF Stored, Genuine
<1>12. /\ Stored(d, p) <=> Stored(d4, p)
       /\ Stored(d, p) => /\ d.proposals[p].contract = d4.proposals[p].contract
                          /\ d.proposals[p].fee = d4.proposals[p].fee
                          /\ d.proposals[p].stage = d4.proposals[p].stage
  BY <1>1, <1>4, AlikeFacts
<1>13. p \in d.govTxn =>
          p \in stored.govTxn \/ (Stored(stored, p) /\ \E r \in Results : r.id = p /\ r.final)
  <2>1. p \in d4.govTxn => p \in d3.govTxn \/ (Stored(d3, p) /\ \E r \in Results : r.id = p /\ r.final)
    BY <1>6 DEF Decided
  <2> QED BY <1>1, <1>3, <1>10, <1>11, <2>1
<1>14. ASSUME Stored(d, p)
       PROVE  /\ Stored(d3, p)
              /\ d.proposals[p].contract = stored.proposals[p].contract
              /\ d.proposals[p].fee = stored.proposals[p].fee
              /\ d.proposals[p].stage = stored.proposals[p].stage + (IF Counting(p) THEN 1 ELSE 0)
              /\ \A r \in Results : r.id = p => ~ r.final
              /\ d.adaptive[p] = stored.adaptive[p]
              /\ \A c \in Contract : p \in d4.ledger[c].ids <=> p \in d3.ledger[c].ids
  <2>1. /\ \A r \in Results : r.id = p => ~ r.final
        /\ Stored(d3, p)
        /\ d4.proposals[p].contract = d3.proposals[p].contract
        /\ d4.proposals[p].fee = d3.proposals[p].fee
        /\ d4.proposals[p].stage = d3.proposals[p].stage + (IF Counting(p) THEN 1 ELSE 0)
        /\ d4.adaptive[p] = d3.adaptive[p]
        /\ \A c \in Contract : p \in d4.ledger[c].ids <=> p \in d3.ledger[c].ids
    BY <1>6, <1>12, <1>14 DEF Decided, Counting
  <2>2. d.adaptive[p] = stored.adaptive[p]
    BY <1>1, <1>3, <1>10, <2>1
  <2> QED BY <1>11, <1>12, <1>14, <2>1, <2>2
<1>15. ASSUME Stored(d, p), NEW c \in Contract
       PROVE  /\ p \in d.ledger[c].ids <=> p \in stored.ledger[c].ids
              /\ p \in d.ledger[c].pending <=> p \in stored.ledger[c].pending
              /\ In(stored, p, c) => SameTimes(stored, d, c)
  <2>1. Stored(d1, p) /\ (p \in d4.ledger[c].ids <=> p \in d3.ledger[c].ids)
    BY <1>11, <1>14, <1>15
  <2> QED BY <1>7, <1>8, <2>1 DEF SameTimes
<1>16. Stored(d, p) => Stored(stored, p)
  BY <1>11, <1>14
<1> QED BY <1>9, <1>13, <1>14, <1>15, <1>16 DEF Carried, d

(* A proposal of which traces are left, and no record, is over or was      *)
(* removed by the block.                                                   *)
LEMMA BatchEmpties ==
    ASSUME IInv, block # NoBlock, NEW p \in Proposal, Survives(p), \A t \in InBlock : t.id # p,
           Known(Adjusted, p), ~ Stored(Adjusted, p)
    PROVE  Ended(p) \/ \E u \in block.txns.update : p \in Removed(stored.ledger[u.contract])
<1> SUFFICES ASSUME ~ Ended(p), ~ \E u \in block.txns.update : p \in Removed(stored.ledger[u.contract])
             PROVE  FALSE
  OBVIOUS
<1> DEFINE d == Adjusted
<1>1. PICK d1, d2, d3, d4 \in DB :
         /\ d \in DB /\ Batched(stored) = d4
         /\ d1 = batch_contract_updates(stored, block.txns)
         /\ Same(d1, d2, p) /\ d3.ledger = d2.ledger
         /\ Alike(d2.proposals[p], d3.proposals[p])
         /\ Frame(d3, d4) /\ SamePending(d3, d4)
         /\ (CountedOnce(Results, p) => Decided(d3, d4, Results, p))
         /\ d.ledger = d4.ledger
         /\ \/ d.proposals[p] = d4.proposals[p] /\ \A t \in block.temp : t.id # p
            \/ \E t \in block.temp : t.id = p /\ d.proposals[p] = t.record
  BY StepsOfBlock
<1>2. stored \in DB /\ block.txns \in Txns
  BY DEF IInv, InvTypes, Blocks
<1>3. /\ d1.proposals[p] = stored.proposals[p]
      /\ \A c \in Contract :
            \/ d1.ledger[c] = stored.ledger[c]
            \/ d1.ledger[c] = IF ByLedger(d1.gov[c])
                              THEN make_staged_cycle_ledger(d1.gov[c], d1.gov[c].start)
                              ELSE stored.ledger[c]
  BY <1>1, <1>2, UpdatesStep, UpdatesDrop
<1> HIDE DEF d
<1>4. Remnant(p) /\ Resulted(p) /\ \A c \in Contract : Placed(stored, p, c) /\ DuePlaced(stored, p, c)
  BY DEF IInv, InvProposals, Survives
<1>5. Decided(d3, d4, Results, p)
  BY <1>1, <1>4 DEF Resulted
<1>6. ASSUME NEW c \in Contract
      PROVE  /\ p \in d.ledger[c].ids => p \in stored.ledger[c].ids
             /\ p \in d.ledger[c].pending => p \in stored.ledger[c].pending
  <2>1. /\ p \in d1.ledger[c].ids => p \in stored.ledger[c].ids
        /\ p \in d1.ledger[c].pending => p \in stored.ledger[c].pending
    <3>1. /\ make_staged_cycle_ledger(d1.gov[c], d1.gov[c].start).ids = {}
          /\ make_staged_cycle_ledger(d1.gov[c], d1.gov[c].start).pending = {}
      BY DEF make_staged_cycle_ledger
    <3> QED BY <1>3, <3>1
  <2>2. /\ p \in d3.ledger[c].ids <=> p \in d1.ledger[c].ids
        /\ p \in d3.ledger[c].pending <=> p \in d1.ledger[c].pending
    BY <1>1 DEF Same
  <2>3. d4.ledger[c].ids \subseteq d3.ledger[c].ids /\ d4.ledger[c].pending = d3.ledger[c].pending
    BY <1>1 DEF Frame, SamePending
  <2> QED BY <1>1, <2>1, <2>2, <2>3
<1>7. (Stored(d3, p) <=> Stored(stored, p)) /\ (Hollow(d3, p) <=> Hollow(stored, p))
  <2>1. (Stored(d3, p) <=> Stored(d2, p)) /\ (Hollow(d3, p) <=> Hollow(d2, p))
    BY <1>1, AlikeFacts
  <2>2. d2.proposals[p] = stored.proposals[p]
    BY <1>1, <1>3 DEF Same
  <2> QED BY <2>1, <2>2 DEF Stored, Hollow
<1>8. ~ Stored(d4, p) /\ (Hollow(d, p) => Hollow(d4, p))
  <2>1. Alike(d4.proposals[p], d.proposals[p])
    BY <1>1, CopiesKeep
  <2> QED BY <1>1, <2>1, AlikeFacts DEF d
<1>9. Hollow(d4, p) \/ \E c \in Contract : In(d, p, c)
  BY <1>8 DEF Known, Hollow, d
<1>10. CASE ~ Stored(stored, p)
  <2>1. ~ Known(stored, p)
    BY <1>4, <1>10 DEF Remnant
  <2>2. ~ Hollow(stored, p) /\ \A c \in Contract : ~ In(stored, p, c)
    BY <2>1 DEF Known, Hollow
  <2>3. \A c \in Contract : ~ In(d, p, c)
    BY <1>6, <2>2 DEF In
  <2>4. \E r \in Results : r.id = p /\ ~ r.fast
    BY <1>5, <1>7, <1>9, <2>2, <2>3 DEF Decided
  <2> QED BY <1>4, <1>10, <2>4 DEF Resulted
<1>11. CASE Stored(stored, p)
  <2>1. PICK r \in Results :
           r.id = p /\ (r.final \/ (~ r.fast /\ p \notin d4.ledger[r.contract].ids))
    BY <1>5, <1>7, <1>8, <1>11 DEF Decided
  <2>2. ~ r.final
    BY <1>4, <2>1 DEF Resulted, Ended
  <2>3. ~ r.fast /\ p \notin d.ledger[r.contract].ids
    BY <1>1, <2>1, <2>2
  <2>4. /\ r.contract = stored.proposals[p].contract
        /\ DueIn(stored, p, r.contract) /\ Staged(stored, r.contract)
    BY <1>4, <1>11, <2>1, <2>2, <2>3 DEF Resulted
  <2>5. PICK c \in Contract : In(d, p, c)
    BY <1>5, <1>7, <1>9, <1>11 DEF Decided
  <2>6. In(stored, p, c)
    BY <1>6, <2>5 DEF In
  <2>7. c = r.contract
    BY <1>4, <1>11, <2>4, <2>6 DEF Placed
  <2>8. p \in stored.ledger[c].pending
    BY <1>6, <2>3, <2>5, <2>7 DEF In
  <2>9. stored.proposals[p].stage = 0
    BY <1>4, <1>11, <2>4, <2>6, <2>7, <2>8 DEF Placed
  <2>10. stored.proposals[p].stage > 0
    BY <1>4, <1>11, <2>4, <2>7 DEF DuePlaced
  <2> QED BY <2>9, <2>10
<1> QED BY <1>10, <1>11

(* A proposal that was.                                                    *)
LEMMA BatchJoins ==
    ASSUME IInv, block # NoBlock, NEW t \in InBlock, Survives(t.id)
    PROVE  Joined(Adjusted, t) /\ t.id \in Proposal
<1> DEFINE d == Adjusted
           p == t.id
<1>1. stored \in DB /\ block.txns \in Txns /\ t \in Asks
  BY DEF IInv, InvTypes, Blocks, InBlock, Txns
<1>2. p \in Proposal /\ t.contract \in Contract
  BY <1>1 DEF Asks
<1>3. /\ Untouched(p) /\ purse[p] > 0 /\ finals[p] = 0
      /\ \A s \in InBlock : s.id = p => s = t
      /\ Ran(p) /\ Resulted(p)
  <2>1. Fresh(p) /\ Ran(p) /\ Resulted(p)
    BY <1>2 DEF IInv, InvProposals, Survives
  <2>2. Asked(p)
    BY DEF Asked
  <2> QED BY <2>1, <2>2 DEF Fresh
<1> HIDE DEF p
<1>4. PICK d1, d2, d3, d4 \in DB :
         /\ d \in DB /\ Batched(stored) = d4
         /\ d1 = batch_contract_updates(stored, block.txns)
         /\ Frame(d1, d2) /\ Entered(d1, d2, t)
         /\ d3.gov = d2.gov /\ d3.adaptive = d2.adaptive
         /\ d3.govTxn = d2.govTxn /\ d3.ledger = d2.ledger
         /\ Alike(d2.proposals[p], d3.proposals[p])
         /\ Frame(d3, d4) /\ SamePending(d3, d4)
         /\ (CountedOnce(Results, p) => Decided(d3, d4, Results, p))
         /\ d.gov = d4.gov /\ d.adaptive = d4.adaptive
         /\ d.govTxn = d4.govTxn /\ d.ledger = d4.ledger
         /\ \/ d.proposals[p] = d4.proposals[p] /\ \A x \in block.temp : x.id # p
            \/ \E x \in block.temp : x.id = p /\ d.proposals[p] = x.record
  BY <1>2, <1>3, StepsOfBlock DEF p
<1>5. /\ d1.govTxn = stored.govTxn
      /\ \A c \in Contract :
            \/ d1.gov[c] = stored.gov[c] /\ d1.ledger[c] = stored.ledger[c]
            \/ d1.ledger[c] = IF ByLedger(d1.gov[c])
                              THEN make_staged_cycle_ledger(d1.gov[c], d1.gov[c].start)
                              ELSE stored.ledger[c]
  BY <1>1, <1>4, UpdatesStep
<1> HIDE DEF d
<1>6. ASSUME NEW c \in Contract
      PROVE  p \notin d1.ledger[c].ids /\ p \notin d1.ledger[c].pending
  <2>1. p \notin stored.ledger[c].ids /\ p \notin stored.ledger[c].pending
    BY <1>3 DEF Untouched, In, p
  <2>2. /\ make_staged_cycle_ledger(d1.gov[c], d1.gov[c].start).ids = {}
        /\ make_staged_cycle_ledger(d1.gov[c], d1.gov[c].start).pending = {}
    BY DEF make_staged_cycle_ledger
  <2> QED BY <1>5, <2>1, <2>2
<1>7. Same(d3, d4, p)
  <2>1. Decided(d3, d4, Results, p)
    BY <1>3, <1>4 DEF Resulted, p
  <2>2. \A r \in Results : r.id # p
    BY <1>3 DEF Untouched, p
  <2> QED BY <2>1, <2>2 DEF Decided
<1>8. d.proposals[p] = d4.proposals[p]
  <2>1. ~ Stored(stored, p)
    BY <1>3 DEF Untouched, Stored, Genuine, p
  <2> QED BY <1>2, <1>4, <2>1, CopiesKeep DEF p
<1> DEFINE g == d1.gov[t.contract]
           r == d2.proposals[p]
<1>9. /\ r \in Recs /\ r.contract = t.contract /\ r.stage = 0
      /\ r.fee = IF g.type = "STAGED" THEN purse[p] \div Len(g.stages) ELSE purse[p]
      /\ g.type \in {"ADAPTIVE", "STAGGERED"} => d2.adaptive[p] \in Nat
      /\ p \in d2.govTxn <=> p \in d1.govTxn
      /\ \A c \in Contract :
            /\ p \in d2.ledger[c].ids <=> p \in d1.ledger[c].ids
            /\ p \in d2.ledger[c].pending <=>
                  (p \in d1.ledger[c].pending \/ (c = t.contract /\ ByLedger(g)))
  BY <1>4 DEF Entered, p
<1>10. d.gov = d1.gov /\ d.gov[t.contract] = g
  BY <1>4 DEF Frame
<1>11. /\ d4.proposals[p] = d3.proposals[p] /\ d4.adaptive[p] = d3.adaptive[p]
       /\ p \in d4.govTxn <=> p \in d3.govTxn
       /\ \A c \in Contract : /\ p \in d4.ledger[c].ids <=> p \in d3.ledger[c].ids
                              /\ p \in d4.ledger[c].pending <=> p \in d3.ledger[c].pending
  BY <1>7 DEF Same
<1>12. Genuine(r)
  BY <1>9, KeptIs DEF Kept
<1>13. /\ Stored(d3, p) /\ d3.proposals[p].contract = r.contract
       /\ d3.proposals[p].fee = r.fee /\ d3.proposals[p].stage = r.stage
  <2>1. p \in Proposal
    BY <1>2 DEF p
  <2>2. Stored(d2, p)
    BY <1>12 DEF Stored
  <2> QED BY <1>4, <2>1, <2>2, AlikeFacts
<1>14. p \notin d.govTxn
  <2>1. p \notin stored.govTxn
    BY <1>3 DEF Ran, p
  <2> QED BY <1>4, <1>5, <1>9, <1>11, <2>1
<1>15. \A c \in Contract :
          /\ p \notin d.ledger[c].ids
          /\ p \in d.ledger[c].pending <=> (c = t.contract /\ ByLedger(g))
  BY <1>4, <1>6, <1>9, <1>11
<1> HIDE DEF g, r
<1>16. /\ Stored(d, p) /\ d.proposals[p].contract = t.contract /\ d.proposals[p].stage = 0
       /\ d.proposals[p].fee = IF g.type = "STAGED" THEN purse[p] \div Len(g.stages) ELSE purse[p]
  BY <1>8, <1>9, <1>11, <1>13 DEF Stored
<1>17. g.type \in {"ADAPTIVE", "STAGGERED"} => d.adaptive[p] \in Nat
  BY <1>4, <1>9, <1>11
<1> QED BY <1>2, <1>10, <1>14, <1>15, <1>16, <1>17 DEF Joined, p, d
-----------------------------------------------------------------------------
(* What the check of what is due and the turn of ledgers do. *)

(* A set of numbers has a least one.                                       *)
LEMMA MinIn ==
    ASSUME NEW S \in SUBSET Nat, NEW n \in S
    PROVE  Min(S) \in S
<1> DEFINE Least == \E x \in S : \A y \in S : x <= y
           T == {i \in 0 .. n : (\E x \in S : x <= i) => Least}
<1>1. 0 \in T
  OBVIOUS
<1>2. ASSUME NEW i \in 1 .. n, i - 1 \in T PROVE i \in T
  <2>1. CASE \E x \in S : x <= i - 1
    BY <1>2, <2>1
  <2>2. CASE ~ \E x \in S : x <= i - 1
    <3>1. \A y \in S : i <= y
      BY <2>2
    <3>2. (\E x \in S : x <= i) => Least
      BY <3>1
    <3> QED BY <3>2
  <2> QED BY <2>1, <2>2
<1> HIDE DEF T
<1>3. 0 .. n \subseteq T
  BY <1>1, <1>2, PrefixInduction
<1>4. n \in T
  BY <1>3
<1>5. Least
  BY <1>4 DEF T
<1> QED BY <1>5 DEF Min

(* The end of the next cycle is after a whole period.                      *)
LEMMA NextEndIn ==
    ASSUME NEW g, NEW l, g.period \in Nat \ {0}, l.cycleEnd \in Nat, NEW time \in Times
    PROVE  NextEnd(g, l, time) \in Nat /\ NextEnd(g, l, time) >= g.period
<1> DEFINE ends == {k \in 1 .. MaxTime + 1 : l.cycleEnd + k * g.period > time}
           m == Min(ends)
           q == g.period
           b == l.cycleEnd
<1>1. MaxTime \in Nat /\ time \in Nat /\ time <= MaxTime /\ q \in Nat \ {0} /\ b \in Nat
  BY GovAssumption DEF Times
<1> HIDE DEF q, b
<1>2. MaxTime + 1 \in ends
  <2>1. (MaxTime + 1) * q >= MaxTime + 1
    BY <1>1
  <2>2. b + (MaxTime + 1) * q > time
    BY <1>1, <2>1
  <2> QED BY <1>1, <2>2 DEF b, q
<1>3. m \in 1 .. MaxTime + 1
  <2>1. ends \in SUBSET Nat
    BY <1>1
  <2>2. m \in ends
    <3> HIDE DEF ends
    <3> QED BY <1>2, <2>1, MinIn
  <2> QED BY <2>2
<1> HIDE DEF m
<1>4. m * q \in Nat /\ m * q >= q
  BY <1>1, <1>3
<1>5. NextEnd(g, l, time) = b + m * q
  BY DEF NextEnd, m, b, q
<1> QED BY <1>1, <1>4, <1>5 DEF q

(* What its turn makes of a ledger.                                        *)
Turned(g, l, m, time) ==
    /\ ~ Turns(g, l, time) => m = l
    /\ (Turns(g, l, time) /\ g.type = "STAGED" /\ ~ LastStage(g, l)) =>
          /\ m.stage = l.stage + 1 /\ m.ids = l.ids /\ m.pending = l.pending
          /\ m.cycleEnd = l.cycleEnd
          /\ m.stageEnd = IF g.stages[l.stage + 1].length = 0 THEN l.cycleEnd
                          ELSE l.stageEnd + g.stages[l.stage + 1].length
    /\ (Turns(g, l, time) /\ g.type = "STAGED" /\ LastStage(g, l)) =>
          /\ m.stage = 1 /\ m.ids = l.pending /\ m.pending = {}
          /\ m.cycleEnd \in Nat /\ m.cycleEnd >= g.period
          /\ m.stageEnd = IF g.stages[1].length = 0 THEN m.cycleEnd
                          ELSE m.cycleEnd - g.period + g.stages[1].length
    /\ (Turns(g, l, time) /\ g.type # "STAGED") =>
          /\ g.type = "CYCLE" /\ m.stage = 0 /\ m.ids = l.pending /\ m.pending = {}
          /\ m.stageEnd = NoTime

(* The ledger after its turn, if any.                                      *)
After(g, l, time) ==
    IF ~ Turns(g, l, time) THEN l ELSE IF g.type = "STAGED" THEN staged(g, l, time) ELSE cycle(g, l)

(* A length of a governance's stages.                                      *)
LEMMA LengthIn ==
    ASSUME NEW g \in Govs, g # NoGov, NEW k \in 1 .. Len(g.stages)
    PROVE  g.stages[k].length \in Nat
<1> DEFINE s == g.stages
<1>1. s \in Seq([length : Nat]) /\ k \in 1 .. Len(s)
  BY GovFacts
<1> HIDE DEF s
<1>2. s[k] \in [length : Nat]
  BY <1>1, Element
<1> QED BY <1>2 DEF s

(* A turn gives a ledger, as Turned says.                                  *)
LEMMA AfterTurn ==
    ASSUME NEW d \in DB, NEW c \in Contract, Timed(d, c), NEW time \in Times
    PROVE  LET m == After(d.gov[c], d.ledger[c], time) IN
           m \in Ledgers /\ Turned(d.gov[c], d.ledger[c], m, time)
<1> DEFINE g == d.gov[c]
           l == d.ledger[c]
           m == After(g, l, time)
<1>1. g \in Govs /\ l \in Ledgers
  BY Parts1
<1>2. /\ l.stage \in Nat /\ l.cycleEnd \in Nat /\ l.stageEnd \in Nat \union {NoTime}
      /\ l.ids \in SUBSET Proposal /\ l.pending \in SUBSET Proposal
      /\ l = [stage |-> l.stage, cycleEnd |-> l.cycleEnd, stageEnd |-> l.stageEnd,
              ids |-> l.ids, pending |-> l.pending]
  BY <1>1 DEF Ledgers
<1>3. CASE ~ Turns(g, l, time)
  <2>1. m = l
    BY <1>3 DEF After
  <2> QED BY <1>1, <1>3, <2>1 DEF Turned
<1>4. CASE Turns(g, l, time) /\ g.type = "STAGED" /\ ~ LastStage(g, l)
  <2>1. /\ g # NoGov /\ l.stageEnd # NoTime /\ l.stage \in 0 .. Len(g.stages)
    BY <1>4 DEF Turns, Timed, Staged
  <2>2. Len(g.stages) \in Nat
    BY <1>1, <2>1, GovFacts
  <2>3. l.stage + 1 \in 1 .. Len(g.stages)
    <3>1. ~ (l.stage >= Len(g.stages))
      BY <1>4 DEF LastStage
    <3>2. l.stage \in Nat
      BY <1>2
    <3> HIDE DEF l, g
    <3> QED BY <2>2, <3>1, <3>2
  <2> DEFINE n == g.stages[l.stage + 1].length
             end == IF n = 0 THEN l.cycleEnd ELSE l.stageEnd + n
  <2>4. n \in Nat
    BY <1>1, <2>1, <2>3, LengthIn
  <2>5. m = [l EXCEPT !.stage = l.stage + 1, !.stageEnd = end]
    BY <1>4 DEF After, staged
  <2> HIDE DEF n
  <2>6. end \in Nat
    BY <1>2, <2>1, <2>4
  <2> HIDE DEF end, g, l, m
  <2>7. m = [stage |-> l.stage + 1, cycleEnd |-> l.cycleEnd, stageEnd |-> end,
             ids |-> l.ids, pending |-> l.pending]
    BY <1>1, <2>5 DEF Ledgers
  <2>8. m \in Ledgers
    BY <1>2, <2>6, <2>7 DEF Ledgers
  <2>9. Turned(g, l, m, time)
    BY <1>4, <2>7 DEF Turned, end, n
  <2> QED BY <2>8, <2>9 DEF g, l, m
<1>5. CASE Turns(g, l, time) /\ g.type = "STAGED" /\ LastStage(g, l)
  <2>1. g # NoGov
    BY <1>5 DEF Turns
  <2>2. /\ Len(g.stages) \in Nat /\ Len(g.stages) # 0 /\ g.period \in Nat \ {0}
    BY <1>1, <1>5, <2>1, GovFacts
  <2> DEFINE n == g.stages[1].length
             e == NextEnd(g, l, time)
             end == IF n = 0 THEN e ELSE e - g.period + n
  <2>3. 1 \in 1 .. Len(g.stages)
    BY <2>2
  <2>4. n \in Nat
    BY <1>1, <2>1, <2>3, LengthIn
  <2>5. e \in Nat /\ e >= g.period
    <3> HIDE DEF g, l
    <3> QED BY <1>2, <2>2, NextEndIn
  <2>6. m = [stage |-> 1, cycleEnd |-> e, ids |-> l.pending, pending |-> {}, stageEnd |-> end]
    BY <1>5 DEF After, staged
  <2> HIDE DEF n, e
  <2>7. end \in Nat
    BY <2>2, <2>4, <2>5
  <2> HIDE DEF end, g, l, m
  <2>8. m \in Ledgers
    BY <1>2, <2>5, <2>6, <2>7 DEF Ledgers
  <2>9. Turned(g, l, m, time)
    BY <1>5, <2>5, <2>6 DEF Turned, end, n
  <2> QED BY <2>8, <2>9 DEF g, l, m
<1>6. CASE Turns(g, l, time) /\ g.type # "STAGED"
  <2>1. g # NoGov /\ g.type = "CYCLE"
    BY <1>6 DEF Turns
  <2>2. g.period \in Nat
    BY <1>1, <2>1, GovFacts
  <2>3. m = [NoLedger EXCEPT !.cycleEnd = l.cycleEnd + g.period, !.ids = l.pending]
    BY <1>6 DEF After, cycle
  <2> HIDE DEF g, l, m
  <2>4. m = [stage |-> 0, cycleEnd |-> l.cycleEnd + g.period, stageEnd |-> NoTime,
             ids |-> l.pending, pending |-> {}]
    BY <2>3 DEF NoLedger
  <2>5. l.cycleEnd + g.period \in Nat
    BY <1>2, <2>2
  <2>6. m \in Ledgers
    BY <1>2, <2>4, <2>5 DEF Ledgers
  <2>7. Turned(g, l, m, time)
    BY <1>6, <2>1, <2>4 DEF Turned
  <2> QED BY <2>6, <2>7 DEF g, l, m
<1> QED BY <1>3, <1>4, <1>5, <1>6

(* What is left by the check of what is due and the turn of the ledgers.   *)
LEMMA TurnStep ==
    ASSUME NEW d \in DB, \A c \in Contract : Timed(d, c), NEW time \in Times
    PROVE  LET e == update_staged_cycle(check_ledgers(d, time), time)
               single == check_staggered_adaptive(d, time)
               open == Opened(d, time)
           IN  /\ e \in DB /\ e.gov = d.gov /\ e.adaptive = d.adaptive /\ e.govTxn = d.govTxn
               /\ e.due.ids = single
               /\ e.due.contracts = IF single # {} THEN {} ELSE check_staged_cycle(d, time)
               /\ check_ledgers(d, time).due = e.due
               /\ \A p \in Proposal :
                     /\ p \notin open => e.proposals[p] = d.proposals[p]
                     /\ p \in open => \E c \in Contract : In(d, p, c)
                     /\ Stored(e, p) <=> Stored(d, p)
                     /\ (p \in open /\ Stored(d, p)) =>
                           /\ e.proposals[p].contract = d.proposals[p].contract
                           /\ e.proposals[p].fee = d.proposals[p].fee
                           /\ e.proposals[p].stage = 1
               /\ \A c \in Contract : Turned(d.gov[c], d.ledger[c], e.ledger[c], time)
<1> DEFINE single == check_staggered_adaptive(d, time)
           contracts == IF single # {} THEN {} ELSE check_staged_cycle(d, time)
           due == [ids |-> single, contracts |-> contracts]
           k == check_ledgers(d, time)
           e == update_staged_cycle(k, time)
           open == Opened(d, time)
           ls == [c \in Contract |-> After(d.gov[c], d.ledger[c], time)]
           ps == [p \in Proposal |->
                     IF p \in open THEN [Parsed(d.proposals[p]) EXCEPT !.stage = 1]
                     ELSE d.proposals[p]]
<1>1. due \in Dues
  <2>1. \A c \in Contract : d.ledger[c].ids \in SUBSET Proposal
    BY Parts1 DEF Ledgers
  <2>2. check_staged_cycle(d, time) \in SUBSET [contract : Contract, ids : SUBSET Proposal]
    BY <2>1 DEF check_staged_cycle
  <2>3. single \in SUBSET Proposal
    BY DEF check_staggered_adaptive
  <2> QED BY <2>2, <2>3 DEF Dues
<1>2. k = [d EXCEPT !.due = due]
  BY DEF check_ledgers
<1> HIDE DEF due
<1>3. k = [gov |-> d.gov, proposals |-> d.proposals, adaptive |-> d.adaptive,
           ledger |-> d.ledger, due |-> due, govTxn |-> d.govTxn]
  BY <1>2 DEF DB
<1> HIDE DEF k
<1>4. Opened(k, time) = open
  BY <1>3 DEF Opened
<1>5. e = [gov |-> d.gov, proposals |-> ps, adaptive |-> d.adaptive,
           ledger |-> ls, due |-> due, govTxn |-> d.govTxn]
  <2>1. e = [k EXCEPT
               !.ledger = [c \in Contract |->
                  LET g == k.gov[c] l == k.ledger[c] IN
                  IF ~ Turns(g, l, time) THEN l
                  ELSE IF g.type = "STAGED" THEN staged(g, l, time) ELSE cycle(g, l)],
               !.proposals = [p \in Proposal |->
                     IF p \in Opened(k, time) THEN [Parsed(k.proposals[p]) EXCEPT !.stage = 1]
                     ELSE k.proposals[p]]]
    BY DEF update_staged_cycle
  <2>2. [c \in Contract |->
            LET g == k.gov[c] l == k.ledger[c] IN
            IF ~ Turns(g, l, time) THEN l
            ELSE IF g.type = "STAGED" THEN staged(g, l, time) ELSE cycle(g, l)] = ls
    BY <1>3 DEF After
  <2>3. [p \in Proposal |-> IF p \in Opened(k, time) THEN [Parsed(k.proposals[p]) EXCEPT !.stage = 1]
                            ELSE k.proposals[p]] = ps
    BY <1>3, <1>4
  <2>4. e = [k EXCEPT !.ledger = ls, !.proposals = ps]
    BY <2>1, <2>2, <2>3
  <2> HIDE DEF e, ls, ps
  <2> QED BY <1>3, <2>4
<1> HIDE DEF e
<1>6. ls \in [Contract -> Ledgers] /\ \A c \in Contract : Turned(d.gov[c], d.ledger[c], ls[c], time)
  BY AfterTurn
<1>7. \A p \in open : p \in Proposal /\ \E c \in Contract : In(d, p, c)
  BY DEF Opened, In
<1>8. ASSUME NEW p \in open
      PROVE  LET r == d.proposals[p] s == [Parsed(r) EXCEPT !.stage = 1] IN
             /\ s \in Kept /\ (Genuine(s) <=> Genuine(r))
             /\ Genuine(r) => s.contract = r.contract /\ s.fee = r.fee /\ s.stage = 1
  <2> DEFINE r == d.proposals[p]
             old == Parsed(r)
             s == [old EXCEPT !.stage = 1]
  <2>1. r \in Kept
    BY <1>7, Parts1
  <2>2. /\ old \in Recs \union Empties /\ (~ Genuine(r) => old \in Empties)
        /\ (Genuine(r) => old = r /\ old \in Recs)
    BY <2>1, KeptIs
  <2> HIDE DEF old, r
  <2>3. /\ s \in Recs \union Empties /\ (old \in Empties => s \in Empties)
        /\ (old \in Recs => s \in Recs)
    <3>1. 1 \in Nat /\ NoVotes \in VoteCounts
      BY GovAssumption
    <3> QED BY <2>2, <3>1, NextStage
  <2>4. Genuine(r) => s.contract = r.contract /\ s.fee = r.fee /\ s.stage = 1
    BY <2>2 DEF Recs
  <2> HIDE DEF s
  <2>5. s \in Kept /\ (Genuine(s) <=> Genuine(r))
    BY <2>2, <2>3, KeptIs DEF Kept
  <2> QED BY <2>4, <2>5 DEF s, old, r
<1>9. ps \in [Proposal -> Kept]
  BY <1>8, Parts1
<1>10. e \in DB
  BY <1>1, <1>5, <1>6, <1>9, Parts1, Whole
<1>11. ASSUME NEW p \in Proposal
       PROVE  /\ p \notin open => e.proposals[p] = d.proposals[p]
              /\ p \in open => \E c \in Contract : In(d, p, c)
              /\ Stored(e, p) <=> Stored(d, p)
              /\ (p \in open /\ Stored(d, p)) =>
                    /\ e.proposals[p].contract = d.proposals[p].contract
                    /\ e.proposals[p].fee = d.proposals[p].fee
                    /\ e.proposals[p].stage = 1
  <2>1. e.proposals[p] = IF p \in open THEN [Parsed(d.proposals[p]) EXCEPT !.stage = 1]
                         ELSE d.proposals[p]
    BY <1>5
  <2>2. CASE p \in open
    BY <1>7, <1>8, <2>1, <2>2 DEF Stored
  <2>3. CASE p \notin open
    BY <2>1, <2>3 DEF Stored
  <2> QED BY <2>2, <2>3
<1>12. e.due = due /\ k.due = due /\ due.ids = single /\ due.contracts = contracts
  BY <1>3, <1>5 DEF due
<1> HIDE DEF single, contracts, open, ls, ps
<1>13. e.gov = d.gov /\ e.adaptive = d.adaptive /\ e.govTxn = d.govTxn /\ e.ledger = ls
  BY <1>5
<1> QED BY <1>6, <1>10, <1>11, <1>12, <1>13 DEF single, contracts, open, k, e
-----------------------------------------------------------------------------
(* What holds of the databases between the batch and the turn of ledgers. *)

(* A proposal that survives a block was in it or is carried over.          *)
LEMMA Either ==
    ASSUME IInv, block # NoBlock, NEW p \in Proposal, Survives(p)
    PROVE  \/ Carried(Adjusted, p)
           \/ \E t \in InBlock : t.id = p /\ Joined(Adjusted, t)
<1>1. CASE \E t \in InBlock : t.id = p
  BY <1>1, BatchJoins
<1>2. CASE \A t \in InBlock : t.id # p
  BY <1>2, BatchCarries
<1> QED BY <1>1, <1>2

(* A division leaves at most what there was.                               *)
LEMMA DivTimes ==
    ASSUME NEW a \in Nat, NEW n \in Nat \ {0}
    PROVE  (a \div n) * n <= a /\ a \div n \in Nat
OBVIOUS

(* A stored proposal has a result that ends no more than a stage exactly   *)
(* when it is due with its contract's ledger.                              *)
LEMMA CountedIfDue ==
    ASSUME IInv, block # NoBlock, NEW p \in Proposal, Live(p), Stored(stored, p),
           \A r \in Results : r.id = p => ~ r.final
    PROVE  /\ Counting(p) <=> Due(p)
           /\ Counting(p) => \E c \in Contract :
                 /\ DueIn(stored, p, c) /\ stored.proposals[p].contract = c
                 /\ Staged(stored, c) /\ stored.proposals[p].stage > 0
                 /\ ~ Ending(stored, p, c)
<1>1. Resulted(p) /\ \A c \in Contract : DuePlaced(stored, p, c)
  BY DEF IInv, InvProposals
<1>2. ASSUME Counting(p)
      PROVE  /\ Due(p)
             /\ \E c \in Contract :
                   /\ DueIn(stored, p, c) /\ stored.proposals[p].contract = c
                   /\ Staged(stored, c) /\ stored.proposals[p].stage > 0
                   /\ ~ Ending(stored, p, c)
  <2>1. PICK r \in Results : r.id = p /\ ~ r.fast
    BY <1>2 DEF Counting
  <2>2. /\ r.contract = stored.proposals[p].contract
        /\ DueIn(stored, p, r.contract) /\ Staged(stored, r.contract)
        /\ ~ Ending(stored, p, r.contract)
    BY <1>1, <2>1 DEF Resulted
  <2>3. r.contract \in Contract
    BY <2>1 DEF IInv, InvTypes, Blocks, Results, Outcomes
  <2>4. stored.proposals[p].stage > 0
    BY <1>1, <2>2, <2>3 DEF DuePlaced
  <2>5. Due(p)
    BY <2>2 DEF DueIn, Due
  <2> QED BY <2>2, <2>3, <2>4, <2>5
<1>3. ASSUME Due(p) PROVE Counting(p)
  <2>1. PICK e \in stored.due.contracts : p \in e.ids
    BY <1>3 DEF Due
  <2>2. stored.due \in Dues
    BY Parts1 DEF IInv, InvTypes
  <2>3. e.contract \in Contract
    BY <2>1, <2>2 DEF Dues
  <2>4. DueIn(stored, p, e.contract)
    BY <2>1 DEF DueIn
  <2> QED BY <1>1, <2>3, <2>4 DEF Resulted
<1> QED BY <1>2, <1>3

(* After the batch a ledger still is at a stage of its contract and ends   *)
(* with it.                                                                *)
LEMMA MidTimed ==
    ASSUME IInv, block # NoBlock, NEW c \in Contract
    PROVE  Timed(Adjusted, c) /\ InCycle(Adjusted, c)
<1> DEFINE d == Adjusted
<1>1. d \in DB /\ Ledgered(d, c) /\ stored \in DB /\ Timed(stored, c) /\ InCycle(stored, c)
  BY BatchLedgers DEF IInv, InvTypes, InvLedgers
<1> HIDE DEF d
<1>2. CASE SameTimes(stored, d, c) /\ d.ledger[c].ids \subseteq stored.ledger[c].ids
  <2>1. Timed(d, c)
    BY <1>1, <1>2 DEF SameTimes, Timed, Staged
  <2>2. InCycle(d, c)
    <3>1. SUFFICES ASSUME Staged(d, c), d.ledger[c].ids # {}
                   PROVE  LET g == d.gov[c]
                              l == d.ledger[c]
                          IN  /\ l.stage > 0
                              /\ IF g.stages[l.stage].length = 0 THEN l.stageEnd = l.cycleEnd
                                 ELSE l.stageEnd + g.period = l.cycleEnd + LengthsTo(g, l.stage)
      BY DEF InCycle
    <3>2. Staged(stored, c) /\ stored.ledger[c].ids # {}
      BY <1>2, <3>1 DEF Staged, SameTimes
    <3> QED BY <1>1, <1>2, <3>2 DEF InCycle, SameTimes
  <2> QED BY <2>1, <2>2 DEF d
<1>3. CASE ~ (SameTimes(stored, d, c) /\ d.ledger[c].ids \subseteq stored.ledger[c].ids)
  <2> DEFINE g == d.gov[c]
             l == make_staged_cycle_ledger(g, g.start)
  <2>1. /\ g \in Checked
        /\ ByLedger(g) => /\ d.ledger[c].stage = l.stage
                          /\ d.ledger[c].stageEnd = l.stageEnd /\ d.ledger[c].ids = {}
    BY <1>1, <1>3 DEF Ledgered
  <2>2. g \in Govs /\ g # NoGov
    BY <2>1, GovAssumption DEF Govs, Checked
  <2>3. Len(g.stages) \in Nat
    BY <2>2, GovFacts
  <2>4. ByLedger(g) =>
           /\ l.stage = 0 /\ (g.type = "STAGED" => l.stageEnd \in Nat)
           /\ (g.type = "CYCLE" => l.stageEnd = NoTime)
    BY <2>2, NewLedger
  <2> HIDE DEF l
  <2>5. g.type \in {"STAGED", "CYCLE"} => ByLedger(g)
    BY <2>2 DEF ByLedger
  <2>6. Timed(d, c)
    BY <2>1, <2>3, <2>4, <2>5, ProposalAssumption DEF Timed, Staged
  <2>7. InCycle(d, c)
    BY <2>1, <2>5 DEF InCycle, Staged
  <2> QED BY <2>6, <2>7 DEF d
<1> QED BY <1>2, <1>3

(* After the batch a proposal still is in its contract's ledger only.      *)
LEMMA MidPlaced ==
    ASSUME IInv, block # NoBlock, NEW p \in Proposal, Survives(p), NEW c \in Contract
    PROVE  Placed(Adjusted, p, c)
<1> DEFINE d == Adjusted
<1>1. stored \in DB /\ d \in DB /\ Live(p) /\ Placed(stored, p, c)
  BY BatchLedgers DEF IInv, InvTypes, InvProposals, Survives
<1>2. SUFFICES ASSUME Stored(d, p), In(d, p, c)
               PROVE  /\ d.proposals[p].contract = c /\ ByLedger(d.gov[c])
                      /\ ~ (p \in d.ledger[c].ids /\ p \in d.ledger[c].pending)
                      /\ Staged(d, c) => /\ p \in d.ledger[c].pending => d.proposals[p].stage = 0
                                         /\ p \in d.ledger[c].ids => d.proposals[p].stage > 0
  BY DEF Placed
<1>3. CASE Carried(d, p)
  <2> HIDE DEF d
  <2>1. /\ Stored(stored, p) /\ d.proposals[p].contract = stored.proposals[p].contract
        /\ d.proposals[p].stage = stored.proposals[p].stage + (IF Counting(p) THEN 1 ELSE 0)
        /\ \A r \in Results : r.id = p => ~ r.final
        /\ p \in d.ledger[c].ids <=> p \in stored.ledger[c].ids
        /\ p \in d.ledger[c].pending <=> p \in stored.ledger[c].pending
        /\ d.gov[c] = stored.gov[c] /\ In(stored, p, c)
    BY <1>2, <1>3 DEF Carried, SameTimes
  <2>2. /\ stored.proposals[p].contract = c /\ ByLedger(stored.gov[c])
        /\ ~ (p \in stored.ledger[c].ids /\ p \in stored.ledger[c].pending)
        /\ Staged(stored, c) =>
              /\ p \in stored.ledger[c].pending => stored.proposals[p].stage = 0
              /\ p \in stored.ledger[c].ids => stored.proposals[p].stage > 0
    BY <1>1, <2>1 DEF Placed
  <2>3. Counting(p) => stored.proposals[p].stage > 0
    BY <1>1, <2>1, CountedIfDue
  <2>4. stored.proposals[p].stage \in Nat
    BY <1>1, <2>1, RecordOf DEF Recs
  <2>5. Staged(d, c) <=> Staged(stored, c)
    BY <2>1 DEF Staged
  <2>6. Staged(d, c) => /\ p \in d.ledger[c].pending => d.proposals[p].stage = 0
                        /\ p \in d.ledger[c].ids => d.proposals[p].stage > 0
    BY <2>1, <2>2, <2>3, <2>4, <2>5
  <2> QED BY <2>1, <2>2, <2>6
<1>4. ASSUME NEW t \in InBlock, t.id = p, Joined(d, t)
      PROVE  /\ d.proposals[p].contract = c /\ ByLedger(d.gov[c])
             /\ ~ (p \in d.ledger[c].ids /\ p \in d.ledger[c].pending)
             /\ Staged(d, c) => /\ p \in d.ledger[c].pending => d.proposals[p].stage = 0
                                /\ p \in d.ledger[c].ids => d.proposals[p].stage > 0
  <2> HIDE DEF d
  <2> QED BY <1>2, <1>4 DEF Joined, In
<1> QED BY <1>3, <1>4, Either

(* After the batch a proposal whose result was counted has caught up with  *)
(* its ledger.                                                             *)
LEMMA MidInStep ==
    ASSUME IInv, block # NoBlock, NEW p \in Proposal, Survives(p), p \notin missed,
           NEW c \in Contract, p \in Adjusted.ledger[c].ids, Staged(Adjusted, c), Stored(Adjusted, p)
    PROVE  Adjusted.proposals[p].stage = Adjusted.ledger[c].stage
<1> DEFINE d == Adjusted
<1>1. stored \in DB /\ Live(p) /\ InStep(p, c)
  BY DEF IInv, InvTypes, InvProposals, Survives
<1>2. ~ \E t \in InBlock : t.id = p /\ Joined(d, t)
  BY DEF Joined
<1>3. Carried(d, p)
  BY <1>2, Either
<1>4. Stored(d, p) /\ p \in d.ledger[c].ids /\ Staged(d, c)
  OBVIOUS
<1> HIDE DEF d
<1>5. /\ Stored(stored, p)
      /\ d.proposals[p].stage = stored.proposals[p].stage + (IF Counting(p) THEN 1 ELSE 0)
      /\ \A r \in Results : r.id = p => ~ r.final
      /\ p \in stored.ledger[c].ids /\ SameTimes(stored, d, c)
  BY <1>3, <1>4 DEF Carried, In
<1>6. Counting(p) <=> Due(p)
  BY <1>1, <1>5, CountedIfDue
<1>7. stored.proposals[p].stage + (IF Due(p) THEN 1 ELSE 0) = stored.ledger[c].stage
  BY <1>1, <1>4, <1>5 DEF InStep, SameTimes, Staged
<1>8. d.ledger[c].stage = stored.ledger[c].stage
  BY <1>5 DEF SameTimes
<1> QED BY <1>5, <1>6, <1>7, <1>8 DEF d

(* After the batch what is left in the purse still is enough for the       *)
(* stages left.                                                            *)
LEMMA MidPaid ==
    ASSUME IInv, block # NoBlock, NEW p \in Proposal, Survives(p), finals[p] = 0,
           NEW c \in Contract, In(Adjusted, p, c), Staged(Adjusted, c), Stored(Adjusted, p)
    PROVE  LET r == Adjusted.proposals[p] IN
           r.fee * Len(Adjusted.gov[c].stages) <= purse[p] + r.fee * PaidBefore(r.stage)
<1> DEFINE d == Adjusted
<1>1. /\ stored \in DB /\ d \in DB /\ Live(p) /\ Paid(p, c) /\ purse[p] \in Nat
  BY BatchLedgers DEF IInv, InvTypes, InvProposals, Survives
<1>2. Stored(d, p) /\ In(d, p, c) /\ Staged(d, c)
  OBVIOUS
<1>3. CASE Carried(d, p)
  <2> HIDE DEF d
  <2>1. /\ Stored(stored, p) /\ d.proposals[p].fee = stored.proposals[p].fee
        /\ d.proposals[p].stage = stored.proposals[p].stage + (IF Counting(p) THEN 1 ELSE 0)
        /\ \A r \in Results : r.id = p => ~ r.final
        /\ d.gov[c] = stored.gov[c] /\ In(stored, p, c)
    BY <1>2, <1>3 DEF Carried, SameTimes
  <2>2. Staged(stored, c)
    BY <1>2, <2>1 DEF Staged
  <2> DEFINE r == stored.proposals[p]
  <2>3. r.fee * Len(stored.gov[c].stages)
           <= purse[p] + r.fee * (PaidBefore(r.stage) + (IF Counting(p) THEN 1 ELSE 0))
    BY <1>1, <2>1, <2>2 DEF Paid
  <2>4. Counting(p) => r.stage > 0
    BY <1>1, <2>1, CountedIfDue
  <2>5. r.stage \in Nat
    BY <1>1, <2>1, RecordOf DEF Recs
  <2>6. PaidBefore(d.proposals[p].stage) = PaidBefore(r.stage) + (IF Counting(p) THEN 1 ELSE 0)
    BY <2>1, <2>4, <2>5 DEF PaidBefore
  <2> QED BY <2>1, <2>3, <2>6 DEF d
<1>4. ASSUME NEW t \in InBlock, t.id = p, Joined(d, t)
      PROVE  d.proposals[p].fee * Len(d.gov[c].stages)
                <= purse[p] + d.proposals[p].fee * PaidBefore(d.proposals[p].stage)
  <2> HIDE DEF d
  <2> DEFINE S == Len(d.gov[c].stages)
             fee == d.proposals[p].fee
  <2>1. /\ c = t.contract /\ d.proposals[p].stage = 0
        /\ fee = IF d.gov[c].type = "STAGED" THEN purse[p] \div S ELSE purse[p]
    BY <1>2, <1>4 DEF Joined, In
  <2>2. d.gov[c].type = "STAGED" /\ d.gov[c] # NoGov
    BY <1>2 DEF Staged
  <2>3. d.gov[c] \in Govs
    BY <1>1, Parts1
  <2>4. S \in Nat \ {0}
    BY <2>2, <2>3, GovFacts
  <2>5. fee = purse[p] \div S /\ fee \in Nat /\ fee * S <= purse[p]
    <3> HIDE DEF S, fee
    <3> QED BY <1>1, <2>1, <2>2, <2>4, DivTimes
  <2>6. PaidBefore(d.proposals[p].stage) = 0
    BY <2>1 DEF PaidBefore
  <2> HIDE DEF S, fee
  <2>7. fee * S <= purse[p] + fee * 0
    BY <1>1, <2>5
  <2> QED BY <2>6, <2>7 DEF S, fee
<1> QED BY <1>3, <1>4, Either
-----------------------------------------------------------------------------
(* The databases e after the turn of the ledgers of d. *)

AllTurned(d, e, time) ==
    /\ e \in DB /\ e.gov = d.gov /\ e.adaptive = d.adaptive /\ e.govTxn = d.govTxn
    /\ e.due.ids = check_staggered_adaptive(d, time)
    /\ e.due.contracts = IF check_staggered_adaptive(d, time) # {} THEN {}
                         ELSE check_staged_cycle(d, time)
    /\ \A p \in Proposal :
          /\ p \notin Opened(d, time) => e.proposals[p] = d.proposals[p]
          /\ p \in Opened(d, time) => \E c \in Contract : In(d, p, c)
          /\ Stored(e, p) <=> Stored(d, p)
          /\ (p \in Opened(d, time) /\ Stored(d, p)) =>
                /\ e.proposals[p].contract = d.proposals[p].contract
                /\ e.proposals[p].fee = d.proposals[p].fee
                /\ e.proposals[p].stage = 1
    /\ \A c \in Contract : Turned(d.gov[c], d.ledger[c], e.ledger[c], time)

(* Where a proposal is after a turn.                                       *)
LEMMA TurnedIn ==
    ASSUME NEW d \in DB, NEW e, NEW time \in Times, AllTurned(d, e, time),
           NEW p \in Proposal, NEW c \in Contract
    PROVE  /\ In(e, p, c) => In(d, p, c)
           /\ DueIn(e, p, c) => /\ p \in d.ledger[c].ids /\ time >= LedgerEnd(d.ledger[c])
           /\ Stored(e, p) <=> Stored(d, p)
           /\ Known(e, p) => Known(d, p)
           /\ Stored(e, p) => /\ e.proposals[p].contract = d.proposals[p].contract
                              /\ e.proposals[p].fee = d.proposals[p].fee
           /\ Staged(e, c) <=> Staged(d, c)
<1>1. \A b \in Contract : In(e, p, b) => In(d, p, b)
  <2> SUFFICES ASSUME NEW b \in Contract PROVE In(e, p, b) => In(d, p, b)
    OBVIOUS
  <2>1. Turned(d.gov[b], d.ledger[b], e.ledger[b], time)
    BY DEF AllTurned
  <2> QED BY <2>1 DEF Turned, In
<1>2. DueIn(e, p, c) => p \in d.ledger[c].ids /\ time >= LedgerEnd(d.ledger[c])
  BY DEF AllTurned, DueIn, check_staged_cycle
<1>3. /\ Stored(e, p) <=> Stored(d, p)
      /\ Stored(e, p) => /\ e.proposals[p].contract = d.proposals[p].contract
                         /\ e.proposals[p].fee = d.proposals[p].fee
  <2>1. CASE p \in Opened(d, time)
    BY <2>1 DEF AllTurned
  <2>2. CASE p \notin Opened(d, time)
    <3>1. e.proposals[p] = d.proposals[p]
      BY <2>2 DEF AllTurned
    <3> QED BY <3>1 DEF Stored
  <2> QED BY <2>1, <2>2
<1>4. Staged(e, c) <=> Staged(d, c)
  BY DEF AllTurned, Staged
<1>5. Known(e, p) => Known(d, p)
  <2>1. CASE p \in Opened(d, time)
    BY <2>1 DEF AllTurned, Known
  <2>2. CASE p \notin Opened(d, time)
    BY <1>1, <2>2 DEF AllTurned, Known
  <2> QED BY <2>1, <2>2
<1> QED BY <1>1, <1>2, <1>3, <1>4, <1>5

(* Proposals enter the first stage when their contract's new cycle takes   *)
(* them up, and only then.                                                 *)
LEMMA OpenedIff ==
    ASSUME NEW d \in DB, NEW time \in Times, NEW p \in Proposal, Stored(d, p),
           \A k \in Contract : Placed(d, p, k), NEW c \in Contract, In(d, p, c)
    PROVE  p \in Opened(d, time) <=>
              /\ Turns(d.gov[c], d.ledger[c], time) /\ Staged(d, c)
              /\ LastStage(d.gov[c], d.ledger[c]) /\ p \in d.ledger[c].pending
<1>1. ASSUME p \in Opened(d, time)
      PROVE  /\ Turns(d.gov[c], d.ledger[c], time) /\ Staged(d, c)
             /\ LastStage(d.gov[c], d.ledger[c]) /\ p \in d.ledger[c].pending
  <2>1. PICK k \in Contract :
           /\ Turns(d.gov[k], d.ledger[k], time) /\ d.gov[k].type = "STAGED"
           /\ LastStage(d.gov[k], d.ledger[k]) /\ p \in d.ledger[k].pending
    BY <1>1 DEF Opened
  <2>2. d.proposals[p].contract = k /\ d.proposals[p].contract = c
    BY <2>1 DEF Placed, In
  <2>3. Staged(d, k)
    BY <2>1 DEF Turns, Staged
  <2> QED BY <2>1, <2>2, <2>3
<1>2. ASSUME Turns(d.gov[c], d.ledger[c], time), Staged(d, c),
             LastStage(d.gov[c], d.ledger[c]), p \in d.ledger[c].pending
      PROVE  p \in Opened(d, time)
  BY <1>2 DEF Opened, Staged
<1> QED BY <1>1, <1>2

(* A proposal is in one ledger only.                                       *)
LEMMA OneLedger ==
    ASSUME NEW d, NEW p, Stored(d, p), \A k \in Contract : Placed(d, p, k),
           NEW b \in Contract, In(d, p, b), NEW c \in Contract, In(d, p, c)
    PROVE  b = c
BY DEF Placed

(* What is due is at the end of its stage or cycle, and its ledger turns.  *)
LEMMA DueTurns ==
    ASSUME NEW d \in DB, NEW c \in Contract, Timed(d, c), NEW time \in Times, ByLedger(d.gov[c])
    PROVE  Turns(d.gov[c], d.ledger[c], time) <=> time >= LedgerEnd(d.ledger[c])
<1>1. d.gov[c] # NoGov /\ d.gov[c].type \in {"STAGED", "CYCLE"}
  BY DEF ByLedger
<1>2. CASE d.gov[c].type = "STAGED"
  <2>1. d.ledger[c].stageEnd # NoTime
    BY <1>1, <1>2 DEF Timed, Staged
  <2> QED BY <1>1, <1>2, <2>1 DEF Turns, LedgerEnd
<1>3. CASE d.gov[c].type = "CYCLE"
  <2>1. d.ledger[c].stageEnd = NoTime
    BY <1>1, <1>3 DEF Timed
  <2> QED BY <1>1, <1>3, <2>1 DEF Turns, LedgerEnd
<1> QED BY <1>1, <1>2, <1>3

(* The stage of a proposal after the turn of its ledger.                   *)
LEMMA StageAfter ==
    ASSUME NEW d \in DB, NEW e, NEW time \in Times, AllTurned(d, e, time),
           NEW p \in Proposal, Stored(d, p), \A k \in Contract : Placed(d, p, k),
           NEW c \in Contract, In(d, p, c), Staged(d, c)
    PROVE  LET moves == Turns(d.gov[c], d.ledger[c], time)
               last == LastStage(d.gov[c], d.ledger[c])
           IN  /\ (moves /\ last /\ p \in d.ledger[c].pending) => e.proposals[p].stage = 1
               /\ ~ (moves /\ last /\ p \in d.ledger[c].pending) =>
                      e.proposals[p].stage = d.proposals[p].stage
<1> DEFINE moves == Turns(d.gov[c], d.ledger[c], time)
           last == LastStage(d.gov[c], d.ledger[c])
<1>1. p \in Opened(d, time) <=> (moves /\ last /\ p \in d.ledger[c].pending)
  BY OpenedIff
<1>2. /\ p \notin Opened(d, time) => e.proposals[p] = d.proposals[p]
      /\ p \in Opened(d, time) => e.proposals[p].stage = 1
  BY DEF AllTurned
<1> QED BY <1>1, <1>2

(* A turn keeps proposals where they belong.                               *)
LEMMA TurnPlaced ==
    ASSUME NEW d \in DB, NEW e, NEW time \in Times, AllTurned(d, e, time),
           NEW p \in Proposal, \A k \in Contract : Placed(d, p, k), NEW c \in Contract
    PROVE  Placed(e, p, c) /\ DuePlaced(e, p, c)
<1> DEFINE g == d.gov[c]
           l == d.ledger[c]
           m == e.ledger[c]
           moves == Turns(g, l, time)
           last == LastStage(g, l)
<1>1. /\ In(e, p, c) => In(d, p, c)
      /\ DueIn(e, p, c) => p \in l.ids
      /\ Stored(e, p) <=> Stored(d, p)
      /\ Stored(e, p) => e.proposals[p].contract = d.proposals[p].contract
      /\ Staged(e, c) <=> Staged(d, c)
  BY TurnedIn
<1>2. e.gov[c] = g /\ Turned(g, l, m, time)
  BY DEF AllTurned
<1>3. Placed(d, p, c)
  OBVIOUS
<1>4. ASSUME Stored(d, p), In(d, p, c), Staged(d, c)
      PROVE  /\ (moves /\ last /\ p \in l.pending) => e.proposals[p].stage = 1
             /\ ~ (moves /\ last /\ p \in l.pending) =>
                    e.proposals[p].stage = d.proposals[p].stage
  BY <1>4, StageAfter
<1>5. ASSUME Stored(e, p), In(e, p, c)
      PROVE  /\ e.proposals[p].contract = c /\ ByLedger(e.gov[c])
             /\ ~ (p \in m.ids /\ p \in m.pending)
             /\ Staged(e, c) => /\ p \in m.pending => e.proposals[p].stage = 0
                                /\ p \in m.ids => e.proposals[p].stage > 0
  <2>1. /\ Stored(d, p) /\ In(d, p, c) /\ d.proposals[p].contract = c /\ ByLedger(g)
        /\ ~ (p \in l.ids /\ p \in l.pending)
        /\ Staged(d, c) => /\ p \in l.pending => d.proposals[p].stage = 0
                           /\ p \in l.ids => d.proposals[p].stage > 0
    BY <1>1, <1>3, <1>5 DEF Placed
  <2>2. ~ (p \in m.ids /\ p \in m.pending)
    BY <1>2, <2>1 DEF Turned
  <2>3. ASSUME Staged(e, c)
        PROVE  /\ p \in m.pending => e.proposals[p].stage = 0
               /\ p \in m.ids => e.proposals[p].stage > 0
    <3>1. /\ (moves /\ last /\ p \in l.pending) => e.proposals[p].stage = 1
          /\ ~ (moves /\ last /\ p \in l.pending) =>
                 e.proposals[p].stage = d.proposals[p].stage
      BY <1>1, <1>4, <2>1, <2>3
    <3>2. Staged(d, c) /\ g.type = "STAGED"
      BY <1>1, <2>3 DEF Staged
    <3>3. CASE moves /\ last
      <4>1. m.ids = l.pending /\ m.pending = {}
        BY <1>2, <3>2, <3>3 DEF Turned
      <4> QED BY <3>1, <3>3, <4>1
    <3>4. CASE ~ (moves /\ last)
      <4>1. m.ids = l.ids /\ m.pending = l.pending
        BY <1>2, <3>2, <3>4 DEF Turned
      <4> QED BY <2>1, <3>1, <3>2, <3>4, <4>1
    <3> QED BY <3>3, <3>4
  <2> QED BY <1>1, <1>2, <1>5, <2>1, <2>2, <2>3
<1>6. ASSUME Stored(e, p), DueIn(e, p, c)
      PROVE  /\ e.proposals[p].contract = c /\ ByLedger(e.gov[c])
             /\ Staged(e, c) => e.proposals[p].stage > 0
  <2>1. /\ Stored(d, p) /\ In(d, p, c) /\ p \in l.ids /\ d.proposals[p].contract = c
        /\ ByLedger(g) /\ p \notin l.pending
        /\ Staged(d, c) => d.proposals[p].stage > 0
    BY <1>1, <1>3, <1>6 DEF Placed, In
  <2> QED BY <1>1, <1>2, <1>4, <1>6, <2>1
<1> QED BY <1>5, <1>6 DEF Placed, DuePlaced

(* A turn leaves enough in the purse for the stages left.                  *)
LEMMA TurnPaid ==
    ASSUME NEW d \in DB, NEW e, NEW time \in Times, AllTurned(d, e, time),
           NEW p \in Proposal, \A k \in Contract : Placed(d, p, k), NEW c \in Contract,
           NEW n,
           (Stored(d, p) /\ In(d, p, c) /\ Staged(d, c)) =>
              LET r == d.proposals[p] IN
              r.fee * Len(d.gov[c].stages) <= n + r.fee * PaidBefore(r.stage),
           Stored(e, p), In(e, p, c) \/ DueIn(e, p, c), Staged(e, c)
    PROVE  LET r == e.proposals[p] IN
           r.fee * Len(e.gov[c].stages) <= n + r.fee * PaidBefore(r.stage)
<1>1. /\ In(d, p, c) /\ Stored(d, p) /\ Staged(d, c)
      /\ e.proposals[p].fee = d.proposals[p].fee /\ e.gov[c] = d.gov[c]
  <2>1. e.gov[c] = d.gov[c]
    BY DEF AllTurned
  <2>2. DueIn(e, p, c) => In(d, p, c)
    BY TurnedIn DEF In
  <2> QED BY <2>1, <2>2, TurnedIn
<1>2. PaidBefore(e.proposals[p].stage) = PaidBefore(d.proposals[p].stage)
  <2>1. \/ e.proposals[p].stage = d.proposals[p].stage
        \/ e.proposals[p].stage = 1 /\ p \in d.ledger[c].pending
    BY <1>1, StageAfter
  <2>2. p \in d.ledger[c].pending => d.proposals[p].stage = 0
    BY <1>1 DEF Placed
  <2> QED BY <2>1, <2>2 DEF PaidBefore
<1> QED BY <1>1, <1>2

(* Ledger and proposal turn together.                                      *)
LEMMA TurnInStep ==
    ASSUME NEW d \in DB, NEW e, NEW time \in Times, AllTurned(d, e, time),
           \A k \in Contract : Timed(d, k),
           NEW p \in Proposal, \A k \in Contract : Placed(d, p, k), NEW c \in Contract,
           (p \in d.ledger[c].ids /\ Staged(d, c) /\ Stored(d, p)) =>
               d.proposals[p].stage = d.ledger[c].stage,
           (p \in d.ledger[c].ids /\ Turns(d.gov[c], d.ledger[c], time)) =>
               e.due.contracts # {},
           Stored(e, p)
    PROVE  /\ (p \in e.ledger[c].ids /\ Staged(e, c)) =>
                 e.proposals[p].stage + (IF \E x \in e.due.contracts : p \in x.ids THEN 1 ELSE 0)
                    = e.ledger[c].stage
           /\ (DueIn(e, p, c) /\ p \notin e.ledger[c].ids) => Ending(e, p, c)
<1> DEFINE g == d.gov[c]
           l == d.ledger[c]
           m == e.ledger[c]
           moves == Turns(g, l, time)
           last == LastStage(g, l)
           due == \E x \in e.due.contracts : p \in x.ids
<1>1. /\ In(e, p, c) => In(d, p, c)
      /\ DueIn(e, p, c) => p \in l.ids /\ time >= LedgerEnd(l)
      /\ Stored(d, p) /\ (Staged(e, c) <=> Staged(d, c))
  BY TurnedIn
<1>2. e.gov[c] = g /\ Turned(g, l, m, time)
  BY DEF AllTurned
<1>3. d.proposals[p].stage \in Nat /\ l.stage \in Nat
  <2>1. d.proposals[p] \in Recs /\ l \in Ledgers
    BY <1>1, Parts1, RecordOf
  <2> QED BY <2>1 DEF Recs, Ledgers
(* It is due exactly if it was voted on in a stage that ended.             *)
<1>4. ASSUME In(d, p, c), Staged(d, c)
      PROVE  due <=> (p \in l.ids /\ moves)
  <2>1. ByLedger(g) /\ (moves <=> time >= LedgerEnd(l))
    BY <1>1, <1>4, DueTurns DEF Placed
  <2>2. ASSUME due PROVE p \in l.ids /\ moves
    <3>1. PICK x \in e.due.contracts : p \in x.ids
      BY <2>2
    <3>2. /\ x.contract \in Contract /\ x.ids = d.ledger[x.contract].ids
          /\ time >= LedgerEnd(d.ledger[x.contract])
      BY <3>1 DEF AllTurned, check_staged_cycle
    <3>3. In(d, p, x.contract)
      BY <3>1, <3>2 DEF In
    <3>4. x.contract = c
      BY <1>1, <1>4, <3>2, <3>3, OneLedger
    <3> QED BY <2>1, <3>1, <3>2, <3>4
  <2>3. ASSUME p \in l.ids, moves PROVE due
    <3>1. e.due.contracts = check_staged_cycle(d, time)
      BY <2>3 DEF AllTurned
    <3>2. [contract |-> c, ids |-> l.ids] \in e.due.contracts
      BY <2>1, <2>3, <3>1 DEF check_staged_cycle
    <3> QED BY <2>3, <3>2
  <2> QED BY <2>2, <2>3
<1>5. ASSUME p \in m.ids, Staged(e, c)
      PROVE  e.proposals[p].stage + (IF due THEN 1 ELSE 0) = m.stage
  <2>1. In(d, p, c) /\ Staged(d, c) /\ g.type = "STAGED"
    BY <1>1, <1>5 DEF In, Staged
  <2>2. /\ (moves /\ last /\ p \in l.pending) => e.proposals[p].stage = 1
        /\ ~ (moves /\ last /\ p \in l.pending) => e.proposals[p].stage = d.proposals[p].stage
    BY <1>1, <2>1, StageAfter
  <2>3. due <=> (p \in l.ids /\ moves)
    BY <1>4, <2>1
  <2>4. p \in l.ids => d.proposals[p].stage = l.stage
    BY <1>1, <2>1
  <2>5. ~ (p \in l.ids /\ p \in l.pending)
    BY <1>1, <2>1 DEF Placed
  <2> HIDE DEF due
  <2>6. CASE moves /\ last
    <3>1. m.ids = l.pending /\ m.stage = 1
      BY <1>2, <2>1, <2>6 DEF Turned
    <3> QED BY <1>5, <2>2, <2>3, <2>5, <2>6, <3>1
  <2>7. CASE moves /\ ~ last
    <3>1. m.ids = l.ids /\ m.stage = l.stage + 1
      BY <1>2, <2>1, <2>7 DEF Turned
    <3> QED BY <1>5, <2>2, <2>3, <2>4, <2>7, <3>1
  <2>8. CASE ~ moves
    <3>1. m = l
      BY <1>2, <2>8 DEF Turned
    <3> QED BY <1>3, <1>5, <2>2, <2>3, <2>4, <2>8, <3>1
  <2> QED BY <2>6, <2>7, <2>8
<1>6. ASSUME DueIn(e, p, c), p \notin m.ids, Staged(e, c)
      PROVE  e.proposals[p].stage >= Len(e.gov[c].stages)
  <2>1. In(d, p, c) /\ Staged(d, c) /\ g.type = "STAGED" /\ p \in l.ids
    BY <1>1, <1>6 DEF In, Staged
  <2>2. moves
    BY <1>1, <1>6, <2>1, DueTurns DEF Placed
  <2>3. last
    BY <1>2, <1>6, <2>1, <2>2 DEF Turned
  <2>4. p \notin l.pending
    BY <1>1, <2>1 DEF Placed
  <2>5. e.proposals[p].stage = d.proposals[p].stage
    BY <1>1, <2>1, <2>4, StageAfter
  <2>6. d.proposals[p].stage = l.stage
    BY <1>1, <2>1
  <2> QED BY <1>2, <2>3, <2>5, <2>6 DEF LastStage
<1> QED BY <1>5, <1>6 DEF Ending
-----------------------------------------------------------------------------
(* The lengths of stages. *)

(* The check of a governance's stages adds their lengths.                  *)
LEMMA StagesFill ==
    ASSUME NEW g \in Govs, g # NoGov, g.type = "STAGED"
    PROVE  /\ LengthsTo(g, Len(g.stages)) <= g.period
           /\ \A k \in 1 .. Len(g.stages) : k < Len(g.stages) => g.stages[k].length # 0
<1> DEFINE n == Len(g.stages)
           S == 1 .. n
           f == Lengths(g)
           Eq(h) == h = [s \in SUBSET S |->
                          IF s = {} THEN 0 ELSE h[s \ {Pick(s)}] + g.stages[Pick(s)].length]
           h == CHOOSE v : Eq(v)
           sum == [s \in SUBSET S |-> SumFunctionOnSet(f, s)]
<1>1. n \in Nat /\ n # 0 /\ check_governance(g) /\ DOMAIN g.stages = S
  <2>1. g.stages \in Seq([length : Nat])
    BY GovFacts
  <2> QED BY <2>1, GovFacts
<1>2. IsFiniteSet(S)
  BY <1>1, FS_Interval
<1>3. \A k \in S : f[k] = g.stages[k].length /\ f[k] \in Nat
  BY <1>1, LengthIn DEF Lengths
<1> HIDE DEF f
<1>4. \A s \in SUBSET S : IsFiniteSet(s) /\ SumFunctionOnSet(f, s) \in Nat
  <2> SUFFICES ASSUME NEW s \in SUBSET S PROVE IsFiniteSet(s) /\ SumFunctionOnSet(f, s) \in Nat
    OBVIOUS
  <2>1. IsFiniteSet(s) /\ \A k \in s : f[k] \in Nat
    BY <1>2, <1>3, FS_Subset
  <2> QED BY <2>1, SumNat
<1>5. ASSUME NEW s \in SUBSET S, s # {}
      PROVE  SumFunctionOnSet(f, s) = SumFunctionOnSet(f, s \ {Pick(s)}) + g.stages[Pick(s)].length
  <2>1. SumFunctionOnSet(f, s) = f[Pick(s)] + SumFunctionOnSet(f, s \ {Pick(s)})
    BY <1>4, <1>5, SumPick
  <2>2. Pick(s) \in S /\ s \ {Pick(s)} \in SUBSET S
    BY <1>5, PickIn
  <2>3. /\ f[Pick(s)] = g.stages[Pick(s)].length /\ f[Pick(s)] \in Nat
        /\ SumFunctionOnSet(f, s \ {Pick(s)}) \in Nat
    BY <1>3, <1>4, <2>2
  <2> HIDE DEF S
  <2> QED BY <2>1, <2>3
<1>6. sum[{}] = 0
  BY SumEmpty
<1>7. Eq(sum)
  <2>1. \A s \in SUBSET S : sum[s] = IF s = {} THEN 0 ELSE sum[s \ {Pick(s)}] + g.stages[Pick(s)].length
    BY <1>5, <1>6
  <2> QED BY <2>1
<1> HIDE DEF sum
<1>8. Eq(h)
  BY <1>7
<1> HIDE DEF h
<1> DEFINE Q == [s \in SUBSET S |-> {sum[s]}]
<1>9. h[S] \in Q[S]
  <2>1. h[{}] \in Q[{}]
    BY <1>6, <1>8
  <2>2. ASSUME NEW s \in SUBSET S, s # {}, h[s \ {Pick(s)}] \in Q[s \ {Pick(s)}]
        PROVE  h[s] \in Q[s]
    <3>1. h[s \ {Pick(s)}] = sum[s \ {Pick(s)}]
      BY <2>2
    <3>2. h[s] = h[s \ {Pick(s)}] + g.stages[Pick(s)].length
      BY <1>8, <2>2
    <3>3. sum[s] = sum[s \ {Pick(s)}] + g.stages[Pick(s)].length
      BY <1>7, <2>2
    <3> QED BY <3>1, <3>2, <3>3
  <2> HIDE DEF Q, S
  <2> QED BY <1>2, <2>1, <2>2, FoldReaches
<1>10. h[S] = LengthsTo(g, n)
  BY <1>9 DEF sum, f, LengthsTo
<1>11. check_days_stages(g)
  BY <1>1 DEF check_governance
<1>12. /\ \A k \in S : k < n => g.stages[k].length # 0
       /\ h[S] = g.period \/ h[S] < g.period
  <2>1. DOMAIN g.stages = S
    BY <1>1
  <2> HIDE DEF S, n
  <2>2. /\ \A k \in S : k < n => g.stages[k].length # 0
        /\ \/ h[S] = g.period /\ g.stages[n].length # 0
           \/ h[S] < g.period /\ g.stages[n].length = 0
    BY <1>11, <2>1 DEF check_days_stages, FoldSet, MapThenFoldSet, Pick, h, n
  <2> QED BY <2>2
<1>13. g.period \in Nat /\ LengthsTo(g, n) \in Nat
  <2>1. S \in SUBSET S
    OBVIOUS
  <2>2. SumFunctionOnSet(f, S) \in Nat
    BY <1>4, <2>1
  <2> QED BY <2>2, GovFacts DEF LengthsTo, f
<1> QED BY <1>10, <1>12, <1>13

(* The lengths of the stages up to one, and to the one before.             *)
LEMMA LengthsStep ==
    ASSUME NEW g \in Govs, g # NoGov, NEW k \in 1 .. Len(g.stages)
    PROVE  /\ LengthsTo(g, k) \in Nat /\ LengthsTo(g, k - 1) \in Nat
           /\ LengthsTo(g, k) = LengthsTo(g, k - 1) + g.stages[k].length
<1> DEFINE n == Len(g.stages)
           f == Lengths(g)
<1>1. n \in Nat /\ DOMAIN g.stages = 1 .. n
  <2>1. g.stages \in Seq([length : Nat])
    BY GovFacts
  <2> QED BY <2>1, GovFacts
<1>2. \A i \in 1 .. n : f[i] = g.stages[i].length /\ f[i] \in Nat
  BY <1>1, LengthIn DEF Lengths
<1> HIDE DEF f
<1>3. ASSUME NEW i \in 0 .. n PROVE IsFiniteSet(1 .. i) /\ \A x \in 1 .. i : f[x] \in Nat
  <2>1. 1 \in Int /\ i \in Int /\ 1 .. i \subseteq 1 .. n
    BY <1>1
  <2>2. IsFiniteSet(1 .. i)
    BY <2>1, FS_Interval
  <2> QED BY <1>2, <2>1, <2>2
<1>4. k \in 0 .. n /\ k - 1 \in 0 .. n /\ k \in 1 .. k /\ (1 .. k) \ {k} = 1 .. (k - 1)
  BY <1>1
<1>5. LengthsTo(g, k) \in Nat /\ LengthsTo(g, k - 1) \in Nat
  BY <1>3, <1>4, SumNat DEF LengthsTo, f
<1>6. SumFunctionOnSet(f, 1 .. k) = f[k] + SumFunctionOnSet(f, (1 .. k) \ {k})
  <2>1. \A x \in 1 .. k : f[x] \in Int
    BY <1>3, <1>4
  <2> QED BY <1>3, <1>4, <2>1, SumTake
<1>7. LengthsTo(g, k) = g.stages[k].length + LengthsTo(g, k - 1) /\ g.stages[k].length \in Nat
  BY <1>2, <1>4, <1>6 DEF LengthsTo, f
<1> QED BY <1>5, <1>7

(* The stages up to one are no longer than all of them.                    *)
LEMMA LengthsGrow ==
    ASSUME NEW g \in Govs, g # NoGov, NEW k \in 1 .. Len(g.stages)
    PROVE  LengthsTo(g, k) <= LengthsTo(g, Len(g.stages))
<1> DEFINE n == Len(g.stages)
           T == {j \in 0 .. (n - k) : LengthsTo(g, k) <= LengthsTo(g, k + j)}
<1>1. n \in Nat /\ k \in 1 .. n /\ n - k \in Nat
  BY GovFacts
<1>2. LengthsTo(g, k) \in Nat
  BY LengthsStep
<1>3. 0 \in T
  BY <1>1, <1>2
<1>4. ASSUME NEW j \in 1 .. (n - k), j - 1 \in T PROVE j \in T
  <2>1. k + j \in 1 .. n /\ k + (j - 1) = (k + j) - 1
    BY <1>1
  <2> DEFINE i == k + j
  <2> HIDE DEF i
  <2>2. /\ LengthsTo(g, i) = LengthsTo(g, i - 1) + g.stages[i].length
        /\ LengthsTo(g, i - 1) \in Nat /\ g.stages[i].length \in Nat
    BY <2>1, LengthsStep, LengthIn DEF i
  <2>3. LengthsTo(g, k) <= LengthsTo(g, i - 1)
    BY <1>4, <2>1 DEF i
  <2>4. LengthsTo(g, k) <= LengthsTo(g, i)
    BY <1>2, <2>2, <2>3
  <2> QED BY <2>4 DEF i
<1> HIDE DEF T
<1>5. 0 .. (n - k) \subseteq T
  BY <1>1, <1>3, <1>4, PrefixInduction
<1>6. n - k \in T
  BY <1>1, <1>5
<1>7. k + (n - k) = n
  BY <1>1
<1> QED BY <1>6, <1>7 DEF T

(* A turn takes a ledger to a stage, and that stage's end is as far from   *)
(* the cycle's as the stages after it.                                     *)
LEMMA TurnTimed ==
    ASSUME NEW d \in DB, NEW e, NEW time \in Times, AllTurned(d, e, time),
           NEW c \in Contract, Timed(d, c), InCycle(d, c)
    PROVE  Timed(e, c) /\ InCycle(e, c)
<1> DEFINE g == d.gov[c]
           l == d.ledger[c]
           m == e.ledger[c]
           n == Len(g.stages)
           moves == Turns(g, l, time)
           last == LastStage(g, l)
<1>1. /\ e.gov[c] = g /\ Turned(g, l, m, time) /\ (Staged(e, c) <=> Staged(d, c))
      /\ g \in Govs /\ l \in Ledgers /\ m \in Ledgers
  BY Parts1 DEF AllTurned, Staged
<1>2. /\ l.stage \in Nat /\ l.cycleEnd \in Nat /\ l.stageEnd \in Nat \union {NoTime}
      /\ m.stage \in Nat /\ m.cycleEnd \in Nat /\ m.stageEnd \in Nat \union {NoTime}
  BY <1>1 DEF Ledgers
<1>3. CASE ~ moves
  <2>1. m = l
    BY <1>1, <1>3 DEF Turned
  <2> QED BY <1>1, <2>1 DEF Timed, InCycle, Staged
<1>4. CASE moves /\ g.type # "STAGED"
  <2>1. ~ Staged(e, c) /\ m.stageEnd = NoTime
    BY <1>1, <1>4 DEF Staged, Turned
  <2> QED BY <2>1 DEF Timed, InCycle
<1>5. CASE moves /\ g.type = "STAGED"
  <2>1. g # NoGov /\ Staged(d, c) /\ Staged(e, c) /\ l.stageEnd \in Nat /\ l.stage \in 0 .. n
    BY <1>1, <1>2, <1>5 DEF Turns, Staged, Timed
  <2>2. n \in Nat /\ n # 0 /\ g.period \in Nat \ {0} /\ NoTime \notin Nat
    BY <1>1, <1>5, <2>1, GovFacts, ProposalAssumption
  <2>3. CASE last
    <3>1. /\ m.stage = 1 /\ m.cycleEnd >= g.period
          /\ m.stageEnd = IF g.stages[1].length = 0 THEN m.cycleEnd
                          ELSE m.cycleEnd - g.period + g.stages[1].length
      BY <1>1, <1>5, <2>3 DEF Turned
    <3>2. 1 \in 1 .. n
      BY <2>2
    <3>3. g.stages[1].length \in Nat
      BY <1>1, <2>1, <3>2, LengthIn
    <3>4. LengthsTo(g, 1) = g.stages[1].length
      <4>1. /\ LengthsTo(g, 1) = LengthsTo(g, 1 - 1) + g.stages[1].length
        BY <1>1, <2>1, <3>2, LengthsStep
      <4>2. LengthsTo(g, 1 - 1) = 0
        <5>1. 1 .. (1 - 1) = {}
          OBVIOUS
        <5> QED BY <5>1, SumEmpty DEF LengthsTo
      <4> QED BY <3>3, <4>1, <4>2
    <3>5. m.stageEnd \in Nat
      BY <1>2, <2>2, <3>1, <3>3
    <3>6. Timed(e, c)
      <4>1. e.ledger[c].stageEnd # NoTime /\ e.ledger[c].stage \in 0 .. Len(e.gov[c].stages)
        BY <1>1, <2>2, <3>1, <3>5
      <4>2. e.gov[c].type # "CYCLE"
        BY <1>1, <1>5
      <4> QED BY <4>1, <4>2 DEF Timed
    <3> DEFINE len == g.stages[1].length
               to == LengthsTo(g, 1)
               q == g.period
    <3>7. len # 0 => m.stageEnd + q = m.cycleEnd + to
      <4>1. len # 0 => m.stageEnd = m.cycleEnd - q + len
        BY <3>1
      <4>2. len \in Nat /\ to = len /\ q \in Nat /\ m.cycleEnd \in Nat /\ m.stageEnd \in Nat
        BY <1>2, <2>2, <3>3, <3>4, <3>5
      <4> HIDE DEF len, to, q, m
      <4> QED BY <4>1, <4>2
    <3>8. InCycle(e, c)
      <4>1. /\ m.stage > 0
            /\ IF g.stages[m.stage].length = 0 THEN m.stageEnd = m.cycleEnd
               ELSE m.stageEnd + g.period = m.cycleEnd + LengthsTo(g, m.stage)
        BY <3>1, <3>7
      <4>2. e.gov[c] = g
        BY <1>1, Zenon
      <4> QED BY <4>1, <4>2 DEF InCycle
    <3> QED BY <3>6, <3>8
  <2>4. CASE ~ last
    <3>1. /\ m.stage = l.stage + 1 /\ m.ids = l.ids /\ m.cycleEnd = l.cycleEnd
          /\ m.stageEnd = IF g.stages[l.stage + 1].length = 0 THEN l.cycleEnd
                          ELSE l.stageEnd + g.stages[l.stage + 1].length
      BY <1>1, <1>5, <2>4 DEF Turned
    <3>2. l.stage < n /\ l.stage + 1 \in 1 .. n
      <4>1. ~ (l.stage >= n)
        BY <2>4 DEF LastStage
      <4>2. l.stage \in Nat /\ n \in Nat
        BY <1>2, <2>2
      <4> HIDE DEF l, n
      <4> QED BY <4>1, <4>2
    <3>3. g.stages[l.stage + 1].length \in Nat
      BY <1>1, <2>1, <3>2, LengthIn
    <3>4. m.stageEnd \in Nat
      <4> DEFINE len == g.stages[l.stage + 1].length
      <4>1. m.stageEnd = IF len = 0 THEN l.cycleEnd ELSE l.stageEnd + len
        BY <3>1
      <4>2. len \in Nat /\ l.stageEnd \in Nat /\ l.cycleEnd \in Nat
        BY <1>2, <2>1, <3>3
      <4> HIDE DEF len, l, m
      <4> QED BY <4>1, <4>2
    <3>5. m.stage \in 0 .. n
      BY <2>2, <3>1, <3>2
    <3>6. Timed(e, c)
      <4>1. e.ledger[c].stageEnd # NoTime /\ e.ledger[c].stage \in 0 .. Len(e.gov[c].stages)
        BY <1>1, <2>2, <3>4, <3>5
      <4>2. e.gov[c].type # "CYCLE"
        BY <1>1, <1>5
      <4> QED BY <4>1, <4>2 DEF Timed
    <3>7. ASSUME m.ids # {}
          PROVE  /\ m.stage > 0
                 /\ IF g.stages[m.stage].length = 0 THEN m.stageEnd = m.cycleEnd
                    ELSE m.stageEnd + g.period = m.cycleEnd + LengthsTo(g, m.stage)
      <4>1. /\ l.stage > 0
            /\ g.stages[l.stage].length # 0 =>
                  l.stageEnd + g.period = l.cycleEnd + LengthsTo(g, l.stage)
        BY <2>1, <3>1, <3>7 DEF InCycle
      <4>2. l.stage \in 1 .. n
        BY <1>2, <2>2, <3>2, <4>1
      <4>3. g.stages[l.stage].length # 0
        BY <1>1, <1>5, <2>1, <3>2, <4>2, StagesFill
      <4>4. l.stageEnd + g.period = l.cycleEnd + LengthsTo(g, l.stage)
        BY <4>1, <4>3
      <4>5. /\ LengthsTo(g, l.stage + 1) = LengthsTo(g, l.stage) + g.stages[l.stage + 1].length
            /\ LengthsTo(g, l.stage) \in Nat
        <5> DEFINE i == l.stage + 1
        <5>1. i - 1 = l.stage
          BY <1>2
        <5>2. i \in 1 .. n
          BY <3>2
        <5> HIDE DEF i
        <5>3. LengthsTo(g, i) = LengthsTo(g, i - 1) + g.stages[i].length /\ LengthsTo(g, i - 1) \in Nat
          <6>1. g \in Govs /\ g # NoGov
            BY <1>1, <2>1
          <6> HIDE DEF g
          <6>2. i \in 1 .. Len(g.stages)
            BY <5>2
          <6> QED BY <6>1, <6>2, LengthsStep
        <5> QED BY <5>1, <5>3 DEF i
      <4> HIDE DEF g, l, m, n, moves, last
      <4> DEFINE len == g.stages[l.stage + 1].length
                 to == LengthsTo(g, l.stage)
                 q == g.period
      <4>6. len # 0 => m.stageEnd + q = m.cycleEnd + (to + len)
        <5>1. /\ len # 0 => m.stageEnd = l.stageEnd + len
              /\ l.stageEnd + q = l.cycleEnd + to /\ m.cycleEnd = l.cycleEnd
          BY <3>1, <4>4
        <5>2. /\ len \in Nat /\ to \in Nat /\ q \in Nat /\ l.cycleEnd \in Nat /\ l.stageEnd \in Nat
              /\ m.stageEnd \in Nat
          BY <1>2, <2>1, <2>2, <3>3, <3>4, <4>5
        <5> HIDE DEF len, to, q
        <5> QED BY <5>1, <5>2
      <4>7. len = 0 => m.stageEnd = m.cycleEnd
        BY <3>1
      <4>8. LengthsTo(g, m.stage) = to + len /\ g.stages[m.stage].length = len /\ m.stage > 0
        <5>1. m.stage = l.stage + 1
          BY <3>1
        <5>2. l.stage \in Nat
          BY <1>2
        <5>3. LengthsTo(g, l.stage + 1) = to + len
          BY <4>5
        <5>4. g.stages[m.stage].length = len
          BY <5>1
        <5> HIDE DEF len, to
        <5>5. m.stage > 0
          BY <5>1, <5>2
        <5> QED BY <5>1, <5>3, <5>4, <5>5, Zenon
      <4> HIDE DEF len, to
      <4>9. CASE len = 0
        BY <4>7, <4>8, <4>9
      <4>10. CASE len # 0
        BY <4>6, <4>8, <4>10, Zenon
      <4> QED BY <4>9, <4>10, Zenon
    <3>8. InCycle(e, c)
      BY <1>1, <3>7 DEF InCycle
    <3> QED BY <3>6, <3>8
  <2> QED BY <2>3, <2>4
<1> QED BY <1>3, <1>4, <1>5

(* A stage whose ledger is in its cycle ends within it.                    *)
LEMMA EndsWithin ==
    ASSUME NEW d \in DB, NEW c \in Contract, Timed(d, c), InCycle(d, c),
           Staged(d, c), d.ledger[c].ids # {}
    PROVE  d.ledger[c].stageEnd <= d.ledger[c].cycleEnd
<1> DEFINE g == d.gov[c]
           l == d.ledger[c]
           n == Len(g.stages)
<1>1. g \in Govs /\ l \in Ledgers /\ g # NoGov /\ g.type = "STAGED"
  BY Parts1 DEF Staged
<1>2. /\ l.stage \in Nat /\ l.cycleEnd \in Nat /\ l.stageEnd \in Nat
      /\ l.stage \in 1 .. n /\ n \in Nat /\ g.period \in Nat
  <2>1. l.stage \in Nat /\ l.cycleEnd \in Nat /\ l.stageEnd \in Nat \union {NoTime}
    BY <1>1 DEF Ledgers
  <2>2. n \in Nat /\ g.period \in Nat
    BY <1>1, GovFacts
  <2>3. l.stageEnd # NoTime /\ l.stage \in 0 .. n /\ l.stage > 0
    BY DEF Timed, InCycle
  <2> QED BY <2>1, <2>2, <2>3
<1>3. CASE g.stages[l.stage].length = 0
  <2>1. l.stageEnd = l.cycleEnd
    BY <1>3 DEF InCycle
  <2> QED BY <1>2, <2>1
<1>4. CASE g.stages[l.stage].length # 0
  <2>1. l.stageEnd + g.period = l.cycleEnd + LengthsTo(g, l.stage)
    BY <1>4 DEF InCycle
  <2>2. LengthsTo(g, l.stage) <= LengthsTo(g, n) /\ LengthsTo(g, l.stage) \in Nat
    BY <1>1, <1>2, LengthsGrow, LengthsStep
  <2>3. LengthsTo(g, n) <= g.period
    BY <1>1, StagesFill
  <2>4. LengthsTo(g, n) \in Nat
    <3>1. n \in 1 .. n
      BY <1>2
    <3> QED BY <1>1, <3>1, LengthsStep
  <2> DEFINE a == l.stageEnd
             b == l.cycleEnd
             x == LengthsTo(g, l.stage)
             y == LengthsTo(g, n)
             q == g.period
  <2>5. /\ a \in Nat /\ b \in Nat /\ x \in Nat /\ y \in Nat /\ q \in Nat
        /\ a + q = b + x /\ x <= y /\ y <= q
    BY <1>2, <2>1, <2>2, <2>3, <2>4
  <2> HIDE DEF a, b, x, y, q
  <2>6. a <= b
    BY <2>5
  <2> QED BY <2>6 DEF a, b
<1> QED BY <1>3, <1>4
-----------------------------------------------------------------------------
(* Storing a block. *)

(* What storing a block does, from one part to the other.                  *)
LEMMA StoreFacts ==
    ASSUME IInv, StoreBlock
    PROVE  /\ block # NoBlock /\ block.time \in Times /\ Adjusted \in DB
           /\ AllTurned(Adjusted, stored', block.time)
           /\ \A c \in Contract : Timed(Adjusted, c) /\ InCycle(Adjusted, c)
           /\ block' = NoBlock /\ InBlock' = {} /\ Results' = {}
           /\ UNCHANGED <<waiting, purse, snapshot, clock, rare, executed, finals>>
           /\ \A p \in Proposal : p \in removed' <=>
                 \/ p \in removed
                 \/ \E u \in block.txns.update : p \in Removed(stored.ledger[u.contract])
           /\ \A p \in Proposal : p \notin overwritten' => Survives(p) /\ Live(p)
           /\ \A p \in Proposal : p \notin missed' =>
                 /\ p \notin missed
                 /\ \A c \in Contract :
                       (p \in Adjusted.ledger[c].ids
                          /\ Turns(Adjusted.gov[c], Adjusted.ledger[c], block.time)) =>
                       stored'.due.contracts # {}
<1> DEFINE d == Adjusted
           time == block.time
           e == update_staged_cycle(check_ledgers(d, time), time)
<1>1. /\ block # NoBlock /\ block' = NoBlock
      /\ UNCHANGED <<waiting, purse, snapshot, clock, rare, executed, finals>>
      /\ stored' = e
      /\ removed' = removed \union
             {p \in Proposal : \E u \in block.txns.update : p \in Removed(stored.ledger[u.contract])}
      /\ overwritten' = overwritten \union {t.id : t \in {x \in block.temp :
                             Batched(stored).proposals[x.id] # stored.proposals[x.id]}}
      /\ missed' = missed \union
             {p \in Proposal : \E c \in Contract :
                 /\ p \in d.ledger[c].ids /\ Turns(d.gov[c], d.ledger[c], time)
                 /\ check_ledgers(d, time).due.contracts = {}}
  BY DEF StoreBlock, Adjusted
<1>2. time \in Times
  BY <1>1 DEF IInv, InvTypes, Blocks
<1>3. \A c \in Contract : Timed(d, c) /\ InCycle(d, c)
  BY <1>1, MidTimed
<1>4. d \in DB
  BY <1>1, BatchLedgers, StepsOfBlock
<1> HIDE DEF d, time
<1>5. AllTurned(d, e, time) /\ check_ledgers(d, time).due = e.due
  BY <1>2, <1>3, <1>4, TurnStep DEF AllTurned
<1> HIDE DEF e
<1>6. InBlock' = {} /\ Results' = {}
  BY <1>1 DEF InBlock, Results
<1>7. ASSUME NEW p \in Proposal, p \notin overwritten' PROVE Survives(p) /\ Live(p)
  BY <1>1, <1>7 DEF Survives, Live
<1>8. ASSUME NEW p \in Proposal, p \notin missed'
      PROVE  /\ p \notin missed
             /\ \A c \in Contract : (p \in d.ledger[c].ids /\ Turns(d.gov[c], d.ledger[c], time)) =>
                   e.due.contracts # {}
  <2>1. p \notin missed
    BY <1>1, <1>8
  <2>2. ASSUME NEW c \in Contract, p \in d.ledger[c].ids, Turns(d.gov[c], d.ledger[c], time),
               e.due.contracts = {}
        PROVE  FALSE
    BY <1>1, <1>5, <1>8, <2>2
  <2> QED BY <2>1, <2>2
<1> QED BY <1>1, <1>2, <1>3, <1>4, <1>5, <1>6, <1>7, <1>8 DEF d, time

(* Types stay what they are.                                               *)
LEMMA StoreTypes ==
    ASSUME IInv, StoreBlock
    PROVE  InvTypes'
<1> DEFINE d == Adjusted
<1>1. /\ block # NoBlock /\ block.time \in Times /\ d \in DB /\ AllTurned(d, stored', block.time)
      /\ block' = NoBlock /\ InBlock' = {}
      /\ UNCHANGED <<waiting, purse, snapshot, clock, rare, executed, finals>>
  BY StoreFacts
<1>2. InvTypes
  BY DEF IInv
<1>3. stored' \in DB /\ stored'.gov = d.gov
  BY <1>1 DEF AllTurned
<1>4. \A c \in Contract : \/ d.gov[c] = stored.gov[c]
                          \/ d.gov[c] \in Checked
  BY <1>1, BatchLedgers DEF Ledgered, SameTimes
<1> HIDE DEF d
<1>5. \A c \in Contract : stored'.gov[c] \in LaterGov \union {FirstGov[c]}
  BY <1>2, <1>3, <1>4 DEF InvTypes, Checked
<1>6. ASSUME NEW t \in waiting'.proposals \union InBlock' PROVE stored'.gov[t.contract] # NoGov
  <2>1. t \in waiting.proposals
    BY <1>1, <1>6
  <2>2. stored.gov[t.contract] # NoGov /\ t.contract \in Contract
    BY <1>2, <2>1 DEF InvTypes, Txns, Asks
  <2>3. NoGov \notin Checked
    BY GovAssumption DEF Checked
  <2> QED BY <1>3, <1>4, <2>2, <2>3
<1>7. waiting' \in Txns /\ Bounded(waiting')
  BY <1>1, <1>2 DEF InvTypes
<1>8. /\ purse' \in [Proposal -> Nat] /\ snapshot' \in [Proposal -> Recs \union {NoProposal}]
      /\ clock' \in Times /\ rare' \in 0 .. MaxRare
      /\ executed' \in [Proposal -> Nat] /\ finals' \in [Proposal -> Nat]
  BY <1>1, <1>2 DEF InvTypes
<1> QED BY <1>1, <1>3, <1>5, <1>6, <1>7, <1>8 DEF InvTypes

(* What a block has made of a proposal that survives it.                   *)
LEMMA StoreFresh ==
    ASSUME IInv, StoreBlock, NEW p \in Proposal, p \notin overwritten'
    PROVE  Fresh(p)' /\ Remnant(p)' /\ Resulted(p)' /\ Ran(p)'
<1> DEFINE d == Adjusted
           e == stored'
           Dropped == \E u \in block.txns.update : p \in Removed(stored.ledger[u.contract])
<1>1. /\ block # NoBlock /\ block.time \in Times /\ d \in DB /\ AllTurned(d, e, block.time)
      /\ block' = NoBlock /\ InBlock' = {} /\ Results' = {}
      /\ UNCHANGED <<waiting, purse, snapshot, executed, finals>>
      /\ p \in removed' <=> p \in removed \/ Dropped
      /\ Survives(p) /\ Live(p)
  BY StoreFacts
<1>2. Fresh(p) /\ Remnant(p) /\ Resulted(p) /\ Ran(p)
  BY <1>1 DEF IInv, InvProposals
<1>3. /\ Stored(e, p) <=> Stored(d, p)
      /\ \A c \in Contract : (In(e, p, c) => In(d, p, c)) /\ (DueIn(e, p, c) => In(d, p, c))
      /\ Known(e, p) => Known(d, p)
      /\ e.govTxn = d.govTxn
  <2>1. Stored(e, p) <=> Stored(d, p)
    BY <1>1 DEF AllTurned
  <2>2. ASSUME NEW c \in Contract
        PROVE  /\ In(e, p, c) => In(d, p, c)
               /\ DueIn(e, p, c) => In(d, p, c)
               /\ Known(e, p) => Known(d, p)
    BY <1>1, TurnedIn DEF In
  <2>3. CASE Contract = {}
    <3>1. p \notin Opened(d, block.time)
      BY <2>3 DEF Opened
    <3>2. e.proposals[p] = d.proposals[p]
      BY <1>1, <3>1 DEF AllTurned
    <3> QED BY <1>1, <2>1, <2>3, <3>2 DEF AllTurned, Known
  <2>4. CASE Contract # {}
    BY <1>1, <2>1, <2>2, <2>4 DEF AllTurned
  <2> QED BY <2>3, <2>4
<1>4. \/ Carried(d, p)
      \/ \E t \in InBlock : t.id = p /\ Joined(d, t)
  BY <1>1, Either
<1>5. ASSUME ~ Stored(e, p), Known(e, p) \/ \E c \in Contract : DueIn(e, p, c)
      PROVE  Ended(p) \/ Dropped
  <2>1. Known(d, p) /\ ~ Stored(d, p)
    BY <1>3, <1>5 DEF Known
  <2>2. \A t \in InBlock : t.id # p
    BY <1>1, <2>1, BatchJoins DEF Joined
  <2> QED BY <1>1, <2>1, <2>2, BatchEmpties
<1> HIDE DEF d, e, Dropped
<1>6. ASSUME NEW t \in InBlock, t.id = p
      PROVE  purse[p] > 0 /\ finals[p] = 0 /\ ~ \E s \in waiting.proposals : s.id = p
  <2>1. Asked(p)
    BY <1>6 DEF Asked
  <2> QED BY <1>2, <1>6, <2>1 DEF Fresh
<1> DEFINE Bare == /\ e.proposals[p] = NoProposal /\ snapshot[p] = NoProposal /\ p \notin removed'
                   /\ \A c \in Contract : ~ In(e, p, c)
<1>7. ASSUME Untouched(p), finals[p] = 0, ~ \E t \in InBlock : t.id = p
      PROVE  Bare
  <2>1. Carried(d, p)
    BY <1>4, <1>7
  <2>2. ~ Stored(e, p) /\ \A c \in Contract : ~ In(e, p, c)
    BY <1>3, <1>7, <2>1 DEF Carried, Untouched, Stored, Genuine
  <2>3. ~ Dropped
    <3> SUFFICES ASSUME NEW u \in block.txns.update, p \in Removed(stored.ledger[u.contract])
                 PROVE  FALSE
      BY DEF Dropped
    <3>1. u.contract \in Contract
      BY <1>1 DEF IInv, InvTypes, Blocks, Txns, Updates
    <3>2. In(stored, p, u.contract)
      BY DEF In, Removed
    <3> QED BY <1>7, <3>1, <3>2 DEF Untouched
  <2>4. p \notin removed /\ ~ Ended(p)
    BY <1>7 DEF Untouched, Ended
  <2>5. e.proposals[p] = NoProposal
    BY <1>5, <2>2, <2>3, <2>4 DEF Known
  <2> QED BY <1>1, <1>7, <2>2, <2>3, <2>4, <2>5 DEF Untouched
<1>8. Bare => Untouched(p)'
  BY <1>1 DEF Untouched, e
<1> HIDE DEF Bare
<1>9. Fresh(p)'
  <2>1. ASSUME NEW s \in waiting.proposals, s.id = p
        PROVE  Bare /\ purse[p] > 0 /\ finals[p] = 0
    <3>1. Asked(p)
      BY <2>1 DEF Asked
    <3>2. Untouched(p) /\ purse[p] > 0 /\ finals[p] = 0
      BY <1>2, <3>1 DEF Fresh
    <3> QED BY <1>6, <1>7, <2>1, <3>2
  <2>2. ASSUME purse[p] = 0, finals[p] = 0
        PROVE  Bare
    <3>1. Untouched(p)
      BY <1>2, <2>2 DEF Fresh
    <3>2. ~ \E t \in InBlock : t.id = p
      BY <1>6, <2>2
    <3> QED BY <1>7, <2>2, <3>1, <3>2
  <2>3. \A s, t \in waiting.proposals : s.id = p /\ t.id = p => s = t
    BY <1>2 DEF Fresh
  <2>4. Asked(p)' => \E s \in waiting.proposals : s.id = p
    BY <1>1 DEF Asked
  <2> HIDE DEF Asked, Untouched
  <2> QED BY <1>1, <1>8, <2>1, <2>2, <2>3, <2>4 DEF Fresh
<1>10. Remnant(p)'
  <2>1. (Ended(p) \/ Dropped) => Ended(p)'
    BY <1>1 DEF Ended
  <2>2. (Known(e, p) \/ \E c \in Contract : DueIn(e, p, c)) => Stored(e, p) \/ Ended(p)'
    BY <1>5, <2>1
  <2>3. \A b, c \in Contract : In(d, p, b) /\ In(d, p, c) => b = c
    <3>1. CASE Carried(d, p)
      BY <1>2, <3>1 DEF Carried, Remnant, Near
    <3>2. CASE \E t \in InBlock : t.id = p /\ Joined(d, t)
      BY <3>2 DEF Joined, In
    <3> QED BY <1>4, <3>1, <3>2
  <2>4. \A b, c \in Contract : Near(e, p, b) /\ Near(e, p, c) => b = c
    BY <1>3, <2>3 DEF Near
  <2> QED BY <2>2, <2>4 DEF Remnant, e
<1>11. Stored(e, p) => finals[p] = 0
  <2> SUFFICES ASSUME Stored(e, p), finals[p] # 0 PROVE FALSE
    OBVIOUS
  <2>1. finals[p] \in Nat
    BY DEF IInv, InvTypes
  <2>2. Carried(d, p)
    BY <1>4, <1>6
  <2>3. Stored(stored, p) /\ \A r \in Results : r.id = p => ~ r.final
    BY <1>3, <2>2 DEF Carried
  <2> QED BY <1>2, <2>1, <2>3 DEF Resulted
<1>12. Resulted(p)'
  <2>1. ~ (Stored(e, p) /\ finals[p] > 0)
    <3>1. finals[p] \in Nat
      BY DEF IInv, InvTypes
    <3> QED BY <1>11, <3>1
  <2>2. ~ (Stored(stored, p)' /\ finals[p]' > 0)
    BY <1>1, <2>1 DEF e, Stored
  <2> QED BY <1>1, <2>2 DEF Resulted, CountedOnce
<1>13. Ran(p)'
  <2>1. p \in e.govTxn => executed[p] = 0
    <3>1. ASSUME p \in d.govTxn PROVE executed[p] = 0
      <4>1. Carried(d, p)
        BY <1>4, <3>1 DEF Joined
      <4>2. p \in stored.govTxn \/ Stored(stored, p)
        BY <3>1, <4>1 DEF Carried
      <4>3. executed[p] \in Nat
        BY DEF IInv, InvTypes
      <4> QED BY <1>2, <4>2, <4>3 DEF Ran
    <3> QED BY <1>3, <3>1
  <2>2. ASSUME executed[p] > 0 \/ p \in e.govTxn PROVE ~ Stored(e, p) /\ finals[p] > 0
    <3>1. CASE executed[p] > 0 \/ p \in stored.govTxn
      <4>1. ~ Stored(stored, p) /\ finals[p] > 0
        BY <1>2, <3>1 DEF Ran
      <4>2. Carried(d, p)
        BY <1>4, <1>6, <4>1
      <4> QED BY <1>3, <4>1, <4>2 DEF Carried
    <3>2. CASE p \in d.govTxn /\ p \notin stored.govTxn
      <4>1. Carried(d, p)
        BY <1>4, <3>2 DEF Joined
      <4>2. PICK r \in Results : r.id = p /\ r.final
        BY <3>2, <4>1 DEF Carried
      <4>3. finals[p] > 0
        BY <1>2, <4>2 DEF Resulted
      <4>4. ~ Stored(d, p)
        BY <4>1, <4>2 DEF Carried
      <4> QED BY <1>3, <4>3, <4>4
    <3> QED BY <1>3, <2>2, <3>1, <3>2
  <2>3. executed[p] <= 1
    BY <1>2 DEF Ran
  <2> QED BY <1>1, <2>1, <2>2, <2>3 DEF Ran, e
<1> QED BY <1>9, <1>10, <1>12, <1>13

(* Storing a block keeps what relates a proposal to the ledgers.           *)
LEMMA StorePlaced ==
    ASSUME IInv, StoreBlock, NEW p \in Proposal, p \notin overwritten', NEW c \in Contract
    PROVE  /\ Placed(stored', p, c) /\ DuePlaced(stored', p, c) /\ Paid(p, c)'
           /\ p \notin missed' => InStep(p, c)'
<1> DEFINE d == Adjusted
           e == stored'
           time == block.time
<1>1. /\ block # NoBlock /\ time \in Times /\ d \in DB /\ AllTurned(d, e, time)
      /\ \A k \in Contract : Timed(d, k)
      /\ block' = NoBlock /\ Results' = {}
      /\ UNCHANGED <<purse, finals>>
      /\ Survives(p)
      /\ p \notin missed' =>
            /\ p \notin missed
            /\ (p \in d.ledger[c].ids /\ Turns(d.gov[c], d.ledger[c], time)) =>
                  e.due.contracts # {}
  BY StoreFacts
<1>2. \A k \in Contract : Placed(d, p, k)
  BY <1>1, MidPlaced
<1>3. finals[p] = 0 => ((Stored(d, p) /\ In(d, p, c) /\ Staged(d, c)) =>
          LET r == d.proposals[p] IN
          r.fee * Len(d.gov[c].stages) <= purse[p] + r.fee * PaidBefore(r.stage))
  BY <1>1, MidPaid
<1>4. p \notin missed => ((p \in d.ledger[c].ids /\ Staged(d, c) /\ Stored(d, p)) =>
          d.proposals[p].stage = d.ledger[c].stage)
  BY <1>1, MidInStep
<1> HIDE DEF d, time, e
<1>5. Placed(e, p, c) /\ DuePlaced(e, p, c)
  BY <1>1, <1>2, TurnPlaced
<1>6. Paid(p, c)'
  <2>1. ASSUME Stored(e, p), finals[p] = 0, Staged(e, c), In(e, p, c) \/ DueIn(e, p, c)
        PROVE  LET r == e.proposals[p] IN
               r.fee * Len(e.gov[c].stages) <= purse[p] + r.fee * PaidBefore(r.stage)
    BY <1>1, <1>2, <1>3, <2>1, TurnPaid
  <2>2. ~ Counting(p)'
    BY <1>1 DEF Counting
  <2>3. ASSUME Stored(e, p)
        PROVE  PaidBefore(e.proposals[p].stage) + 0 = PaidBefore(e.proposals[p].stage)
    <3>1. e.proposals[p] \in Recs
      BY <1>1, <2>3, RecordOf DEF AllTurned
    <3> QED BY <3>1 DEF Recs, PaidBefore
  <2> QED BY <1>1, <2>1, <2>2, <2>3 DEF Paid, e
<1>7. ASSUME p \notin missed' PROVE InStep(p, c)'
  <2>1. ASSUME Stored(e, p)
        PROVE  /\ (p \in e.ledger[c].ids /\ Staged(e, c)) =>
                     e.proposals[p].stage + (IF \E x \in e.due.contracts : p \in x.ids THEN 1 ELSE 0)
                        = e.ledger[c].stage
               /\ (DueIn(e, p, c) /\ p \notin e.ledger[c].ids) => Ending(e, p, c)
    BY <1>1, <1>2, <1>4, <1>7, <2>1, TurnInStep
  <2> QED BY <2>1 DEF InStep, Due, e
<1> QED BY <1>5, <1>6, <1>7 DEF e

(* Storing a block keeps the invariant.                                    *)
LEMMA StoreInv ==
    ASSUME IInv, StoreBlock
    PROVE  IInv'
<1> DEFINE d == Adjusted
           e == stored'
<1>1. /\ block # NoBlock /\ block.time \in Times /\ d \in DB /\ AllTurned(d, e, block.time)
      /\ \A c \in Contract : Timed(d, c) /\ InCycle(d, c)
      /\ block' = NoBlock /\ UNCHANGED <<purse, finals>>
  BY StoreFacts
<1>2. InvTypes'
  BY StoreTypes
<1>3. InvDue'
  <2>1. e.due.ids = {} \/ e.due.contracts = {}
    BY <1>1 DEF AllTurned
  <2> QED BY <2>1 DEF InvDue
<1>4. InvTemp'
  BY <1>1 DEF InvTemp
<1>5. InvLedgers'
  <2>1. \A c \in Contract : Timed(e, c) /\ InCycle(e, c)
    BY <1>1, TurnTimed
  <2> QED BY <2>1 DEF InvLedgers
<1>6. SpentAtEnd'
  BY <1>1 DEF IInv, SpentAtEnd
<1>7. InvProposals'
  <2>1. ASSUME NEW p \in Proposal, Live(p)'
        PROVE  /\ Fresh(p)' /\ Remnant(p)' /\ Resulted(p)' /\ Ran(p)'
               /\ \A c \in Contract : /\ Placed(e, p, c) /\ DuePlaced(e, p, c) /\ Paid(p, c)'
                                      /\ p \notin missed' => InStep(p, c)'
    <3>1. p \notin overwritten'
      BY <2>1 DEF Live
    <3> QED BY <3>1, StoreFresh, StorePlaced
  <2> QED BY <2>1 DEF InvProposals
<1> QED BY <1>2, <1>3, <1>4, <1>5, <1>6, <1>7 DEF IInv
-----------------------------------------------------------------------------
(* The initial state, and transactions coming in. *)

(* The invariant holds at the beginning.                                   *)
LEMMA InitInv ==
    ASSUME Init
    PROVE  IInv
<1>1. /\ stored.gov = FirstGov /\ stored.proposals = [p \in Proposal |-> NoProposal]
      /\ stored.adaptive = [p \in Proposal |-> NoTime]
      /\ stored.ledger = [c \in Contract |->
            IF ByLedger(FirstGov[c]) THEN make_staged_cycle_ledger(FirstGov[c], FirstGov[c].start)
                                     ELSE NoLedger]
      /\ stored.due = NothingDue /\ stored.govTxn = {}
      /\ stored = [gov |-> stored.gov, proposals |-> stored.proposals,
                   adaptive |-> stored.adaptive, ledger |-> stored.ledger,
                   due |-> stored.due, govTxn |-> stored.govTxn]
  BY DEF Init
<1>2. /\ waiting = NoTxns /\ block = NoBlock /\ purse = [p \in Proposal |-> 0]
      /\ snapshot = [p \in Proposal |-> NoProposal] /\ clock = StartTime /\ rare = 0
      /\ executed = [p \in Proposal |-> 0] /\ finals = [p \in Proposal |-> 0]
      /\ missed = {} /\ overwritten = {} /\ removed = {} /\ InBlock = {} /\ Results = {}
  BY DEF Init, InBlock, Results
<1>3. FirstGov \in [Contract -> Govs]
  BY GovAssumption DEF Govs
<1>4. ASSUME NEW c \in Contract
      PROVE  /\ stored.ledger[c] \in Ledgers
             /\ stored.ledger[c].ids = {} /\ stored.ledger[c].pending = {}
             /\ Timed(stored, c)
  <2> DEFINE g == FirstGov[c]
             l == stored.ledger[c]
  <2>1. g \in Govs /\ stored.gov[c] = g
    BY <1>1, <1>3
  <2>2. l = IF ByLedger(g) THEN make_staged_cycle_ledger(g, g.start) ELSE NoLedger
    BY <1>1
  <2> HIDE DEF g, l
  <2>3. CASE ByLedger(g)
    <3>1. g # NoGov
      BY <2>3 DEF ByLedger
    <3>2. /\ l \in Ledgers /\ l.stage = 0 /\ l.ids = {} /\ l.pending = {}
          /\ g.type = "STAGED" => l.stageEnd \in Nat
          /\ g.type = "CYCLE" => l.stageEnd = NoTime
      BY <2>1, <2>2, <2>3, <3>1, NewLedger
    <3>3. Len(g.stages) \in Nat
      BY <2>1, <3>1, GovFacts
    <3>4. Timed(stored, c)
      BY <2>1, <3>2, <3>3, ProposalAssumption DEF Timed, Staged, l
    <3> QED BY <3>2, <3>4 DEF l
  <2>4. CASE ~ ByLedger(g)
    <3>1. l = NoLedger
      BY <2>2, <2>4
    <3>2. l \in Ledgers /\ l.ids = {} /\ l.pending = {}
      BY <3>1 DEF NoLedger, Ledgers
    <3>3. Timed(stored, c)
      BY <2>1, <2>4 DEF Timed, Staged, ByLedger
    <3> QED BY <3>2, <3>3 DEF l
  <2> QED BY <2>3, <2>4
<1>5. stored \in DB
  <2>1. stored.ledger \in [Contract -> Ledgers]
    BY <1>1, <1>4
  <2>2. stored.due \in Dues
    BY <1>1 DEF NothingDue, Dues
  <2>3. /\ stored.gov \in [Contract -> Govs]
        /\ stored.proposals \in [Proposal -> Kept]
        /\ stored.adaptive \in [Proposal -> Nat \union {NoTime}]
        /\ stored.govTxn \in SUBSET Proposal
    BY <1>1, <1>3 DEF Kept
  <2> QED BY <1>1, <2>1, <2>2, <2>3, Whole
<1>6. InvTypes
  <2>1. waiting \in Txns /\ Bounded(waiting) /\ waiting.proposals = {}
    BY <1>2, FS_EmptySet DEF NoTxns, Txns, Bounded
  <2>2. StartTime \in Times /\ 0 \in 0 .. MaxRare
    BY GovAssumption DEF Times
  <2>3. \A c \in Contract : stored.gov[c] \in LaterGov \union {FirstGov[c]}
    BY <1>1
  <2> QED BY <1>2, <1>5, <2>1, <2>2, <2>3 DEF InvTypes
<1>7. \A p \in Proposal :
         /\ stored.proposals[p] = NoProposal /\ ~ Stored(stored, p)
         /\ \A c \in Contract : ~ In(stored, p, c) /\ ~ DueIn(stored, p, c)
  <2>1. stored.due.contracts = {}
    BY <1>1 DEF NothingDue
  <2>2. \A p \in Proposal : stored.proposals[p] = NoProposal /\ ~ Stored(stored, p)
    BY <1>1 DEF Stored, Genuine
  <2>3. \A p \in Proposal, c \in Contract : ~ In(stored, p, c)
    BY <1>4 DEF In
  <2>4. \A p \in Proposal, c \in Contract : ~ DueIn(stored, p, c)
    BY <2>1 DEF DueIn
  <2> QED BY <2>2, <2>3, <2>4
<1>8. ASSUME NEW p \in Proposal
      PROVE  /\ Fresh(p) /\ Remnant(p) /\ Resulted(p) /\ Ran(p)
             /\ \A c \in Contract : Placed(stored, p, c) /\ DuePlaced(stored, p, c)
                                    /\ Paid(p, c) /\ InStep(p, c)
  <2>1. Fresh(p)
    BY <1>2, <1>7 DEF Fresh, Asked, Untouched, NoTxns
  <2>2. Resulted(p)
    BY <1>2, <1>7 DEF Resulted, CountedOnce
  <2>3. Ran(p)
    BY <1>1, <1>2, <1>7 DEF Ran
  <2>4. \A c \in Contract : Placed(stored, p, c) /\ DuePlaced(stored, p, c)
    BY <1>7 DEF Placed, DuePlaced
  <2>5. \A c \in Contract : Paid(p, c) /\ InStep(p, c)
    BY <1>7 DEF Paid, InStep
  <2>6. Remnant(p)
    BY <1>7 DEF Remnant, Known, Near
  <2> QED BY <2>1, <2>2, <2>3, <2>4, <2>5, <2>6
<1>9. InvDue /\ InvTemp /\ SpentAtEnd
  BY <1>1, <1>2 DEF InvDue, InvTemp, SpentAtEnd, NothingDue
<1>10. InvLedgers
  BY <1>4 DEF InvLedgers, InCycle
<1> QED BY <1>6, <1>8, <1>9, <1>10 DEF IInv, InvProposals

(* Pre-processing leaves databases and results alone.                      *)
LEMMA FrontKeeps ==
    ASSUME IInv, UNCHANGED <<stored, block, executed, finals, missed, overwritten, removed>>,
           InvTypes',
           \A p \in Proposal : Live(p) => Fresh(p)',
           \A p \in Proposal : purse'[p] = purse[p] \/ (~ Stored(stored, p) /\ finals[p] = 0)
    PROVE  IInv'
<1>1. InvDue' /\ InvTemp' /\ InvLedgers'
  <2>1. InvDue /\ InvTemp /\ InvLedgers
    BY DEF IInv
  <2> QED BY <2>1 DEF InvDue, InvTemp, InvLedgers
<1>2. Results' = Results /\ InBlock' = InBlock
  BY DEF Results, InBlock
<1>3. SpentAtEnd'
  BY DEF IInv, SpentAtEnd
<1>4. ASSUME NEW p \in Proposal, Live(p)'
      PROVE  /\ Fresh(p)' /\ Remnant(p)' /\ Resulted(p)' /\ Ran(p)'
             /\ \A c \in Contract : /\ Placed(stored', p, c) /\ DuePlaced(stored', p, c) /\ Paid(p, c)'
                                    /\ p \notin missed' => InStep(p, c)'
  <2>1. /\ Live(p) /\ Remnant(p) /\ Resulted(p) /\ Ran(p)
        /\ \A c \in Contract : /\ Placed(stored, p, c) /\ DuePlaced(stored, p, c) /\ Paid(p, c)
                               /\ p \notin missed => InStep(p, c)
    BY <1>4 DEF IInv, InvProposals, Live
  <2>2. Fresh(p)'
    BY <2>1
  <2>3. Resulted(p)'
    <3>1. Counting(p)' <=> Counting(p)
      BY <1>2 DEF Counting
    <3> QED BY <1>2, <2>1, <3>1 DEF Resulted, Ended
  <2>4. Ran(p)'
    BY <2>1 DEF Ran
  <2>5. ASSUME NEW c \in Contract PROVE Paid(p, c)'
    <3>1. Counting(p)' <=> Counting(p)
      BY <1>2 DEF Counting
    <3>2. Stored(stored, p) /\ finals[p] = 0 => Paid(p, c) /\ (purse'[p] = purse[p] \/ ~ Stored(stored, p))
      BY <2>1
    <3> QED BY <2>1, <3>1, <3>2 DEF Paid
  <2>6. ASSUME NEW c \in Contract, p \notin missed' PROVE InStep(p, c)'
    <3>1. InStep(p, c)
      BY <2>1, <2>6
    <3> QED BY <3>1 DEF InStep, Due
  <2>7. Remnant(p)'
    BY <2>1 DEF Remnant, Ended
  <2> QED BY <2>1, <2>2, <2>3, <2>4, <2>5, <2>6, <2>7
<1>5. InvProposals'
  BY <1>4 DEF InvProposals
<1> QED BY <1>1, <1>3, <1>5 DEF IInv

(* Most of a proposal's fee is kept.                                       *)
LEMMA RemainderIn ==
    ASSUME NEW p \in Proposal, NEW g \in Govs
    PROVE  Remainder(p, g) \in Nat /\ Remainder(p, g) > 0
<1> DEFINE n == Parts(g)
           f == Fee[p]
<1>1. f \in Nat \ {0}
  BY ProposalAssumption
<1>2. n \in Nat /\ n >= 2
  <2>1. CASE g # NoGov /\ g.stages # <<>>
    <3>1. Len(g.stages) \in Nat /\ g.stages \in Seq([length : Nat])
      BY <2>1, GovFacts
    <3>2. Len(g.stages) # 0
      BY <2>1, <3>1
    <3> QED BY <2>1, <3>1, <3>2 DEF Parts
  <2>2. CASE ~ (g # NoGov /\ g.stages # <<>>)
    BY <2>2 DEF Parts
  <2> QED BY <2>1, <2>2
<1>3. Remainder(p, g) = f - f \div n
  BY DEF Remainder
<1> HIDE DEF f, n
<1>4. f \div n \in Nat /\ (f \div n) * n <= f
  BY <1>1, <1>2, DivTimes
<1> DEFINE q == f \div n
<1>5. q \in Nat /\ q * n <= f
  BY <1>4
<1> HIDE DEF q
<1>6. q * 2 <= q * n
  BY <1>2, <1>5
<1>7. q * n \in Nat
  BY <1>2, <1>5
<1>8. q < f
  BY <1>1, <1>5, <1>6, <1>7
<1> QED BY <1>1, <1>3, <1>5, <1>8 DEF q

(* Making a proposal keeps the invariant: its purse is filled before       *)
(* anything else is known of it.                                           *)
LEMMA ProposeInv ==
    ASSUME IInv, NEW p \in Proposal, NEW c \in Contract, NEW w \in Windows,
           Propose(p, c, w[1], w[2])
    PROVE  IInv'
<1> DEFINE t == [id |-> p, contract |-> c, start |-> w[1], end |-> w[2]]
           n == Remainder(p, stored.gov[c])
<1>1. /\ finals[p] = 0 /\ stored.proposals[p] = NoProposal /\ ~ Made(p)
      /\ purse' = [purse EXCEPT ![p] = n]
      /\ waiting' = IF check_parameters_prop(c, w[1], w[2])
                    THEN [waiting EXCEPT !.proposals = waiting.proposals \union {t}] ELSE waiting
      /\ UNCHANGED <<stored, block, snapshot, clock, rare, executed, finals, missed, overwritten,
                     removed>>
  BY DEF Propose
<1>2. InvTypes
  BY DEF IInv
<1>3. n \in Nat /\ n > 0
  <2>1. stored.gov[c] \in Govs
    BY <1>2, Parts1 DEF InvTypes
  <2> QED BY <2>1, RemainderIn
<1>4. t \in Asks
  <2>1. w[1] \in Nat /\ w[2] \in Nat
    BY ProposalAssumption
  <2> QED BY <2>1 DEF Asks
<1> HIDE DEF n
<1>5. InBlock' = InBlock /\ Results' = Results
  BY <1>1 DEF InBlock, Results
<1>6. /\ waiting' \in Txns /\ Bounded(waiting')
      /\ waiting'.proposals \subseteq waiting.proposals \union {t}
      /\ waiting'.proposals # waiting.proposals => stored.gov[c] # NoGov
  <2>1. waiting \in Txns /\ Bounded(waiting)
    BY <1>2 DEF InvTypes
  <2>2. CASE check_parameters_prop(c, w[1], w[2])
    <3> HIDE DEF t
    <3>1. waiting' = [update |-> waiting.update, proposals |-> waiting.proposals \union {t},
                      votes |-> waiting.votes, fast |-> waiting.fast]
      BY <1>1, <2>1, <2>2 DEF Txns
    <3>2. waiting' \in Txns
      BY <1>4, <2>1, <3>1 DEF Txns
    <3>3. Bounded(waiting')
      BY <2>1, <3>1, FS_AddElement DEF Bounded
    <3>4. stored.gov[c] # NoGov
      BY <2>2 DEF check_parameters_prop
    <3> QED BY <3>1, <3>2, <3>3, <3>4
  <2>3. CASE ~ check_parameters_prop(c, w[1], w[2])
    BY <1>1, <2>1, <2>3
  <2> QED BY <2>2, <2>3
<1>7. InvTypes'
  <2>1. purse' \in [Proposal -> Nat]
    BY <1>1, <1>2, <1>3 DEF InvTypes
  <2>2. \A u \in waiting'.proposals \union InBlock' : stored'.gov[u.contract] # NoGov
    <3> SUFFICES ASSUME NEW u \in waiting'.proposals \union InBlock' PROVE stored.gov[u.contract] # NoGov
      BY <1>1
    <3>1. CASE u \in waiting.proposals \union InBlock
      BY <1>2, <3>1 DEF InvTypes
    <3>2. CASE u \notin waiting.proposals \union InBlock
      <4>1. u = t /\ waiting'.proposals # waiting.proposals
        BY <1>5, <1>6, <3>2
      <4> QED BY <1>6, <4>1
    <3> QED BY <3>1, <3>2
  <2> QED BY <1>1, <1>2, <1>6, <2>1, <2>2 DEF InvTypes, Blocks, Bounded
<1>8. ASSUME NEW q \in Proposal PROVE purse'[q] = IF q = p THEN n ELSE purse[q]
  BY <1>1, <1>2 DEF InvTypes
<1>9. ASSUME NEW q \in Proposal, Live(q) PROVE Fresh(q)'
  <2>1. Fresh(q)
    BY <1>9 DEF IInv, InvProposals
  <2>2. Untouched(q)' <=> Untouched(q)
    BY <1>1, <1>5 DEF Untouched
  <2>3. CASE q # p
    <3>1. t.id # q /\ purse'[q] = purse[q]
      BY <1>8, <2>3
    <3>2. \A s \in waiting'.proposals : s.id = q => s \in waiting.proposals
      BY <1>6, <3>1
    <3>3. Asked(q)' => Asked(q)
      BY <1>5, <3>2 DEF Asked
    <3> HIDE DEF Asked, Untouched
    <3> QED BY <1>1, <1>5, <2>1, <2>2, <3>1, <3>2, <3>3 DEF Fresh
  <2>4. CASE q = p
    <3>1. purse[p] = 0 /\ \A s \in waiting.proposals : s.id # p
      BY <1>1 DEF Made
    <3>2. Untouched(p)
      BY <1>1, <2>1, <2>4, <3>1 DEF Fresh
    <3>3. purse'[p] = n
      BY <1>8
    <3>4. \A s \in InBlock : s.id # p
      BY <2>1, <2>4, <3>1 DEF Fresh, Asked
    <3>5. \A s \in waiting'.proposals : s.id = p => s = t
      BY <1>6, <3>1
    <3> HIDE DEF Asked, Untouched
    <3> QED BY <1>1, <1>3, <1>5, <2>2, <2>4, <3>2, <3>3, <3>4, <3>5 DEF Fresh
  <2> QED BY <2>3, <2>4
<1>10. ASSUME NEW q \in Proposal
       PROVE  purse'[q] = purse[q] \/ (~ Stored(stored, q) /\ finals[q] = 0)
  BY <1>1, <1>8 DEF Stored, Genuine
<1> QED BY <1>1, <1>7, <1>9, <1>10, FrontKeeps

(* Votes, requests for fast quorum and updates ask for no proposal.        *)
LEMMA OthersFresh ==
    ASSUME IInv, UNCHANGED <<stored, block, purse, finals, overwritten, removed>>,
           waiting'.proposals = waiting.proposals,
           \A p \in Proposal : snapshot'[p] = snapshot[p] \/ Stored(stored, p)
    PROVE  \A p \in Proposal : Live(p) => Fresh(p)'
<1> SUFFICES ASSUME NEW p \in Proposal, Live(p) PROVE Fresh(p)'
  OBVIOUS
<1>1. Fresh(p)
  BY DEF IInv, InvProposals
<1>2. InBlock' = InBlock /\ Results' = Results
  BY DEF InBlock, Results
<1>3. Asked(p)' <=> Asked(p)
  BY <1>2 DEF Asked
<1>4. Untouched(p) => Untouched(p)'
  BY <1>2 DEF Untouched, Stored, Genuine
<1> HIDE DEF Asked, Untouched
<1> QED BY <1>1, <1>2, <1>3, <1>4 DEF Fresh

(* So does a vote,                                                         *)
LEMMA CastVoteInv ==
    ASSUME IInv, NEW p \in Proposal, NEW v \in VoteCounts, CastVote(p, v)
    PROVE  IInv'
<1> DEFINE t == [id |-> p, votes |-> v]
<1>1. /\ waiting' = [waiting EXCEPT !.votes = waiting.votes \union {t}]
      /\ UNCHANGED <<stored, block, purse, snapshot, clock, rare, executed, finals, missed,
                     overwritten, removed>>
  BY DEF CastVote
<1>2. InvTypes /\ waiting \in Txns /\ Bounded(waiting)
  BY DEF IInv, InvTypes
<1>3. t \in Ballots
  BY DEF Ballots
<1> HIDE DEF t
<1>4. waiting' = [update |-> waiting.update, proposals |-> waiting.proposals,
                  votes |-> waiting.votes \union {t}, fast |-> waiting.fast]
  BY <1>1, <1>2 DEF Txns
<1>5. waiting' \in Txns /\ Bounded(waiting')
  BY <1>2, <1>3, <1>4, FS_AddElement DEF Txns, Bounded
<1>6. InBlock' = InBlock /\ waiting'.proposals = waiting.proposals
  BY <1>1, <1>4 DEF InBlock
<1>7. InvTypes'
  BY <1>1, <1>2, <1>5, <1>6 DEF InvTypes, Blocks, Bounded
<1> QED BY <1>1, <1>6, <1>7, OthersFresh, FrontKeeps

(* asking for fast quorum,                                                 *)
LEMMA AskFastQuorumInv ==
    ASSUME IInv, NEW p \in Proposal, AskFastQuorum(p)
    PROVE  IInv'
<1> DEFINE r == Latest(p)
<1>1. /\ Genuine(r) /\ snapshot' = [snapshot EXCEPT ![p] = r]
      /\ waiting' = [waiting EXCEPT !.fast = TRUE]
      /\ UNCHANGED <<stored, block, purse, clock, rare, executed, finals, missed, overwritten,
                     removed>>
  BY DEF AskFastQuorum
<1>2. InvTypes /\ waiting \in Txns /\ Bounded(waiting) /\ stored \in DB
      /\ snapshot \in [Proposal -> Recs \union {NoProposal}]
  BY DEF IInv, InvTypes
<1>3. waiting' = [update |-> waiting.update, proposals |-> waiting.proposals,
                  votes |-> waiting.votes, fast |-> TRUE]
  BY <1>1, <1>2 DEF Txns
<1>4. waiting' \in Txns /\ Bounded(waiting')
  BY <1>2, <1>3 DEF Txns, Bounded
<1>5. InBlock' = InBlock /\ waiting'.proposals = waiting.proposals
  BY <1>1, <1>3 DEF InBlock
<1>6. r \in Recs /\ Stored(stored, p)
  <2>1. CASE TempOf(p) = {}
    <3>1. r = stored.proposals[p]
      BY <2>1 DEF Latest
    <3>2. Stored(stored, p)
      BY <1>1, <3>1 DEF Stored
    <3> QED BY <1>2, <3>1, <3>2, RecordOf
  <2>2. CASE TempOf(p) # {}
    <3>1. PICK t \in TempOf(p) : r = t.record
      BY <2>2 DEF Latest
    <3>2. block # NoBlock /\ t \in block.temp /\ t.id = p
      BY <3>1 DEF TempOf
    <3>3. t \in Copies
      BY <1>2, <3>2 DEF InvTypes, Blocks
    <3>4. Stored(stored, p)
      BY <3>2 DEF IInv, InvTemp
    <3> QED BY <3>1, <3>3, <3>4 DEF Copies
  <2> QED BY <2>1, <2>2
<1> HIDE DEF r
<1>7. snapshot' \in [Proposal -> Recs \union {NoProposal}]
  BY <1>1, <1>2, <1>6
<1>8. InvTypes'
  BY <1>1, <1>2, <1>4, <1>5, <1>7 DEF InvTypes, Blocks, Bounded
<1>9. \A q \in Proposal : snapshot'[q] = snapshot[q] \/ Stored(stored, q)
  BY <1>1, <1>2, <1>6
<1> QED BY <1>1, <1>5, <1>8, <1>9, OthersFresh, FrontKeeps

(* and an update of a governance.                                          *)
LEMMA UpdateGovernanceInv ==
    ASSUME IInv, NEW c \in Contract, NEW g \in LaterGov, UpdateGovernance(c, g)
    PROVE  IInv'
<1> DEFINE u == [contract |-> c, gov |-> g]
<1>1. /\ check_governance(g) /\ rare < MaxRare /\ rare' = rare + 1
      /\ waiting' = [waiting EXCEPT !.update = {u}]
      /\ UNCHANGED <<stored, block, purse, snapshot, clock, executed, finals, missed, overwritten,
                     removed>>
  BY DEF UpdateGovernance
<1>2. InvTypes /\ waiting \in Txns /\ Bounded(waiting)
  BY DEF IInv, InvTypes
<1>3. u \in Updates
  BY <1>1 DEF Updates, Checked
<1> HIDE DEF u
<1>4. waiting' = [update |-> {u}, proposals |-> waiting.proposals,
                  votes |-> waiting.votes, fast |-> waiting.fast]
  BY <1>1, <1>2 DEF Txns
<1>5. waiting' \in Txns /\ Bounded(waiting')
  BY <1>2, <1>3, <1>4 DEF Txns, Bounded
<1>6. InBlock' = InBlock /\ waiting'.proposals = waiting.proposals
  BY <1>1, <1>4 DEF InBlock
<1>7. rare' \in 0 .. MaxRare
  BY <1>1, <1>2, GovAssumption DEF InvTypes
<1>8. InvTypes'
  BY <1>1, <1>2, <1>5, <1>6, <1>7 DEF InvTypes, Blocks, Bounded
<1> QED BY <1>1, <1>6, <1>8, OthersFresh, FrontKeeps
-----------------------------------------------------------------------------
(* Making a block. *)

(* The values of a function on a finite set.                               *)
LEMMA FiniteImage ==
    ASSUME NEW S, IsFiniteSet(S), NEW f
    PROVE  IsFiniteSet({f[x] : x \in S})
<1> DEFINE T == {f[x] : x \in S}
           g == [x \in S |-> f[x]]
<1>1. g \in Surjection(S, T)
  BY DEF Surjection
<1> HIDE DEF g, T
<1>2. IsFiniteSet(T)
  BY <1>1, FS_Surjection
<1> QED BY <1>2 DEF T

(* Where the results of a block come from.                                 *)
Counts(r) ==
    /\ ~ r.fast /\ stored.proposals[r.id] # NoProposal
    /\ ~ Stored(stored, r.id) => ~ r.final /\ ~ r.funded
    /\ Stored(stored, r.id) =>
          (r.funded <=> (Taken(r.id, stored.proposals[r.id], r.final) <= purse[r.id]))
    /\ \/ /\ r.id \in stored.due.ids /\ r.final
          /\ r = process_staggered_adaptive(r.id)
          /\ r.contract = stored.proposals[r.id].contract
       \/ /\ DueIn(stored, r.id, r.contract)
          /\ r = process_staged_cycle(r.id, r.contract)
          /\ Stored(stored, r.id) =>
                r.final = (stored.gov[r.contract].type = "STAGED" =>
                             stored.proposals[r.id].stage >= Len(stored.gov[r.contract].stages))
Hastens(r) ==
    r.fast /\ r.final = r.passed /\ r.funded /\ snapshot[r.id] # NoProposal

NewResults == process_ledgers(stored.due) \union FastResults

(* A proposal passes or not.                                               *)
LEMMA PassedIn ==
    ASSUME NEW g, NEW v, NEW f
    PROVE  calc(g, FALSE, v, f) \in BOOLEAN
BY DEF calc, calculate_passed, HasSupply, Reached

(* A result has the fields of one.                                         *)
LEMMA ResultIn ==
    ASSUME NEW p \in Proposal, NEW r \in Recs \union Empties, NEW c \in Contract, NEW g,
           NEW n \in BOOLEAN, NEW f \in BOOLEAN
    PROVE  /\ Result(p, r, c, g, n, f) \in Outcomes
           /\ Result(p, r, c, g, n, f).id = p /\ Result(p, r, c, g, n, f).contract = c
           /\ Result(p, r, c, g, n, f).final = n /\ Result(p, r, c, g, n, f).fast = f
           /\ Result(p, r, c, g, n, f).funded <=> (Genuine(r) /\ Taken(p, r, n) <= purse[p])
<1> DEFINE a == calc(g, FALSE, r.votes, f)
           b == (Genuine(r) /\ Taken(p, r, n) <= purse[p])
<1>1. a \in BOOLEAN
  BY PassedIn
<1>2. b \in BOOLEAN
  OBVIOUS
<1>3. Result(p, r, c, g, n, f) = [id |-> p, contract |-> c, final |-> n, fast |-> f,
                                  passed |-> a, funded |-> b]
  BY DEF Result
<1> HIDE DEF a, b
<1>4. [id |-> p, contract |-> c, final |-> n, fast |-> f, passed |-> a, funded |-> b] \in Outcomes
  BY <1>1, <1>2, Zenon DEF Outcomes
<1>5. b <=> (Genuine(r) /\ Taken(p, r, n) <= purse[p])
  BY DEF b
<1> DEFINE o == Result(p, r, c, g, n, f)
<1>6. o = [id |-> p, contract |-> c, final |-> n, fast |-> f, passed |-> a, funded |-> b]
  BY <1>3
<1> HIDE DEF o
<1>7. o.id = p /\ o.contract = c
  BY <1>6
<1>8. o.final = n
  BY <1>6
<1>9. o.fast = f
  BY <1>6
<1>10. o.funded = b
  BY <1>6
<1>11. o \in Outcomes
  BY <1>4, <1>6
<1>12. o.funded <=> (Genuine(r) /\ Taken(p, r, n) <= purse[p])
  BY <1>5, <1>10, Zenon
<1> QED BY <1>7, <1>8, <1>9, <1>11, <1>12, Zenon DEF o

(* The results of a block are those of what was due and of fast quorums,   *)
(* and everything due that is stored has one.                              *)
LEMMA ResultsAre ==
    ASSUME InvTypes
    PROVE  /\ NewResults \in SUBSET Outcomes /\ IsFiniteSet(NewResults)
           /\ \A r \in NewResults : Counts(r) \/ Hastens(r)
           /\ \A p \in Proposal : Stored(stored, p) /\ p \in stored.due.ids =>
                 \E r \in NewResults : r.id = p /\ ~ r.fast
           /\ \A p \in Proposal, c \in Contract : Stored(stored, p) /\ DueIn(stored, p, c) =>
                 \E r \in NewResults : r.id = p /\ ~ r.fast
<1> DEFINE due == stored.due
           A == {process_staged_cycle(e[1], e[2].contract) :
                   e \in {x \in Proposal \X due.contracts :
                            x[1] \in x[2].ids /\ stored.proposals[x[1]] # NoProposal}}
           B == {process_staggered_adaptive(p) :
                   p \in {q \in due.ids : Genuine(stored.proposals[q])}}
           C == process_fast_quorum
           k(p) == LET r == snapshot[p]
                       f == Result(p, r, r.contract, stored.gov[r.contract], TRUE, TRUE)
                   IN  [f EXCEPT !.final = f.passed]
<1>1. /\ stored \in DB /\ purse \in [Proposal -> Nat]
      /\ snapshot \in [Proposal -> Recs \union {NoProposal}]
  BY DEF InvTypes
<1>2. /\ due.ids \subseteq Proposal
      /\ \A e \in due.contracts : e.contract \in Contract
  BY <1>1, Parts1 DEF Dues
<1>3. \A p \in Proposal : /\ Stored(stored, p) => stored.proposals[p] \in Recs
                          /\ stored.proposals[p] # NoProposal =>
                                stored.proposals[p] \in Recs \union Empties
  BY <1>1, RecordOf, Parts1 DEF Kept
<1>4. process_ledgers(stored.due) = A \union B
  BY DEF process_ledgers
<1>5. ASSUME NEW p \in Proposal, NEW c \in Contract, DueIn(stored, p, c),
             stored.proposals[p] # NoProposal
      PROVE  /\ process_staged_cycle(p, c) \in Outcomes /\ Counts(process_staged_cycle(p, c))
             /\ process_staged_cycle(p, c).id = p /\ process_staged_cycle(p, c).contract = c
  <2> DEFINE r == stored.proposals[p]
             g == stored.gov[c]
             n == (g.type = "STAGED" => r.stage >= Len(g.stages))
             f == FALSE
             o == Result(p, r, c, g, n, f)
             u == process_staged_cycle(p, c)
  <2>1. u = [o EXCEPT !.final = o.final /\ o.funded]
    BY DEF process_staged_cycle
  <2>2. n \in BOOLEAN /\ r \in Recs \union Empties /\ f \in BOOLEAN /\ ~ f
    BY <1>3, <1>5
  <2> HIDE DEF n, r, g, f
  <2>3. /\ o \in Outcomes /\ o.id = p /\ o.contract = c /\ o.final = n /\ o.fast = f
        /\ o.funded <=> (Genuine(r) /\ Taken(p, r, n) <= purse[p])
    BY <2>2, ResultIn
  <2> HIDE DEF o, u
  <2>4. /\ u \in Outcomes /\ u.id = p /\ u.contract = c /\ u.fast = f /\ u.funded = o.funded
        /\ u.final = (n /\ o.funded)
    BY <2>1, <2>3 DEF Outcomes
  <2>5. Genuine(r) => u.final = n
    <3>1. n => (Taken(p, r, n) = purse[p] /\ purse[p] <= purse[p])
      BY <1>1 DEF Taken
    <3> QED BY <2>2, <2>3, <2>4, <3>1
  <2>6. Stored(stored, p) <=> Genuine(r)
    BY DEF Stored, r
  <2>7. Counts(u)
    <3>1. ~ Stored(stored, p) => ~ u.final /\ ~ u.funded
      BY <2>3, <2>4, <2>6
    <3>2. Stored(stored, p) => /\ u.funded <=> (Taken(p, r, u.final) <= purse[p])
                               /\ u.final = n
      BY <2>3, <2>4, <2>5, <2>6
    <3> QED BY <1>5, <2>2, <2>4, <3>1, <3>2 DEF Counts, n, r, g, u
  <2> QED BY <2>4, <2>7 DEF u
<1>6. ASSUME NEW p \in Proposal, p \in due.ids, Stored(stored, p)
      PROVE  /\ process_staggered_adaptive(p) \in Outcomes /\ Counts(process_staggered_adaptive(p))
             /\ process_staggered_adaptive(p).id = p
  <2> DEFINE r == stored.proposals[p]
             g == stored.gov[r.contract]
             n == TRUE
             f == FALSE
             c == r.contract
             o == Result(p, r, c, g, n, f)
  <2>1. process_staggered_adaptive(p) = o
    BY DEF process_staggered_adaptive
  <2>2. r \in Recs /\ c \in Contract /\ n \in BOOLEAN /\ f \in BOOLEAN
    BY <1>3, <1>6 DEF Recs
  <2>5. n = TRUE /\ f = FALSE
    OBVIOUS
  <2> HIDE DEF c, r, g, n, f
  <2>3. /\ o \in Outcomes /\ o.id = p /\ o.contract = c /\ o.final = n /\ o.fast = f
        /\ o.funded <=> (Taken(p, r, n) <= purse[p])
    BY <1>6, <2>2, ResultIn DEF Stored, r
  <2> HIDE DEF o
  <2>4. Counts(o)
    BY <1>6, <2>1, <2>2, <2>3, <2>5, RecordOf, <1>1 DEF Counts, c, r
  <2> QED BY <2>1, <2>3, <2>4
<1>7. ASSUME NEW p \in Proposal, snapshot[p] # NoProposal
      PROVE  k(p) \in Outcomes /\ Hastens(k(p))
  <2> DEFINE r == snapshot[p]
             g == stored.gov[r.contract]
             n == TRUE
             c == r.contract
             o == Result(p, r, c, g, n, n)
  <2>1. k(p) = [o EXCEPT !.final = o.passed]
    OBVIOUS
  <2>2. r \in Recs /\ c \in Contract /\ n \in BOOLEAN
    BY <1>1, <1>7 DEF Recs
  <2>6. n = TRUE
    OBVIOUS
  <2> HIDE DEF c, r, g, k, n
  <2>3. /\ o \in Outcomes /\ o.id = p /\ o.fast = n
        /\ o.funded <=> (Taken(p, r, n) <= purse[p])
    <3>1. Genuine(r)
      BY <2>2, KeptIs DEF Kept
    <3> QED BY <2>2, <3>1, ResultIn
  <2>4. Taken(p, r, n) = purse[p] /\ purse[p] <= purse[p]
    BY <1>1, <2>2, <2>6 DEF Taken
  <2> HIDE DEF o
  <2>5. /\ k(p) \in Outcomes /\ k(p).id = p /\ k(p).fast = n /\ k(p).funded = o.funded
        /\ k(p).final = o.passed /\ k(p).passed = o.passed
    BY <2>1, <2>3 DEF Outcomes
  <2> QED BY <1>7, <2>2, <2>3, <2>4, <2>5, <2>6 DEF Hastens
<1>8. \A r \in A : \E p \in Proposal, c \in Contract :
         r = process_staged_cycle(p, c) /\ DueIn(stored, p, c) /\ stored.proposals[p] # NoProposal
  <2> SUFFICES ASSUME NEW r \in A
               PROVE  \E p \in Proposal, c \in Contract :
                         r = process_staged_cycle(p, c) /\ DueIn(stored, p, c) /\ stored.proposals[p] # NoProposal
    OBVIOUS
  <2>1. PICK e \in Proposal \X due.contracts :
           /\ r = process_staged_cycle(e[1], e[2].contract)
           /\ e[1] \in e[2].ids /\ stored.proposals[e[1]] # NoProposal
    OBVIOUS
  <2>2. e[1] \in Proposal /\ e[2] \in due.contracts /\ e[2].contract \in Contract
    BY <1>2
  <2>3. DueIn(stored, e[1], e[2].contract) /\ stored.proposals[e[1]] # NoProposal
    BY <2>1, <2>2 DEF DueIn
  <2> QED BY <2>1, <2>2, <2>3
<1>9. ASSUME NEW p \in Proposal, NEW c \in Contract, DueIn(stored, p, c),
             stored.proposals[p] # NoProposal
      PROVE  process_staged_cycle(p, c) \in A
  <2>1. PICK e \in due.contracts : e.contract = c /\ p \in e.ids
    BY <1>9 DEF DueIn
  <2>2. <<p, e>> \in {x \in Proposal \X due.contracts :
                        x[1] \in x[2].ids /\ stored.proposals[x[1]] # NoProposal}
    BY <1>9, <2>1
  <2>3. process_staged_cycle(<<p, e>>[1], <<p, e>>[2].contract) \in A
    BY <2>2
  <2> QED BY <2>1, <2>3
<1>10. \A r \in B : \E p \in Proposal :
          r = process_staggered_adaptive(p) /\ p \in due.ids /\ Stored(stored, p)
  BY <1>2 DEF Stored
<1>11. ASSUME NEW p \in Proposal, p \in due.ids, Stored(stored, p)
       PROVE  process_staggered_adaptive(p) \in B
  BY <1>11 DEF Stored
<1>12. \A r \in C : \E p \in Proposal : r = k(p) /\ snapshot[p] # NoProposal
  BY DEF process_fast_quorum
<1>13. IsFiniteSet(A)
  <2> DEFINE S == Proposal \X Contract
             f == [x \in S |-> process_staged_cycle(x[1], x[2])]
             T == {f[x] : x \in S}
  <2>1. IsFiniteSet(S)
    BY ProposalAssumption, FS_Product
  <2>2. A \subseteq T
    <3> HIDE DEF A
    <3> SUFFICES ASSUME NEW r \in A PROVE r \in T
      OBVIOUS
    <3>1. PICK p \in Proposal, c \in Contract : r = process_staged_cycle(p, c)
      BY <1>8
    <3>2. <<p, c>> \in S /\ f[<<p, c>>] = process_staged_cycle(p, c)
      OBVIOUS
    <3> QED BY <3>1, <3>2
  <2> HIDE DEF f, S, A
  <2>3. IsFiniteSet(T)
    BY <2>1, FiniteImage
  <2> HIDE DEF T
  <2> QED BY <2>2, <2>3, FS_Subset
<1>14. IsFiniteSet(B)
  <2> DEFINE f == [x \in Proposal |-> process_staggered_adaptive(x)]
             T == {f[x] : x \in Proposal}
  <2>1. B \subseteq T
    <3> HIDE DEF B
    <3> QED BY <1>10
  <2> HIDE DEF f, B
  <2>2. IsFiniteSet(T)
    BY ProposalAssumption, FiniteImage
  <2> HIDE DEF T
  <2> QED BY <2>1, <2>2, FS_Subset
<1>15. IsFiniteSet(C)
  <2> DEFINE f == [x \in Proposal |-> k(x)]
             T == {f[x] : x \in Proposal}
  <2>1. C \subseteq T
    <3> HIDE DEF C, k
    <3> QED BY <1>12
  <2> HIDE DEF f, C
  <2>2. IsFiniteSet(T)
    BY ProposalAssumption, FiniteImage
  <2> HIDE DEF T
  <2> QED BY <2>1, <2>2, FS_Subset
<1> HIDE DEF A, B, C, k
<1>16. NewResults = A \union B \union FastResults /\ FastResults \in {C, {}}
  BY <1>4 DEF NewResults, FastResults, C
<1>17. IsFiniteSet(NewResults)
  <2>1. IsFiniteSet(A \union B) /\ IsFiniteSet(FastResults)
    BY <1>13, <1>14, <1>15, <1>16, FS_Union, FS_EmptySet
  <2> QED BY <1>16, <2>1, FS_Union
<1>18. \A r \in NewResults : r \in Outcomes /\ (Counts(r) \/ Hastens(r))
  <2> SUFFICES ASSUME NEW r \in NewResults PROVE r \in Outcomes /\ (Counts(r) \/ Hastens(r))
    OBVIOUS
  <2>1. CASE r \in A
    BY <1>5, <1>8, <2>1
  <2>2. CASE r \in B
    BY <1>6, <1>10, <2>2
  <2>3. CASE r \in C
    BY <1>7, <1>12, <2>3
  <2> QED BY <1>16, <2>1, <2>2, <2>3
<1>19. ASSUME NEW p \in Proposal, Stored(stored, p), p \in stored.due.ids
       PROVE  \E r \in NewResults : r.id = p /\ ~ r.fast
  <2>1. /\ process_staggered_adaptive(p) \in NewResults /\ process_staggered_adaptive(p).id = p
        /\ Counts(process_staggered_adaptive(p))
    BY <1>6, <1>11, <1>16, <1>19
  <2> QED BY <2>1 DEF Counts
<1>20. ASSUME NEW p \in Proposal, NEW c \in Contract, Stored(stored, p), DueIn(stored, p, c)
       PROVE  \E r \in NewResults : r.id = p /\ ~ r.fast
  <2>1. /\ process_staged_cycle(p, c) \in NewResults /\ process_staged_cycle(p, c).id = p
        /\ Counts(process_staged_cycle(p, c))
    BY <1>1, <1>5, <1>9, <1>16, <1>20, RecordOf
  <2> QED BY <2>1 DEF Counts
<1> QED BY <1>17, <1>18, <1>19, <1>20
-----------------------------------------------------------------------------
(* A stage before the last is paid with more than a stage's fee left.      *)
LEMMA PurseEnough ==
    ASSUME NEW f \in Nat, NEW n \in Nat, NEW q \in Nat, NEW s \in Nat, s > 0, s < n,
           f * n <= q + f * (s - 1)
    PROVE  f <= q /\ (q > 0 => q - f > 0)
<1> DEFINE m == n - s + 1
<1>1. m \in Nat /\ m >= 2 /\ n = (s - 1) + m /\ s - 1 \in Nat
  OBVIOUS
<1> HIDE DEF m
<1>2. f * ((s - 1) + m) = f * (s - 1) + f * m
  BY <1>1
<1>3. f * m \in Nat /\ f * (s - 1) \in Nat
  BY <1>1
<1>4. f * 2 <= f * m
  BY <1>1
<1>5. f * n = f * (s - 1) + f * m
  BY <1>1, <1>2
<1> DEFINE a == f * m
           b == f * (s - 1)
           k == f * n
<1>6. a \in Nat /\ b \in Nat /\ k = b + a /\ k <= q + b /\ f + f <= a
  BY <1>3, <1>4, <1>5
<1> HIDE DEF a, b, k
<1> QED BY <1>6

(* The results of a block for one proposal.                                *)
LEMMA ResultsOf ==
    ASSUME IInv, block = NoBlock, NEW p \in Proposal, Live(p)
    PROVE  /\ \A r \in NewResults : r.id = p /\ (r.fast \/ Stored(stored, p)) => r.funded
           /\ \A r \in NewResults : r.id = p /\ ~ r.fast /\ ~ Stored(stored, p) =>
                 Ended(p) /\ ~ r.final /\ ~ r.funded
           /\ \A r \in NewResults : r.id = p /\ ~ r.fast /\ Stored(stored, p) =>
                 /\ r.contract = stored.proposals[p].contract
                 /\ ~ r.final => /\ DueIn(stored, p, r.contract) /\ Staged(stored, r.contract)
                                 /\ stored.proposals[p].fee <= purse[p]
                                 /\ purse[p] > 0 => purse[p] - stored.proposals[p].fee > 0
                 /\ DueIn(stored, p, r.contract) => (r.final <=> Ending(stored, p, r.contract))
           /\ CountedOnce(NewResults, p)
           /\ Stored(stored, p) => finals[p] = 0
<1>1. /\ InvTypes /\ InvDue /\ Fresh(p) /\ Remnant(p) /\ Resulted(p)
      /\ \A c \in Contract : DuePlaced(stored, p, c) /\ Paid(p, c)
  BY DEF IInv, InvProposals
<1>2. Results = {}
  BY DEF Results
<1>3. /\ NewResults \subseteq Outcomes
      /\ \A r \in NewResults : Counts(r) \/ Hastens(r)
  BY <1>1, ResultsAre
<1>4. purse \in [Proposal -> Nat] /\ finals \in [Proposal -> Nat] /\ stored \in DB
  BY <1>1 DEF InvTypes
<1>5. Stored(stored, p) => finals[p] = 0
  <2>1. ~ (Stored(stored, p) /\ finals[p] > 0)
    BY <1>1, <1>2 DEF Resulted
  <2> QED BY <1>4, <2>1
<1>6. Stored(stored, p) => stored.proposals[p] \in Recs
  BY <1>4, RecordOf
<1>7. ASSUME NEW r \in NewResults, r.id = p, ~ r.fast, Stored(stored, p)
      PROVE  /\ r.funded
             /\ r.contract = stored.proposals[p].contract
             /\ ~ r.final => /\ DueIn(stored, p, r.contract) /\ Staged(stored, r.contract)
                             /\ stored.proposals[p].fee <= purse[p]
                             /\ purse[p] > 0 => purse[p] - stored.proposals[p].fee > 0
             /\ DueIn(stored, p, r.contract) => (r.final <=> Ending(stored, p, r.contract))
  <2> DEFINE s == stored.proposals[p]
             c == r.contract
             g == stored.gov[c]
  <2>1. /\ Counts(r) /\ Stored(stored, p) /\ c \in Contract /\ s \in Recs
        /\ purse[p] \in Nat /\ r.final \in BOOLEAN
    BY <1>3, <1>4, <1>6, <1>7 DEF Hastens, Counts, Outcomes
  <2>2. r.final => r.funded
    BY <1>7, <2>1 DEF Counts, Taken
  <2>3. CASE p \in stored.due.ids /\ r.final /\ c = s.contract
    <3>1. ~ DueIn(stored, p, c)
      BY <1>1, <2>3 DEF InvDue, DueIn
    <3> QED BY <2>2, <2>3, <3>1
  <2>4. CASE DueIn(stored, p, c) /\ r.final = (g.type = "STAGED" => s.stage >= Len(g.stages))
    <3>1. s.contract = c /\ ByLedger(g) /\ (Staged(stored, c) => s.stage > 0)
      BY <1>1, <2>1, <2>4 DEF DuePlaced
    <3>2. g # NoGov /\ (Staged(stored, c) <=> g.type = "STAGED")
      BY <3>1 DEF ByLedger, Staged
    <3>3. r.final <=> Ending(stored, p, c)
      BY <2>4, <3>2 DEF Ending
    <3>4. ASSUME ~ r.final
          PROVE  Staged(stored, c) /\ s.fee <= purse[p] /\ (purse[p] > 0 => purse[p] - s.fee > 0)
      <4>1. Staged(stored, c) /\ s.stage < Len(g.stages) /\ s.stage > 0
        <5>1. Staged(stored, c) /\ ~ (s.stage >= Len(g.stages))
          BY <3>3, <3>4 DEF Ending
        <5>2. Len(g.stages) \in Nat
          BY <1>4, <2>1, <3>2, Parts1, GovFacts
        <5>3. s.stage \in Nat /\ s.stage > 0
          BY <2>1, <3>1, <5>1 DEF Recs
        <5> HIDE DEF s, g
        <5> QED BY <5>1, <5>2, <5>3
      <4>2. Paid(p, c) /\ ~ Counting(p) /\ finals[p] = 0
        BY <1>1, <1>2, <1>5, <2>1 DEF Counting
      <4>3. s.fee * Len(g.stages) <= purse[p] + s.fee * (PaidBefore(s.stage) + 0)
        BY <2>1, <2>4, <4>1, <4>2 DEF Paid
      <4>4. s.fee \in Nat /\ s.stage \in Nat /\ Len(g.stages) \in Nat
        BY <1>4, <2>1, <3>2, Parts1, GovFacts DEF Recs
      <4>5. PaidBefore(s.stage) + 0 = s.stage - 1
        BY <4>1, <4>4 DEF PaidBefore
      <4> HIDE DEF s, g
      <4> QED BY <2>1, <4>1, <4>3, <4>4, <4>5, PurseEnough
    <3>5. ~ r.final => r.funded
      BY <1>7, <2>1, <3>4 DEF Counts, Taken
    <3> QED BY <2>1, <2>2, <2>4, <3>1, <3>3, <3>4, <3>5
  <2> QED BY <1>7, <2>1, <2>3, <2>4 DEF Counts
<1>8. \A r \in NewResults : r.id = p /\ (r.fast \/ Stored(stored, p)) => r.funded
  <2> SUFFICES ASSUME NEW r \in NewResults, r.id = p, r.fast \/ Stored(stored, p) PROVE r.funded
    OBVIOUS
  <2>1. CASE ~ r.fast
    BY <1>7, <2>1
  <2>2. CASE r.fast
    BY <1>3, <2>2 DEF Counts, Hastens
  <2> QED BY <2>1, <2>2
<1>9. ASSUME NEW r \in NewResults, r.id = p, ~ r.fast, ~ Stored(stored, p)
      PROVE  Ended(p) /\ ~ r.final /\ ~ r.funded
  <2>1. Counts(r)
    BY <1>3, <1>9 DEF Hastens
  <2>2. ~ r.final /\ ~ r.funded /\ Known(stored, p)
    BY <1>9, <2>1 DEF Counts, Known
  <2> QED BY <1>1, <1>9, <2>2 DEF Remnant
<1>10. CountedOnce(NewResults, p)
  <2> SUFFICES ASSUME NEW r \in NewResults, NEW u \in NewResults,
                      r.id = p, u.id = p, ~ r.fast, ~ u.fast
               PROVE  r = u
    BY DEF CountedOnce
  <2>1. Counts(r) /\ Counts(u) /\ r.contract \in Contract /\ u.contract \in Contract
    BY <1>3 DEF Hastens, Outcomes
  <2>2. CASE stored.due.ids = {}
    <3>1. /\ DueIn(stored, p, r.contract) /\ r = process_staged_cycle(p, r.contract)
          /\ DueIn(stored, p, u.contract) /\ u = process_staged_cycle(p, u.contract)
      BY <2>1, <2>2 DEF Counts
    <3>2. r.contract = u.contract
      BY <1>1, <2>1, <3>1 DEF Remnant, Near
    <3> QED BY <3>1, <3>2
  <2>3. CASE stored.due.contracts = {}
    <3>1. ~ DueIn(stored, p, r.contract) /\ ~ DueIn(stored, p, u.contract)
      BY <2>3 DEF DueIn
    <3> QED BY <2>1, <3>1 DEF Counts
  <2> QED BY <1>1, <2>2, <2>3 DEF InvDue
<1> QED BY <1>5, <1>7, <1>8, <1>9, <1>10

(* Counting up to two.                                                     *)
LEMMA CappedIn ==
    ASSUME NEW n \in Nat
    PROVE  Capped(n) \in Nat /\ (Capped(n) > 0 <=> n > 0) /\ (n = 1 => Capped(n) = 1)
BY DEF Capped

(* What making a block does, variable by variable.                         *)
LEMMA MadeBlock ==
    ASSUME IInv, NEW time \in Times, NEW a \in Adjustments, MakeBlock(time, a)
    PROVE  /\ block = NoBlock /\ block' # NoBlock
           /\ block' = [made |-> TRUE, time |-> time, txns |-> waiting, results |-> NewResults,
                        gone |-> Gone(stored.due), temp |-> block'.temp]
           /\ IsFiniteSet(block'.temp) /\ block'.temp \subseteq Copies
           /\ \A t \in block'.temp :
                 /\ Stored(stored, t.id)
                 /\ \E v \in VoteCounts : t.record = [stored.proposals[t.id] EXCEPT !.votes = v]
           /\ waiting' = NoTxns /\ rare' \in 0 .. MaxRare
           /\ InBlock' = waiting.proposals /\ Results' = NewResults /\ Results = {} /\ InBlock = {}
           /\ stored' = [gov |-> stored.gov, proposals |-> stored.proposals,
                         adaptive |-> stored.adaptive, ledger |-> stored.ledger,
                         due |-> stored.due, govTxn |-> {}]
           /\ purse' = [p \in Proposal |-> PurseLeft(p, NewResults)]
           /\ finals' \in [Proposal -> Nat] /\ executed' \in [Proposal -> Nat]
           /\ \A p \in Proposal :
                 /\ finals'[p] > 0 <=> (finals[p] > 0 \/ \E r \in NewResults : r.id = p /\ r.final)
                 /\ p \notin stored.govTxn => executed'[p] = executed[p]
                 /\ p \in stored.govTxn => (executed[p] = 0 => executed'[p] = 1)
                 /\ snapshot'[p] \in {snapshot[p], NoProposal}
           /\ snapshot' \in [Proposal -> Recs \union {NoProposal}]
           /\ clock' = time /\ UNCHANGED <<missed, overwritten, removed>>
<1> DEFINE temp == {[id |-> x.id, record |-> [stored.proposals[x.id] EXCEPT !.votes = x.votes]] : x \in a}
           n(p) == Cardinality({r \in NewResults : r.id = p /\ r.final})
<1>1. /\ block = NoBlock /\ rare + Cardinality(a) <= MaxRare
      /\ rare' = rare + Cardinality(a)
      /\ block' = [made |-> TRUE, time |-> time, txns |-> waiting, results |-> NewResults,
                   gone |-> Gone(stored.due), temp |-> temp]
      /\ purse' = [p \in Proposal |-> PurseLeft(p, NewResults)]
      /\ finals' = [p \in Proposal |-> Capped(finals[p] + n(p))]
      /\ executed' = [p \in Proposal |->
            IF p \in stored.govTxn THEN Capped(executed[p] + 1) ELSE executed[p]]
      /\ stored' = [stored EXCEPT !.govTxn = {}]
      /\ snapshot' = IF waiting.fast THEN [p \in Proposal |-> NoProposal] ELSE snapshot
      /\ waiting' = NoTxns
      /\ clock' = time /\ UNCHANGED <<missed, overwritten, removed>>
  BY DEF MakeBlock, NewResults, RunGovTxns
<1>2. InvTypes
  BY DEF IInv
<1>3. /\ stored \in DB /\ rare \in 0 .. MaxRare /\ MaxRare \in Nat
      /\ executed \in [Proposal -> Nat] /\ finals \in [Proposal -> Nat]
      /\ snapshot \in [Proposal -> Recs \union {NoProposal}]
  BY <1>2, GovAssumption DEF InvTypes
<1>4. IsFiniteSet(NewResults)
  BY <1>2, ResultsAre
<1>5. \/ a = {}
      \/ \E p \in Proposal, v \in VoteCounts : a = {[id |-> p, votes |-> v]} /\ Stored(stored, p)
  BY DEF Adjustments, Stored
<1>6. /\ IsFiniteSet(a)
      /\ \A x \in a : x \in Ballots /\ Stored(stored, x.id)
  <2>1. CASE a = {}
    BY <2>1, FS_EmptySet
  <2>2. CASE \E p \in Proposal, v \in VoteCounts : a = {[id |-> p, votes |-> v]} /\ Stored(stored, p)
    <3>1. PICK p \in Proposal, v \in VoteCounts : a = {[id |-> p, votes |-> v]} /\ Stored(stored, p)
      BY <2>2
    <3>2. IsFiniteSet(a)
      BY <3>1, FS_Singleton
    <3> QED BY <3>1, <3>2 DEF Ballots
  <2> QED BY <1>5, <2>1, <2>2
<1>7. rare' \in 0 .. MaxRare
  <2>1. Cardinality(a) \in Nat
    BY <1>6, FS_CardinalityType
  <2> QED BY <1>1, <1>3, <2>1
<1>8. IsFiniteSet(temp)
  <2> DEFINE f == [x \in a |-> [id |-> x.id, record |-> [stored.proposals[x.id] EXCEPT !.votes = x.votes]]]
  <2>1. temp = {f[x] : x \in a}
    OBVIOUS
  <2> HIDE DEF f, temp
  <2> QED BY <1>6, <2>1, FiniteImage
<1>9. \A t \in temp :
         /\ t \in Copies /\ Stored(stored, t.id)
         /\ \E v \in VoteCounts : t.record = [stored.proposals[t.id] EXCEPT !.votes = v]
  <2> SUFFICES ASSUME NEW t \in temp
               PROVE  /\ t \in Copies /\ Stored(stored, t.id)
                      /\ \E v \in VoteCounts : t.record = [stored.proposals[t.id] EXCEPT !.votes = v]
    OBVIOUS
  <2>1. PICK x \in a : t = [id |-> x.id, record |-> [stored.proposals[x.id] EXCEPT !.votes = x.votes]]
    OBVIOUS
  <2>2. x.id \in Proposal /\ x.votes \in VoteCounts /\ Stored(stored, x.id)
    BY <1>6 DEF Ballots
  <2>3. stored.proposals[x.id] \in Recs
    BY <1>3, <2>2, RecordOf
  <2>4. [stored.proposals[x.id] EXCEPT !.votes = x.votes] \in Recs
    BY <2>2, <2>3 DEF Recs
  <2>5. t.id = x.id /\ t.record = [stored.proposals[x.id] EXCEPT !.votes = x.votes]
    BY <2>1
  <2> QED BY <2>1, <2>2, <2>4, <2>5 DEF Copies
<1>10. stored' = [gov |-> stored.gov, proposals |-> stored.proposals,
                  adaptive |-> stored.adaptive, ledger |-> stored.ledger,
                  due |-> stored.due, govTxn |-> {}]
  BY <1>1, <1>3 DEF DB
<1>11. \A p \in Proposal : n(p) \in Nat /\ (n(p) > 0 <=> \E r \in NewResults : r.id = p /\ r.final)
  <2> SUFFICES ASSUME NEW p \in Proposal
               PROVE  n(p) \in Nat /\ (n(p) > 0 <=> \E r \in NewResults : r.id = p /\ r.final)
    OBVIOUS
  <2> DEFINE F == {r \in NewResults : r.id = p /\ r.final}
  <2>1. F \subseteq NewResults /\ n(p) = Cardinality(F)
    OBVIOUS
  <2>2. (F # {}) <=> \E r \in NewResults : r.id = p /\ r.final
    OBVIOUS
  <2> HIDE DEF F, n
  <2>3. IsFiniteSet(F)
    BY <1>4, <2>1, FS_Subset
  <2>4. Cardinality(F) \in Nat /\ (Cardinality(F) = 0 <=> F = {})
    BY <2>3, FS_CardinalityType, FS_EmptySet
  <2> QED BY <2>1, <2>2, <2>4
<1> HIDE DEF temp, n
<1>12. block'.temp = temp
  BY <1>1
<1>13. block' # NoBlock
  <2>1. block'.made = TRUE /\ NoBlock.made = FALSE
    BY <1>1 DEF NoBlock
  <2> QED BY <2>1
<1>14. InBlock' = waiting.proposals /\ Results' = NewResults /\ Results = {} /\ InBlock = {}
  <2>1. block'.txns = waiting /\ block'.results = NewResults
    BY <1>1
  <2> QED BY <1>1, <1>13, <2>1 DEF InBlock, Results
<1>15. ASSUME NEW p \in Proposal
       PROVE  /\ finals'[p] \in Nat /\ executed'[p] \in Nat
              /\ finals'[p] > 0 <=> (finals[p] > 0 \/ \E r \in NewResults : r.id = p /\ r.final)
              /\ p \notin stored.govTxn => executed'[p] = executed[p]
              /\ p \in stored.govTxn => (executed[p] = 0 => executed'[p] = 1)
              /\ snapshot'[p] \in {snapshot[p], NoProposal}
  <2>1. finals[p] \in Nat /\ n(p) \in Nat /\ finals[p] + n(p) \in Nat /\ executed[p] \in Nat
        /\ (finals[p] + n(p) > 0 <=> (finals[p] > 0 \/ n(p) > 0))
    BY <1>3, <1>11
  <2>2. finals'[p] = Capped(finals[p] + n(p))
    BY <1>1
  <2>3. finals'[p] \in Nat /\ (finals'[p] > 0 <=> finals[p] + n(p) > 0)
    BY <2>1, <2>2, CappedIn
  <2>4. /\ p \in stored.govTxn => executed'[p] = Capped(executed[p] + 1)
        /\ p \notin stored.govTxn => executed'[p] = executed[p]
    BY <1>1
  <2>5. Capped(executed[p] + 1) \in Nat /\ (executed[p] = 0 => Capped(executed[p] + 1) = 1)
    BY <2>1, CappedIn
  <2>6. snapshot'[p] \in {snapshot[p], NoProposal}
    BY <1>1
  <2>7. executed'[p] \in Nat
    BY <2>1, <2>4, <2>5
  <2> QED BY <1>11, <2>1, <2>3, <2>4, <2>5, <2>6, <2>7
<1>16. finals' \in [Proposal -> Nat] /\ executed' \in [Proposal -> Nat]
       /\ snapshot' \in [Proposal -> Recs \union {NoProposal}]
  <2>1. finals' \in [Proposal -> Nat]
    BY <1>1, <1>15
  <2>2. executed' \in [Proposal -> Nat]
    BY <1>1, <1>15
  <2>3. snapshot' \in [Proposal -> Recs \union {NoProposal}]
    BY <1>1, <1>3
  <2> QED BY <2>1, <2>2, <2>3
<1> QED BY <1>1, <1>7, <1>8, <1>9, <1>10, <1>12, <1>13, <1>14, <1>15, <1>16
-----------------------------------------------------------------------------
(* What a purse keeps.                                                     *)
LEMMA PurseAfter ==
    ASSUME InvTypes, NEW p \in Proposal
    PROVE  LET fee == stored.proposals[p].fee IN
           /\ (\E r \in NewResults : r.id = p /\ r.final) => PurseLeft(p, NewResults) = 0
           /\ (\A r \in NewResults : r.id = p => ~ r.final) =>
                 /\ (\A r \in NewResults : r.id = p => r.fast \/ ~ r.funded) =>
                       PurseLeft(p, NewResults) = purse[p]
                 /\ (\E r \in NewResults : r.id = p /\ ~ r.fast /\ r.funded) =>
                       PurseLeft(p, NewResults) = purse[p] - fee
           /\ PurseLeft(p, NewResults) \in 0 .. purse[p]
<1> DEFINE fee == stored.proposals[p].fee
           left == PurseLeft(p, NewResults)
           ended == \E r \in NewResults : r.id = p /\ r.final
           paid == \E r \in NewResults : r.id = p /\ ~ r.fast /\ r.funded
<1>1. left = IF ended THEN 0 ELSE IF paid THEN purse[p] - fee ELSE purse[p]
  BY DEF PurseLeft
<1>2. purse[p] \in Nat /\ stored \in DB
  BY DEF InvTypes
<1>3. (~ ended /\ paid) => fee \in Nat /\ fee <= purse[p]
  <2> SUFFICES ASSUME ~ ended, paid PROVE fee \in Nat /\ fee <= purse[p]
    OBVIOUS
  <2>1. PICK r \in NewResults : r.id = p /\ ~ r.fast /\ r.funded
    OBVIOUS
  <2>2. ~ r.final
    BY <2>1
  <2>3. Counts(r)
    BY <2>1, ResultsAre DEF Hastens
  <2>4. fee <= purse[p] /\ Stored(stored, p)
    BY <2>1, <2>2, <2>3 DEF Counts, Taken
  <2>5. stored.proposals[p] \in Recs
    BY <1>2, <2>4, RecordOf
  <2>6. fee \in Nat
    BY <2>5 DEF Recs
  <2> QED BY <2>4, <2>6
<1>4. (\A r \in NewResults : r.id = p => ~ r.final) <=> ~ ended
  OBVIOUS
<1>5. (\A r \in NewResults : r.id = p => r.fast \/ ~ r.funded) => ~ paid
  OBVIOUS
<1> HIDE DEF left, ended, paid, fee
<1>6. left \in 0 .. purse[p]
  BY <1>1, <1>2, <1>3
<1>7. /\ ended => left = 0
      /\ ~ ended => (~ paid => left = purse[p]) /\ (paid => left = purse[p] - fee)
  BY <1>1
<1> QED BY <1>4, <1>5, <1>6, <1>7 DEF left, ended, paid, fee

(* Making a block keeps the types, and what does not depend on a single    *)
(* proposal.                                                               *)
LEMMA MakeTypes ==
    ASSUME IInv, NEW time \in Times, NEW a \in Adjustments, MakeBlock(time, a)
    PROVE  InvTypes' /\ InvDue' /\ InvTemp' /\ InvLedgers' /\ SpentAtEnd'
<1>1. /\ InvTypes /\ InvDue /\ InvLedgers /\ SpentAtEnd
  BY DEF IInv
<1>2. /\ block' # NoBlock
      /\ block' = [made |-> TRUE, time |-> time, txns |-> waiting, results |-> NewResults,
                   gone |-> Gone(stored.due), temp |-> block'.temp]
      /\ IsFiniteSet(block'.temp) /\ block'.temp \subseteq Copies
      /\ \A t \in block'.temp :
            /\ Stored(stored, t.id)
            /\ \E v \in VoteCounts : t.record = [stored.proposals[t.id] EXCEPT !.votes = v]
      /\ waiting' = NoTxns /\ rare' \in 0 .. MaxRare
      /\ InBlock' = waiting.proposals /\ InBlock = {}
      /\ stored' = [gov |-> stored.gov, proposals |-> stored.proposals,
                    adaptive |-> stored.adaptive, ledger |-> stored.ledger,
                    due |-> stored.due, govTxn |-> {}]
      /\ purse' = [p \in Proposal |-> PurseLeft(p, NewResults)]
      /\ finals' \in [Proposal -> Nat] /\ executed' \in [Proposal -> Nat]
      /\ \A p \in Proposal :
            finals'[p] > 0 <=> (finals[p] > 0 \/ \E r \in NewResults : r.id = p /\ r.final)
      /\ snapshot' \in [Proposal -> Recs \union {NoProposal}]
      /\ clock' = time /\ UNCHANGED <<missed, overwritten>>
  BY MadeBlock
<1>3. /\ stored'.gov = stored.gov /\ stored'.proposals = stored.proposals
      /\ stored'.ledger = stored.ledger /\ stored'.due = stored.due
  BY <1>2
<1>4. stored \in DB /\ waiting \in Txns /\ Bounded(waiting) /\ purse \in [Proposal -> Nat]
  BY <1>1 DEF InvTypes
<1>5. stored' \in DB
  BY <1>2, <1>4, Parts1, Whole
<1>6. waiting' \in Txns /\ Bounded(waiting') /\ waiting'.proposals = {}
  BY <1>2, FS_EmptySet DEF NoTxns, Txns, Bounded
<1>7. IsFiniteSet(NewResults) /\ NewResults \in SUBSET Outcomes
  BY <1>1, ResultsAre
<1>8. /\ block' \in Blocks /\ Bounded(block'.txns)
      /\ IsFiniteSet(block'.results) /\ IsFiniteSet(block'.temp)
  <2>1. block'.txns = waiting /\ block'.results = NewResults
    BY <1>2
  <2>2. block' \in Blocks
    <3> DEFINE b == block'.temp
               g == Gone(stored.due)
    <3>1. b \in SUBSET Copies /\ time \in Times /\ waiting \in Txns
      BY <1>2, <1>4
    <3>2. g \in BOOLEAN
      BY DEF Gone
    <3> HIDE DEF b, g
    <3>3. [made |-> TRUE, time |-> time, txns |-> waiting, results |-> NewResults,
           gone |-> g, temp |-> b] \in Blocks
      BY <1>7, <3>1, <3>2, Zenon DEF Blocks
    <3> QED BY <1>2, <3>3 DEF b, g
  <2> QED BY <1>2, <1>4, <1>7, <2>1, <2>2
<1>9. ASSUME NEW p \in Proposal
      PROVE  /\ purse'[p] \in Nat
             /\ finals'[p] > 0 => purse'[p] = 0
  <2> DEFINE left == PurseLeft(p, NewResults)
  <2>1. purse'[p] = left /\ purse[p] \in Nat
    BY <1>2, <1>4
  <2>2. /\ left \in 0 .. purse[p]
        /\ (\E r \in NewResults : r.id = p /\ r.final) => left = 0
    BY <1>1, PurseAfter
  <2>3. finals[p] > 0 => purse[p] = 0
    BY <1>1 DEF SpentAtEnd
  <2> HIDE DEF left
  <2>4. finals'[p] > 0 => (finals[p] > 0 \/ \E r \in NewResults : r.id = p /\ r.final)
    BY <1>2
  <2> QED BY <2>1, <2>2, <2>3, <2>4
<1>10. purse' \in [Proposal -> Nat]
  BY <1>2, <1>9
<1>11. InvTypes'
  <2>1. \A t \in waiting'.proposals \union InBlock' : stored'.gov[t.contract] # NoGov
    BY <1>1, <1>2, <1>3, <1>6 DEF InvTypes
  <2>2. \A c \in Contract : stored'.gov[c] \in LaterGov \union {FirstGov[c]}
    BY <1>1, <1>3 DEF InvTypes
  <2>3. clock' \in Times
    BY <1>2
  <2> QED BY <1>2, <1>5, <1>6, <1>8, <1>10, <2>1, <2>2, <2>3 DEF InvTypes
<1>12. InvDue'
  BY <1>1, <1>3 DEF InvDue
<1>13. InvTemp'
  BY <1>2, <1>3 DEF InvTemp, Stored
<1>14. InvLedgers'
  <2> SUFFICES ASSUME NEW c \in Contract PROVE Timed(stored', c) /\ InCycle(stored', c)
    BY DEF InvLedgers
  <2>1. Timed(stored, c) /\ InCycle(stored, c)
    BY <1>1 DEF InvLedgers
  <2> QED BY <1>3, <2>1 DEF Timed, InCycle, Staged
<1>15. SpentAtEnd'
  BY <1>9 DEF SpentAtEnd
<1> QED BY <1>11, <1>12, <1>13, <1>14, <1>15

(* Making a block keeps what is said of each proposal.                     *)
LEMMA MakeProposals ==
    ASSUME IInv, NEW time \in Times, NEW a \in Adjustments, MakeBlock(time, a),
           NEW p \in Proposal, Live(p)
    PROVE  /\ Fresh(p)' /\ Remnant(p)' /\ Resulted(p)' /\ Ran(p)'
           /\ \A c \in Contract : /\ Placed(stored', p, c) /\ DuePlaced(stored', p, c) /\ Paid(p, c)'
                                  /\ p \notin missed' => InStep(p, c)'
<1> DEFINE fee == stored.proposals[p].fee
<1>1. /\ block = NoBlock /\ block' # NoBlock
      /\ block' = [made |-> TRUE, time |-> time, txns |-> waiting, results |-> NewResults,
                   gone |-> Gone(stored.due), temp |-> block'.temp]
      /\ waiting' = NoTxns
      /\ InBlock' = waiting.proposals /\ Results' = NewResults /\ Results = {} /\ InBlock = {}
      /\ stored' = [gov |-> stored.gov, proposals |-> stored.proposals,
                    adaptive |-> stored.adaptive, ledger |-> stored.ledger,
                    due |-> stored.due, govTxn |-> {}]
      /\ purse' = [q \in Proposal |-> PurseLeft(q, NewResults)]
      /\ finals' \in [Proposal -> Nat] /\ executed' \in [Proposal -> Nat]
      /\ finals'[p] > 0 <=> (finals[p] > 0 \/ \E r \in NewResults : r.id = p /\ r.final)
      /\ p \notin stored.govTxn => executed'[p] = executed[p]
      /\ p \in stored.govTxn => (executed[p] = 0 => executed'[p] = 1)
      /\ snapshot'[p] \in {snapshot[p], NoProposal}
      /\ UNCHANGED <<missed, overwritten, removed>>
  BY MadeBlock
<1>2. /\ stored'.gov = stored.gov /\ stored'.proposals = stored.proposals
      /\ stored'.ledger = stored.ledger /\ stored'.due = stored.due /\ stored'.govTxn = {}
  BY <1>1
<1>3. /\ InvTypes /\ Fresh(p) /\ Remnant(p) /\ Resulted(p) /\ Ran(p)
      /\ \A c \in Contract : /\ Placed(stored, p, c) /\ DuePlaced(stored, p, c) /\ Paid(p, c)
                             /\ p \notin missed => InStep(p, c)
  BY DEF IInv, InvProposals
<1>4. /\ purse[p] \in Nat /\ finals[p] \in Nat /\ executed[p] \in Nat /\ stored \in DB
      /\ finals'[p] \in Nat /\ executed'[p] \in Nat
  BY <1>1, <1>3 DEF InvTypes
<1>5. /\ \A r \in NewResults : r.id = p /\ (r.fast \/ Stored(stored, p)) => r.funded
      /\ \A r \in NewResults : r.id = p /\ ~ r.fast /\ ~ Stored(stored, p) =>
            Ended(p) /\ ~ r.final /\ ~ r.funded
      /\ \A r \in NewResults : r.id = p /\ ~ r.fast /\ Stored(stored, p) =>
            /\ r.contract = stored.proposals[p].contract
            /\ ~ r.final => /\ DueIn(stored, p, r.contract) /\ Staged(stored, r.contract)
                            /\ fee <= purse[p]
                            /\ purse[p] > 0 => purse[p] - fee > 0
            /\ DueIn(stored, p, r.contract) => (r.final <=> Ending(stored, p, r.contract))
      /\ CountedOnce(NewResults, p)
      /\ Stored(stored, p) => finals[p] = 0
  BY <1>1, ResultsOf
<1>6. /\ \A r \in NewResults : r \in Outcomes /\ (Counts(r) \/ Hastens(r))
      /\ (Stored(stored, p) /\ (p \in stored.due.ids \/ \E c \in Contract : DueIn(stored, p, c))) =>
            \E r \in NewResults : r.id = p /\ ~ r.fast
  BY <1>3, ResultsAre
<1>7. /\ purse'[p] = PurseLeft(p, NewResults)
      /\ (\E r \in NewResults : r.id = p /\ r.final) => purse'[p] = 0
      /\ (\A r \in NewResults : r.id = p => ~ r.final) =>
            /\ (\A r \in NewResults : r.id = p => r.fast \/ ~ r.funded) => purse'[p] = purse[p]
            /\ (\E r \in NewResults : r.id = p /\ ~ r.fast /\ r.funded) => purse'[p] = purse[p] - fee
  BY <1>1, <1>3, PurseAfter
<1>8. \A r \in NewResults :
         r.id = p => stored.proposals[p] # NoProposal \/ snapshot[p] # NoProposal
  BY <1>6 DEF Counts, Hastens
<1>9. Untouched(p) => /\ Untouched(p)' /\ \A r \in NewResults : r.id # p
                      /\ purse'[p] = purse[p] /\ (finals[p] = 0 => finals'[p] = 0)
  <2> SUFFICES ASSUME Untouched(p)
               PROVE  /\ Untouched(p)' /\ \A r \in NewResults : r.id # p
                      /\ purse'[p] = purse[p] /\ (finals[p] = 0 => finals'[p] = 0)
    OBVIOUS
  <2>1. /\ stored.proposals[p] = NoProposal /\ snapshot[p] = NoProposal /\ p \notin removed
        /\ \A c \in Contract : ~ In(stored, p, c)
    BY DEF Untouched
  <2>2. \A r \in NewResults : r.id # p
    BY <1>8, <2>1
  <2>3. stored'.proposals[p] = NoProposal /\ \A c \in Contract : ~ In(stored', p, c)
    BY <1>2, <2>1 DEF In
  <2>4. Untouched(p)'
    BY <1>1, <2>1, <2>2, <2>3 DEF Untouched
  <2>5. purse'[p] = purse[p]
    BY <1>7, <2>2
  <2>6. finals[p] = 0 => finals'[p] = 0
    BY <1>1, <1>4, <2>2
  <2> QED BY <2>2, <2>4, <2>5, <2>6
<1>10. Fresh(p)'
  <2>1. Asked(p)' <=> Asked(p)
    BY <1>1 DEF Asked, NoTxns
  <2>2. Asked(p)' => Untouched(p)' /\ purse'[p] > 0 /\ finals'[p] = 0
    BY <1>3, <1>9, <2>1 DEF Fresh
  <2>3. ASSUME purse'[p] = 0, finals'[p] = 0 PROVE Untouched(p)'
    <3>1. finals[p] = 0 /\ \A r \in NewResults : r.id = p => ~ r.final
      BY <1>1, <1>4, <2>3
    <3>2. CASE \A r \in NewResults : r.id = p => r.fast \/ ~ r.funded
      <4>1. purse[p] = 0
        BY <1>7, <2>3, <3>1, <3>2
      <4> QED BY <1>3, <1>9, <3>1, <4>1 DEF Fresh
    <3>3. CASE \E r \in NewResults : r.id = p /\ ~ r.fast /\ r.funded
      <4>1. PICK r \in NewResults : r.id = p /\ ~ r.fast /\ r.funded
        BY <3>3
      <4>2. ~ r.final /\ Stored(stored, p)
        BY <1>5, <3>1, <4>1
      <4>3. purse'[p] = purse[p] - fee /\ (purse[p] > 0 => purse[p] - fee > 0)
        BY <1>5, <1>7, <3>1, <4>1, <4>2
      <4>4. purse[p] = 0
        BY <1>4, <2>3, <4>3
      <4> QED BY <1>3, <1>9, <3>1, <4>4 DEF Fresh
    <3> QED BY <3>2, <3>3
  <2>4. /\ waiting'.proposals = {} /\ InBlock' = waiting.proposals
        /\ \A s, t \in waiting.proposals : s.id = p /\ t.id = p => s = t
    BY <1>1, <1>3 DEF NoTxns, Fresh
  <2> HIDE DEF Asked, Untouched
  <2> QED BY <2>2, <2>3, <2>4 DEF Fresh
<1>11. Stored(stored', p) <=> Stored(stored, p)
  BY <1>2 DEF Stored
<1>12. \A c \in Contract : /\ In(stored', p, c) <=> In(stored, p, c)
                           /\ DueIn(stored', p, c) <=> DueIn(stored, p, c)
                           /\ Staged(stored', c) <=> Staged(stored, c)
                           /\ Ending(stored', p, c) <=> Ending(stored, p, c)
  BY <1>2 DEF In, DueIn, Staged, Ending
<1>13. Resulted(p)'
  <2>1. ASSUME NEW r \in NewResults, r.id = p
        PROVE  /\ r.fast => r.final = r.passed
               /\ r.final => finals'[p] > 0
               /\ (r.fast \/ Stored(stored', p)) => r.funded
               /\ (~ r.fast /\ ~ Stored(stored', p)) => Ended(p)' /\ ~ r.final
               /\ (~ r.fast /\ Stored(stored', p)) =>
                    /\ r.contract = stored'.proposals[p].contract
                    /\ ~ r.final => DueIn(stored', p, r.contract) /\ Staged(stored', r.contract)
                    /\ DueIn(stored', p, r.contract) => (r.final <=> Ending(stored', p, r.contract))
    <3>1. r \in Outcomes /\ (Counts(r) \/ Hastens(r)) /\ r.contract \in Contract
      BY <1>6, <2>1 DEF Outcomes
    <3>2. r.fast => r.final = r.passed
      BY <3>1 DEF Counts, Hastens
    <3>3. r.final => finals'[p] > 0
      BY <1>1, <2>1
    <3>4. Ended(p) => Ended(p)'
      BY <1>1 DEF Ended
    <3> HIDE DEF Ended
    <3> QED BY <1>2, <1>5, <1>11, <1>12, <2>1, <3>1, <3>2, <3>3, <3>4
  <2>2. CountedOnce(Results', p)
    BY <1>1, <1>5
  <2>3. (Stored(stored', p) /\ (p \in stored'.due.ids \/ \E c \in Contract : DueIn(stored', p, c))) =>
           Counting(p)'
    BY <1>1, <1>2, <1>6, <1>11, <1>12 DEF Counting
  <2>4. (Stored(stored', p) /\ finals'[p] > 0) => \E r \in Results' : r.id = p /\ r.final
    <3> SUFFICES ASSUME Stored(stored', p), finals'[p] > 0
                 PROVE  \E r \in NewResults : r.id = p /\ r.final
      BY <1>1
    <3>1. finals[p] = 0
      BY <1>5, <1>11
    <3> QED BY <1>1, <3>1
  <2>5. \A r \in Results' : r.id = p =>
           /\ r.fast => r.final = r.passed
           /\ r.final => finals'[p] > 0
           /\ (r.fast \/ Stored(stored', p)) => r.funded
           /\ (~ r.fast /\ ~ Stored(stored', p)) => Ended(p)' /\ ~ r.final
           /\ (~ r.fast /\ Stored(stored', p)) =>
                /\ r.contract = stored'.proposals[p].contract
                /\ ~ r.final => DueIn(stored', p, r.contract) /\ Staged(stored', r.contract)
                /\ DueIn(stored', p, r.contract) => (r.final <=> Ending(stored', p, r.contract))
    BY <1>1, <2>1
  <2> HIDE DEF Counting, CountedOnce, Stored, DueIn, Staged, Ending, Ended
  <2> QED BY <2>2, <2>3, <2>4, <2>5 DEF Resulted
<1>14. Ran(p)'
  <2>1. ASSUME executed'[p] > 0 PROVE ~ Stored(stored', p) /\ finals'[p] > 0
    <3>1. executed[p] > 0 \/ p \in stored.govTxn
      BY <1>1, <2>1
    <3>2. ~ Stored(stored, p) /\ finals[p] > 0
      BY <1>3, <3>1 DEF Ran
    <3> QED BY <1>1, <1>11, <3>2
  <2>2. executed'[p] <= 1
    <3>1. CASE p \in stored.govTxn
      <4>1. executed'[p] = 1
        BY <1>1, <1>3, <3>1 DEF Ran
      <4> QED BY <4>1
    <3>2. CASE p \notin stored.govTxn
      BY <1>1, <1>3, <3>2 DEF Ran
    <3> QED BY <3>1, <3>2
  <2> QED BY <1>2, <2>1, <2>2 DEF Ran
<1>15. ASSUME NEW c \in Contract
       PROVE  /\ Placed(stored', p, c) /\ DuePlaced(stored', p, c)
              /\ p \notin missed' => InStep(p, c)'
  <2>1. Placed(stored, p, c) /\ DuePlaced(stored, p, c) /\ (p \notin missed => InStep(p, c))
    BY <1>3
  <2>2. Placed(stored', p, c)
    BY <1>2, <2>1 DEF Placed, Stored, In, Staged
  <2>3. DuePlaced(stored', p, c)
    BY <1>2, <2>1 DEF DuePlaced, Stored, DueIn, Staged
  <2>4. Due(p)' <=> Due(p)
    BY <1>2 DEF Due
  <2>5. InStep(p, c) => InStep(p, c)'
    BY <1>2, <1>11, <1>12, <2>4 DEF InStep
  <2> QED BY <1>1, <2>1, <2>2, <2>3, <2>5
<1>16. ASSUME NEW c \in Contract PROVE Paid(p, c)'
  <2> DEFINE n == Len(stored.gov[c].stages)
             b == PaidBefore(stored.proposals[p].stage)
  <2> SUFFICES ASSUME Stored(stored, p), finals'[p] = 0, Staged(stored, c),
                      In(stored, p, c) \/ DueIn(stored, p, c)
               PROVE  fee * n <= purse'[p] + fee * (b + (IF Counting(p)' THEN 1 ELSE 0))
    BY <1>2, <1>11, <1>12 DEF Paid
  <2>1. finals[p] = 0 /\ \A r \in NewResults : r.id = p => ~ r.final
    BY <1>1, <1>5
  <2>2. ~ Counting(p)
    BY <1>1 DEF Counting
  <2>3. fee * n <= purse[p] + fee * (b + 0)
    BY <1>3, <2>1, <2>2 DEF Paid
  <2>4. fee \in Nat /\ b \in Nat
    <3>1. stored.proposals[p] \in Recs
      BY <1>4, RecordOf
    <3> QED BY <3>1 DEF Recs, PaidBefore
  <2>5. Counting(p)' <=> \E r \in NewResults : r.id = p /\ ~ r.fast /\ r.funded
    BY <1>1, <1>5 DEF Counting
  <2>6. n \in Nat
    <3>1. stored.gov[c] \in Govs /\ stored.gov[c] # NoGov
      BY <1>4, Parts1 DEF Staged
    <3> QED BY <3>1, GovFacts
  <2> HIDE DEF fee, n, b
  <2>7. CASE Counting(p)'
    <3>1. purse'[p] = purse[p] - fee
      BY <1>5, <1>7, <2>1, <2>5, <2>7 DEF fee
    <3>2. fee * (b + 1) = fee * b + fee /\ fee * (b + 0) = fee * b /\ fee * b \in Nat
      BY <2>4
    <3>3. fee * n \in Nat
      BY <2>4, <2>6
    <3> DEFINE x == fee * n
               y == fee * b
               z == fee * (b + 1)
    <3>4. x \in Nat /\ y \in Nat /\ z = y + fee /\ x <= purse[p] + y
      BY <2>3, <3>2, <3>3
    <3> HIDE DEF x, y, z
    <3>5. x <= purse'[p] + z
      BY <1>4, <2>4, <3>1, <3>4
    <3> QED BY <2>7, <3>5 DEF x, z
  <2>8. CASE ~ Counting(p)'
    <3>1. purse'[p] = purse[p]
      BY <1>7, <2>1, <2>5, <2>8
    <3> QED BY <2>3, <2>8, <3>1
  <2> QED BY <2>7, <2>8
<1>17. Remnant(p)'
  <2>1. Known(stored', p) <=> Known(stored, p)
    BY <1>2 DEF Known, In
  <2>2. Ended(p) => Ended(p)'
    BY <1>1 DEF Ended
  <2> HIDE DEF Known, Ended
  <2> QED BY <1>3, <1>11, <1>12, <2>1, <2>2 DEF Remnant, Near
<1> QED BY <1>10, <1>13, <1>14, <1>15, <1>16, <1>17

(* Making a block keeps the invariant.                                     *)
LEMMA MakeInv ==
    ASSUME IInv, NEW time \in Times, NEW a \in Adjustments, MakeBlock(time, a)
    PROVE  IInv'
<1>1. overwritten' = overwritten
  BY DEF MakeBlock
<1>2. InvProposals'
  <2>1. ASSUME NEW p \in Proposal, Live(p)'
        PROVE  /\ Fresh(p)' /\ Remnant(p)' /\ Resulted(p)' /\ Ran(p)'
               /\ \A c \in Contract : /\ Placed(stored', p, c) /\ DuePlaced(stored', p, c) /\ Paid(p, c)'
                                      /\ p \notin missed' => InStep(p, c)'
    <3>1. Live(p)
      BY <1>1, <2>1 DEF Live
    <3> QED BY <3>1, MakeProposals
  <2> QED BY <2>1 DEF InvProposals
<1> QED BY <1>2, MakeTypes DEF IInv
-----------------------------------------------------------------------------
(* The program ends in the middle of storing a block. *)

(* What still holds once the program has ended.                            *)
Halted == InvTypes /\ ExecutedOnce /\ SpentAtEnd /\ StagesWithinCycle

(* The results before the one that is not found leave the types right, and *)
(* no stage that ends after its cycle.                                     *)
LEMMA StopInv ==
    ASSUME IInv, StopStoring
    PROVE  Halted'
<1>1. /\ block # NoBlock
      /\ UNCHANGED <<waiting, block, purse, snapshot, clock, rare, executed, finals, missed,
                     overwritten>>
  BY DEF StopStoring
<1>2. PICK done \in SUBSET {r \in block.results : ~ r.fast /\ r.funded} :
         stored' = FoldSet(StoreResult, BeforeResults(stored), done)
  BY DEF StopStoring
<1>3. InvTypes /\ InvProposals /\ InvLedgers /\ SpentAtEnd
  BY DEF IInv
<1>4. PICK d1, d2, d3 \in DB :
         /\ BeforeResults(stored) = d3
         /\ d1 = batch_contract_updates(stored, block.txns)
         /\ Frame(d1, d2)
         /\ d3.gov = d2.gov /\ d3.ledger = d2.ledger
  BY <1>1, <1>3, BeforeSteps
<1> DEFINE e == stored'
<1>5. e \in DB /\ Frame(d3, e)
  <2>1. done \in SUBSET Outcomes /\ IsFiniteSet(done)
    BY <1>1, <1>3, FS_Subset DEF InvTypes, Blocks
  <2> QED BY <1>2, <1>4, <2>1, DueResultsStep
<1> HIDE DEF e
<1>6. ASSUME NEW c \in Contract
      PROVE  /\ e.gov[c] = stored.gov[c] \/ e.gov[c] \in Checked
             /\ (Staged(e, c) /\ e.ledger[c].ids # {}) =>
                   e.ledger[c].stageEnd <= e.ledger[c].cycleEnd
  <2>1. stored \in DB /\ block.txns \in Txns
    BY <1>1, <1>3 DEF InvTypes, Blocks
  <2>2. \/ d1.gov[c] = stored.gov[c] /\ d1.ledger[c] = stored.ledger[c]
        \/ /\ d1.gov[c] \in Checked
           /\ ByLedger(d1.gov[c]) =>
                 d1.ledger[c] = make_staged_cycle_ledger(d1.gov[c], d1.gov[c].start)
    BY <1>4, <2>1, UpdatesStep
  <2>3. /\ e.gov[c] = d1.gov[c]
        /\ e.ledger[c].cycleEnd = d1.ledger[c].cycleEnd
        /\ e.ledger[c].stageEnd = d1.ledger[c].stageEnd
        /\ e.ledger[c].ids \subseteq d1.ledger[c].ids
    BY <1>4, <1>5 DEF Frame
  <2>4. CASE d1.gov[c] = stored.gov[c] /\ d1.ledger[c] = stored.ledger[c]
    <3>1. ASSUME Staged(e, c), e.ledger[c].ids # {}
          PROVE  e.ledger[c].stageEnd <= e.ledger[c].cycleEnd
      <4>1. Staged(stored, c) /\ stored.ledger[c].ids # {}
        BY <2>3, <2>4, <3>1 DEF Staged
      <4>2. stored.ledger[c].stageEnd <= stored.ledger[c].cycleEnd
        BY <1>3, <2>1, <4>1, EndsWithin DEF InvLedgers
      <4> QED BY <2>3, <2>4, <4>2
    <3> QED BY <2>3, <2>4, <3>1
  <2>5. CASE /\ d1.gov[c] \in Checked
             /\ ByLedger(d1.gov[c]) =>
                   d1.ledger[c] = make_staged_cycle_ledger(d1.gov[c], d1.gov[c].start)
    <3>1. make_staged_cycle_ledger(d1.gov[c], d1.gov[c].start).ids = {}
      BY DEF make_staged_cycle_ledger
    <3>2. Staged(e, c) => ByLedger(d1.gov[c])
      BY <2>3 DEF Staged, ByLedger
    <3> QED BY <2>3, <2>5, <3>1, <3>2
  <2> QED BY <2>2, <2>4, <2>5
<1>7. InBlock' = InBlock
  BY <1>1 DEF InBlock
<1>8. ASSUME NEW t \in waiting'.proposals \union InBlock' PROVE stored'.gov[t.contract] # NoGov
  <2>1. t \in waiting.proposals \union InBlock
    BY <1>1, <1>7, <1>8
  <2>2. stored.gov[t.contract] # NoGov /\ t.contract \in Contract
    BY <1>3, <2>1 DEF InvTypes, Txns, Asks, InBlock, Blocks
  <2>3. NoGov \notin Checked
    BY GovAssumption DEF Checked
  <2> QED BY <1>6, <2>2, <2>3 DEF e
<1>9. \A c \in Contract : stored'.gov[c] \in LaterGov \union {FirstGov[c]}
  BY <1>3, <1>6 DEF InvTypes, Checked, e
<1>10. InvTypes'
  BY <1>1, <1>3, <1>5, <1>8, <1>9 DEF InvTypes, Bounded, Blocks, e
<1>11. ExecutedOnce'
  BY <1>1, <1>3 DEF ExecutedOnce, InvProposals, Live, Ran
<1>12. SpentAtEnd'
  BY <1>1, <1>3 DEF SpentAtEnd
<1>13. StagesWithinCycle'
  BY <1>6 DEF StagesWithinCycle, Staged, e
<1> QED BY <1>10, <1>11, <1>12, <1>13 DEF Halted
-----------------------------------------------------------------------------
(* The invariant holds. *)

(* While the program runs, and once it has ended.                          *)
Inv == (~ stopped /\ IInv) \/ (stopped /\ Halted)

(* The invariant of the running program is inductive,                      *)
LEMMA RunningInv ==
    ASSUME IInv, Preprocess \/ Make \/ StoreBlock \/ UNCHANGED vars
    PROVE  IInv'
<1>1. CASE Preprocess
  <2>1. CASE \E p \in Proposal, c \in Contract, w \in Windows : Propose(p, c, w[1], w[2])
    BY <2>1, ProposeInv
  <2>2. CASE \E p \in Proposal, v \in VoteCounts : CastVote(p, v)
    BY <2>2, CastVoteInv
  <2>3. CASE \E p \in Proposal : AskFastQuorum(p)
    BY <2>3, AskFastQuorumInv
  <2>4. CASE \E c \in Contract, g \in LaterGov : UpdateGovernance(c, g)
    BY <2>4, UpdateGovernanceInv
  <2> QED BY <1>1, <2>1, <2>2, <2>3, <2>4 DEF Preprocess
<1>2. CASE Make
  BY <1>2, MakeInv DEF Make
<1>3. CASE StoreBlock
  BY <1>3, StoreInv
<1>4. CASE UNCHANGED vars
  <2>1. UNCHANGED <<stored, waiting, block, purse, snapshot, clock, rare, executed, finals,
                    missed, overwritten, removed>>
    BY <1>4 DEF vars
  <2>2. \A p \in Proposal : Live(p) => Fresh(p)'
    BY <2>1, OthersFresh
  <2>3. InvTypes'
    <3>1. InvTypes
      BY DEF IInv
    <3>2. InBlock' = InBlock
      BY <2>1 DEF InBlock
    <3> QED BY <2>1, <3>1, <3>2 DEF InvTypes, Bounded, Blocks
  <2> QED BY <2>1, <2>2, <2>3, FrontKeeps
<1> QED BY <1>1, <1>2, <1>3, <1>4

(* no step of it but StopStoring ends the program,                         *)
LEMMA RunsOn ==
    ASSUME Preprocess \/ Make \/ StoreBlock
    PROVE  stopped' = stopped
BY DEF Preprocess, Propose, CastVote, AskFastQuorum, UpdateGovernance, Make, MakeBlock, StoreBlock

(* nothing happens once it has ended,                                      *)
LEMMA HaltedStays ==
    ASSUME Halted, UNCHANGED vars
    PROVE  Halted'
<1>1. UNCHANGED <<stored, waiting, block, purse, snapshot, clock, rare, executed, finals,
                  overwritten>>
  BY DEF vars
<1>2. InBlock' = InBlock
  BY <1>1 DEF InBlock
<1>3. InvTypes'
  BY <1>1, <1>2 DEF Halted, InvTypes, Bounded, Blocks
<1>4. ExecutedOnce' /\ SpentAtEnd' /\ StagesWithinCycle'
  BY <1>1 DEF Halted, ExecutedOnce, SpentAtEnd, StagesWithinCycle
<1> QED BY <1>3, <1>4 DEF Halted

(* and so the invariant of both is inductive.                              *)
LEMMA NextInv ==
    ASSUME Inv, [Next]_vars
    PROVE  Inv'
<1>1. CASE ~ stopped
  <2>1. IInv
    BY <1>1 DEF Inv
  <2>2. CASE Preprocess \/ Make \/ StoreBlock
    BY <1>1, <2>1, <2>2, RunningInv, RunsOn DEF Inv
  <2>3. CASE StopStoring
    <3>1. stopped'
      BY <2>3 DEF StopStoring
    <3> QED BY <2>1, <2>3, <3>1, StopInv DEF Inv
  <2>4. CASE UNCHANGED vars
    <3>1. ~ stopped'
      BY <1>1, <2>4 DEF vars
    <3> QED BY <2>1, <2>4, <3>1, RunningInv DEF Inv
  <2> QED BY <2>2, <2>3, <2>4 DEF Next
<1>2. CASE stopped
  <2>1. Halted /\ UNCHANGED vars
    BY <1>2 DEF Inv, Next
  <2>2. stopped'
    BY <1>2, <2>1 DEF vars
  <2> QED BY <2>1, <2>2, HaltedStays DEF Inv
<1> QED BY <1>1, <1>2

(* It holds in every reachable state.                                      *)
LEMMA SpecInv == Spec => []Inv
<1>1. Init => Inv
  BY InitInv DEF Inv, Init
<1>2. Inv /\ [Next]_vars => Inv'
  BY NextInv
<1> QED BY <1>1, <1>2, PTL DEF Spec

(* The invariant implies that the types are right,                         *)
LEMMA TypesOfInv ==
    ASSUME Inv
    PROVE  InvTypes /\ TypeOK
<1>1. InvTypes
  BY DEF Inv, IInv, Halted
<1>2. stored \in DB /\ snapshot \in [Proposal -> Recs \union {NoProposal}]
  BY <1>1 DEF InvTypes
<1>3. /\ \A r \in Recs : Record(r) /\ Genuine(r)
      /\ \A r \in Empties : Record(r)
  <2>1. \A r \in Recs : Genuine(r)
    BY KeptIs DEF Kept
  <2> QED BY <2>1 DEF Recs, Empties, Record
<1>4. /\ stored.proposals \in [Proposal -> Kept]
      /\ stored.adaptive \in [Proposal -> Nat \union {NoTime}]
      /\ stored.ledger \in [Contract -> Ledgers]
      /\ stored.due \in Dues /\ stored.govTxn \subseteq Proposal
  BY <1>2, Parts1
<1>5. \A p \in Proposal :
         /\ stored.proposals[p] = NoProposal \/ Record(stored.proposals[p])
         /\ snapshot[p] # NoProposal => Record(snapshot[p]) /\ Genuine(snapshot[p])
         /\ stored.adaptive[p] \in Nat \union {NoTime}
  BY <1>2, <1>3, <1>4 DEF Kept
<1>6. \A c \in Contract : stored.ledger[c].ids \union stored.ledger[c].pending \subseteq Proposal
  BY <1>4 DEF Ledgers
<1>7. stored.due.ids \subseteq Proposal
  BY <1>4 DEF Dues
<1> QED BY <1>1, <1>4, <1>5, <1>6, <1>7 DEF InvTypes, TypeOK

(* that a proposal is paid for, carried out and ended once,                *)
LEMMA EndedOnceOfInv ==
    ASSUME Inv
    PROVE  EndedOnce
<1>1. InvTypes /\ SpentAtEnd
  BY DEF Inv, IInv, Halted
<1>2. ~ stopped => InvProposals
  BY DEF Inv, IInv
<1>3. ResultsFunded
  <2> SUFFICES ASSUME block # NoBlock, ~ stopped, NEW r \in block.results, r.id \notin overwritten,
                      ~ r.funded
               PROVE  Over(r.id)
    BY DEF ResultsFunded
  <2>1. r \in Results /\ r.id \in Proposal /\ Live(r.id)
    BY <1>1 DEF Results, InvTypes, Blocks, Outcomes, Live
  <2>2. Resulted(r.id)
    BY <1>2, <2>1 DEF InvProposals
  <2>3. ~ r.fast /\ ~ Stored(stored, r.id)
    BY <2>1, <2>2 DEF Resulted
  <2> QED BY <2>1, <2>2, <2>3 DEF Resulted, Ended, Stored, Over
<1>4. ExecutedOnce
  BY DEF Inv, IInv, Halted, InvProposals, Live, Ran, ExecutedOnce
<1> QED BY <1>1, <1>3, <1>4, TypesOfInv DEF EndedOnce

(* and that ledgers and proposals are in step.                             *)
LEMMA StagesOfInv ==
    ASSUME Inv
    PROVE  StagesInCycle
<1>1. stored \in DB
  BY TypesOfInv DEF InvTypes
<1>2. ~ stopped => InvProposals /\ InvLedgers
  BY DEF Inv, IInv
<1>3. StagesInStep
  <2> SUFFICES ASSUME ~ stopped,
                      NEW c \in Contract, NEW p \in stored.ledger[c].ids \ (missed \union overwritten),
                      stored.gov[c].type = "STAGED", Genuine(stored.proposals[p])
               PROVE  stored.proposals[p].stage + (IF Due(p) THEN 1 ELSE 0) = stored.ledger[c].stage
    BY DEF StagesInStep
  <2>1. p \in Proposal /\ Live(p) /\ p \notin missed /\ Stored(stored, p)
    BY <1>1, Parts1 DEF Ledgers, Live, Stored
  <2>2. Placed(stored, p, c) /\ InStep(p, c)
    BY <1>2, <2>1 DEF InvProposals
  <2>3. Staged(stored, c)
    BY <2>1, <2>2 DEF Placed, In, ByLedger, Staged
  <2> QED BY <2>1, <2>2, <2>3 DEF InStep
<1>4. CASE ~ stopped
  <2> SUFFICES ASSUME NEW c \in Contract, Staged(stored, c), stored.ledger[c].ids # {}
               PROVE  stored.ledger[c].stageEnd <= stored.ledger[c].cycleEnd
    BY <1>3 DEF StagesInCycle, StagesWithinCycle, Staged
  <2>1. Timed(stored, c) /\ InCycle(stored, c)
    BY <1>2, <1>4 DEF InvLedgers
  <2> QED BY <1>1, <2>1, EndsWithin
<1>5. CASE stopped
  BY <1>3, <1>5 DEF Inv, Halted, StagesInCycle
<1> QED BY <1>4, <1>5

(* Every database and map holds values of its kind, for any contracts,     *)
(* proposals and governances that pass the checks: a proposal's record is  *)
(* that of a proposal or the empty one stored for want of a record, and a  *)
(* copy kept for fast quorum is never an empty one.                        *)
THEOREM GovernanceTypes == Spec => []TypeOK
<1>1. Inv => TypeOK
  BY TypesOfInv
<1> QED BY <1>1, SpecInv, PTL

(* However stages, cycles, fast quorums, governance updates and late       *)
(* blocks fall together: every stage's result can be paid for from the     *)
(* proposal's purse, unless it is that of the empty record of a proposal   *)
(* that is over; the transactions of a proposal are carried out at most    *)
(* once, and a purse is empty after a final result. (A proposal that a     *)
(* balance adjustment stored again after its end is excepted from the      *)
(* first two.)                                                             *)
THEOREM ProposalsEndOnce == Spec => []EndedOnce
<1>1. Inv => EndedOnce
  BY EndedOnceOfInv
<1> QED BY <1>1, SpecInv, PTL

(* A proposal under vote is in the stage its ledger is in, one behind      *)
(* while the result of the stage that ended is due; and no stage that has  *)
(* proposals ends after its cycle.                                         *)
THEOREM StagesKeepStep == Spec => []StagesInCycle
<1>1. Inv => StagesInCycle
  BY StagesOfInv
<1> QED BY <1>1, SpecInv, PTL
-----------------------------------------------------------------------------
(* No proposal is forgotten. *)

(* What NotForgotten says of the records of proposals.                     *)
Remembered == ~ stopped =>
    \A p \in Proposal \ (missed \union overwritten) :
        Genuine(stored.proposals[p]) =>
            \/ stored.adaptive[p] # NoTime
            \/ Due(p)
            \/ \E c \in Contract : p \in stored.ledger[c].ids \union stored.ledger[c].pending

(* A proposal in a ledger is kept through its turn, or its result is due.  *)
LEMMA KeptThroughTurn ==
    ASSUME NEW d \in DB, NEW e, NEW time \in Times, AllTurned(d, e, time),
           NEW p \in Proposal, NEW c \in Contract, Timed(d, c), ByLedger(d.gov[c]), In(d, p, c),
           (p \in d.ledger[c].ids /\ Turns(d.gov[c], d.ledger[c], time)) => e.due.contracts # {}
    PROVE  In(e, p, c) \/ \E x \in e.due.contracts : p \in x.ids
<1> DEFINE g == d.gov[c]
           l == d.ledger[c]
           m == e.ledger[c]
<1>1. Turned(g, l, m, time)
  BY DEF AllTurned
<1>2. CASE p \in l.ids /\ Turns(g, l, time)
  <2>1. time >= LedgerEnd(l)
    BY <1>2, DueTurns
  <2>2. e.due.contracts = check_staged_cycle(d, time)
    BY <1>2 DEF AllTurned
  <2>3. [contract |-> c, ids |-> l.ids] \in check_staged_cycle(d, time)
    BY <1>2, <2>1 DEF check_staged_cycle
  <2> QED BY <1>2, <2>2, <2>3
<1>3. CASE ~ (p \in l.ids /\ Turns(g, l, time))
  <2>1. p \in l.ids \/ p \in l.pending
    BY DEF In
  <2>2. p \in m.ids \/ p \in m.pending
    <3> HIDE DEF g, l, m
    <3> QED BY <1>1, <1>3, <2>1 DEF Turned
  <2> QED BY <2>2 DEF In
<1> QED BY <1>2, <1>3

(* Storing a block leaves every stored proposal an end, a ledger or a      *)
(* result that is due.                                                     *)
LEMMA StoreForgetsNothing ==
    ASSUME IInv, Remembered, NoRemoval, ~ stopped, StoreBlock, NEW p \in Proposal,
           p \notin missed', p \notin overwritten', Stored(stored', p)
    PROVE  \/ stored'.adaptive[p] # NoTime
           \/ \E x \in stored'.due.contracts : p \in x.ids
           \/ \E c \in Contract : In(stored', p, c)
<1> DEFINE d == Adjusted
           e == stored'
           time == block.time
<1>1. /\ block # NoBlock /\ time \in Times /\ d \in DB /\ AllTurned(d, e, time)
      /\ \A c \in Contract : Timed(d, c)
      /\ Survives(p) /\ Live(p) /\ p \notin missed
      /\ \A c \in Contract :
            (p \in d.ledger[c].ids /\ Turns(d.gov[c], d.ledger[c], time)) => e.due.contracts # {}
  BY StoreFacts
<1>2. \A c \in Contract : Placed(d, p, c)
  BY <1>1, MidPlaced
<1>3. \/ Carried(d, p)
      \/ \E t \in InBlock : t.id = p /\ Joined(d, t)
  BY <1>1, Either
<1>4. InvTypes /\ Resulted(p) /\ \A c \in Contract : InStep(p, c)
  BY <1>1 DEF IInv, InvProposals
<1>5. \A c \in Contract : \/ d.gov[c] = stored.gov[c]
                          \/ d.gov[c] \in Checked
  BY <1>1, BatchLedgers DEF Ledgered, SameTimes
<1> HIDE DEF d, e, time
<1>6. Stored(d, p) /\ e.adaptive = d.adaptive
  BY <1>1 DEF AllTurned, e
<1>7. ASSUME NEW c \in Contract, In(d, p, c)
      PROVE  In(e, p, c) \/ \E x \in e.due.contracts : p \in x.ids
  <2>1. ByLedger(d.gov[c])
    BY <1>2, <1>6, <1>7 DEF Placed
  <2> QED BY <1>1, <1>7, <2>1, KeptThroughTurn
<1>8. ASSUME Carried(d, p)
      PROVE  \/ e.adaptive[p] # NoTime
             \/ \E c \in Contract : In(d, p, c)
  <2>1. /\ Stored(stored, p) /\ d.adaptive[p] = stored.adaptive[p]
        /\ \A r \in Results : r.id = p => ~ r.final
        /\ \A c \in Contract : In(stored, p, c) => In(d, p, c)
    BY <1>6, <1>8 DEF Carried, In
  <2>2. \/ stored.adaptive[p] # NoTime
        \/ Due(p)
        \/ \E c \in Contract : In(stored, p, c)
    BY <1>1, <2>1 DEF Remembered, Live, Stored, In
  <2>3. ASSUME Due(p) PROVE \E c \in Contract : In(stored, p, c)
    <3>1. PICK x \in stored.due.contracts : p \in x.ids
      BY <2>3 DEF Due
    <3>2. x.contract \in Contract /\ DueIn(stored, p, x.contract)
      <4>1. stored \in DB
        BY <1>4 DEF InvTypes
      <4>2. stored.due \in Dues
        BY <4>1, Parts1
      <4> QED BY <3>1, <4>2 DEF Dues, DueIn
    <3>3. PICK r \in Results : r.id = p /\ ~ r.fast
      BY <1>1, <1>4, <2>1, <3>2 DEF Resulted, Counting
    <3>4. /\ ~ r.final /\ DueIn(stored, p, r.contract) /\ ~ Ending(stored, p, r.contract)
      BY <1>4, <2>1, <3>3 DEF Resulted
    <3>5. r.contract \in Contract
      BY <1>1, <1>4 DEF InvTypes, Results, Blocks, Outcomes
    <3>6. p \in stored.ledger[r.contract].ids
      BY <1>4, <2>1, <3>4, <3>5 DEF InStep
    <3> QED BY <3>5, <3>6 DEF In
  <2> QED BY <1>6, <2>1, <2>2, <2>3
<1>9. ASSUME NEW t \in InBlock, t.id = p, Joined(d, t)
      PROVE  \/ e.adaptive[p] # NoTime
             \/ \E c \in Contract : In(d, p, c)
  <2> DEFINE c == t.contract
             g == d.gov[c]
  <2>1. c \in Contract /\ stored.gov[c] # NoGov
    BY <1>1, <1>4 DEF InvTypes, InBlock, Blocks, Txns, Asks
  <2>2. g \in Govs /\ g # NoGov
    <3>1. NoGov \notin Checked
      BY GovAssumption DEF Checked
    <3> QED BY <1>1, <1>5, <2>1, <3>1, Parts1
  <2>3. g.type \in Kinds /\ g.type # "REMOVE"
    <3>1. g \in Governed
      BY <2>2 DEF Govs, Checked, Governed
    <3> QED BY <2>2, <3>1, GovFacts DEF NoRemoval
  <2>4. CASE g.type \in {"ADAPTIVE", "STAGGERED"}
    <3>1. d.adaptive[p] \in Nat
      BY <1>9, <2>4 DEF Joined
    <3> QED BY <1>6, <3>1, ProposalAssumption
  <2>5. CASE g.type \in {"STAGED", "CYCLE"}
    <3>1. ByLedger(g)
      BY <2>2, <2>5 DEF ByLedger
    <3>2. p \in d.ledger[c].pending
      BY <1>9, <2>1, <3>1 DEF Joined
    <3> QED BY <2>1, <3>2 DEF In
  <2> QED BY <2>3, <2>4, <2>5 DEF Kinds
<1> QED BY <1>3, <1>7, <1>8, <1>9 DEF e

(* The other steps leave the databases as they are, or only carry out the  *)
(* transactions of proposals.                                              *)
LEMMA OthersForgetNothing ==
    ASSUME Remembered, UNCHANGED <<missed, overwritten, stopped>>,
           stored'.proposals = stored.proposals, stored'.adaptive = stored.adaptive,
           stored'.ledger = stored.ledger, stored'.due = stored.due
    PROVE  Remembered'
BY DEF Remembered, Due

(* So does every other step.                                               *)
LEMMA NextForgetsNothing ==
    ASSUME Inv, Remembered, NoRemoval, [Next]_vars
    PROVE  Remembered'
<1> SUFFICES ASSUME ~ stopped' PROVE Remembered'
  BY DEF Remembered
<1>1. ~ stopped /\ IInv /\ ~ StopStoring
  BY DEF Inv, Next, StopStoring, vars
<1>2. CASE StoreBlock
  <2> SUFFICES ASSUME NEW p \in Proposal \ (missed' \union overwritten'),
                      Genuine(stored'.proposals[p])
               PROVE  \/ stored'.adaptive[p] # NoTime
                      \/ Due(p)'
                      \/ \E c \in Contract : p \in stored'.ledger[c].ids \union stored'.ledger[c].pending
    BY DEF Remembered
  <2>1. \/ stored'.adaptive[p] # NoTime
        \/ \E x \in stored'.due.contracts : p \in x.ids
        \/ \E c \in Contract : In(stored', p, c)
    BY <1>1, <1>2, StoreForgetsNothing DEF Stored
  <2> QED BY <2>1 DEF Due, In
<1>3. CASE Make
  <2>1. PICK time \in Times, a \in Adjustments : MakeBlock(time, a)
    BY <1>3 DEF Make
  <2>2. /\ stored' = [gov |-> stored.gov, proposals |-> stored.proposals,
                      adaptive |-> stored.adaptive, ledger |-> stored.ledger,
                      due |-> stored.due, govTxn |-> {}]
        /\ UNCHANGED <<missed, overwritten>>
    BY <1>1, <2>1, MadeBlock
  <2>3. UNCHANGED stopped
    BY <1>3, RunsOn
  <2> QED BY <2>2, <2>3, OthersForgetNothing
<1>4. CASE Preprocess \/ UNCHANGED vars
  <2>1. UNCHANGED <<stored, missed, overwritten, stopped>>
    BY <1>4 DEF Preprocess, Propose, CastVote, AskFastQuorum, UpdateGovernance, vars
  <2> QED BY <2>1, OthersForgetNothing
<1> QED BY <1>1, <1>2, <1>3, <1>4 DEF Next

(* An empty record stands where a proposal is over.                        *)
LEMMA NotForgottenOf ==
    ASSUME Inv, Remembered
    PROVE  NotForgotten
<1> SUFFICES ASSUME ~ stopped, NEW p \in Proposal \ (missed \union overwritten),
                    stored.proposals[p] # NoProposal, ~ Genuine(stored.proposals[p])
             PROVE  Over(p)
  BY DEF NotForgotten, Remembered
<1>1. Remnant(p)
  BY DEF Inv, IInv, InvProposals, Live
<1>2. Known(stored, p) /\ ~ Stored(stored, p)
  BY DEF Known, Stored
<1> QED BY <1>1, <1>2 DEF Remnant, Ended, Stored, Over

(* No stored proposal is left without an end, a ledger that comes to it or *)
(* a result that is due, and an empty record stands only in the place of a *)
(* proposal that is over, as long as no governance has the type REMOVE: a  *)
(* proposal to a contract of that type is stored with neither.             *)
THEOREM NoneForgotten ==
    ASSUME NoRemoval
    PROVE  Spec => []NotForgotten
<1>1. Init => Remembered
  <2> SUFFICES ASSUME Init, NEW p \in Proposal, Genuine(stored.proposals[p]) PROVE FALSE
    BY DEF Remembered
  <2> QED BY DEF Init, Genuine
<1>2. Inv /\ Remembered /\ [Next]_vars => Remembered'
  BY NextForgetsNothing
<1>3. Inv /\ Remembered => NotForgotten
  BY NotForgottenOf
<1> QED BY <1>1, <1>2, <1>3, SpecInv, PTL DEF Spec
=============================================================================
