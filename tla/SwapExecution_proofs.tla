------------------------ MODULE SwapExecution_proofs ------------------------
(***************************************************************************)
(* What the page records and shows of a swap is true, for any number of    *)
(* accounts, networks and presses: the fate of each execution's            *)
(* transaction agrees with the phase the execution is in, and the page's   *)
(* status, notice and tracking loop agree with some execution.             *)
(***************************************************************************)
EXTENDS SwapExecution, TLAPS

-----------------------------------------------------------------------------
(* The inductive invariant *)

Before == {"unused", "switch", "signer", "allowance", "approve", "simulate", "send", "sign", "broadcast"}
AtWallet == {"send", "sign", "broadcast"}
AtPrompt == {"approve"} \cup AtWallet
Saving == {"save", "signIn"}

IsExec(x) == x \in [phase : {x.phase}, quote : {x.quote}, account : {x.account}, net : {x.net},
                    from : {x.from}, approvals : {x.approvals}, result : {x.result},
                    signIns : {x.signIns}]

Execs == exec = [i \in Executions |-> exec[i]] /\ \A i \in Executions : IsExec(exec[i])

\* The types the proof needs.
Worlds ==
    /\ chain \in [Executions -> {"none", "sent", "mined", "reverted"}]
    /\ delivery \in [Executions -> {"open", "completed", "failed", "refunded"}]
    /\ recorded \in [Executions -> SUBSET {"submitted", "confirmed"}]
    /\ presses \in Nat /\ notice \in BOOLEAN

Confirmed(i) == chain[i] = "mined" /\ ~Tracked(exec[i].quote)

\* An execution's phase and what is recorded of it agree with the networks.
Fate(i) ==
    /\ exec[i].phase \in Before => chain[i] = "none" /\ recorded[i] = {}
    /\ exec[i].phase \in {"wait", "confirm"} \cup Saving => chain[i] # "none"
    /\ exec[i].phase \in Saving => exec[i].result \in {"submitted", "confirmed"}
    /\ exec[i].phase \in Saving /\ exec[i].result = "confirmed" => Confirmed(i)
    /\ recorded[i] # {} => chain[i] # "none"
    /\ "confirmed" \in recorded[i] => Confirmed(i)
    /\ i > presses => exec[i].phase = "unused"

Fates == \A i \in Executions : Fate(i)

\* The loop follows a route of this page, and the page speaks of it.
TrackingOK ==
    tracking # None =>
        /\ tracking \in [tx : Executions, left : {tracking.left}]
        /\ progress = tracking.tx
        /\ chain[tracking.tx] # "none" /\ Tracked(exec[tracking.tx].quote)

Busy ==
    /\ status = "pending" => \E i \in Executions : exec[i].phase \in AtWallet
    /\ notice = TRUE => \E i \in Executions : exec[i].phase \in AtPrompt

Told ==
    /\ ConfirmedHasArrived
    /\ status = "submitted" => \E i \in Executions : Broadcast(i)

SwapInv == Execs /\ Worlds /\ Fates /\ TrackingOK /\ Busy /\ Told

-----------------------------------------------------------------------------
(* One execution moves *)

LEMMA ExecExcept ==
    ASSUME NEW P, NEW Q, NEW A, NEW N, NEW F, NEW V, NEW R, NEW G,
           NEW x \in [phase : P, quote : Q, account : A, net : N, from : F, approvals : V, result : R,
                      signIns : G],
           NEW p, NEW v, NEW f, NEW r, NEW g
    PROVE  /\ [x EXCEPT !.phase = p].phase = p
           /\ [x EXCEPT !.phase = p].quote = x.quote
           /\ [x EXCEPT !.phase = p].result = x.result
           /\ [x EXCEPT !.phase = p]
                \in [phase : P \cup {p}, quote : Q, account : A, net : N, from : F, approvals : V, result : R,
                     signIns : G]
           /\ [x EXCEPT !.approvals = v, !.phase = p].phase = p
           /\ [x EXCEPT !.approvals = v, !.phase = p].quote = x.quote
           /\ [x EXCEPT !.approvals = v, !.phase = p]
                \in [phase : P \cup {p}, quote : Q, account : A, net : N, from : F, approvals : V \cup {v}, result : R,
                     signIns : G]
           /\ [x EXCEPT !.phase = p, !.signIns = g].phase = p
           /\ [x EXCEPT !.phase = p, !.signIns = g].quote = x.quote
           /\ [x EXCEPT !.phase = p, !.signIns = g].result = x.result
           /\ [x EXCEPT !.phase = p, !.signIns = g]
                \in [phase : P \cup {p}, quote : Q, account : A, net : N, from : F, approvals : V, result : R,
                     signIns : G \cup {g}]
           /\ [x EXCEPT !.phase = p, !.from = f, !.result = r, !.signIns = g].phase = p
           /\ [x EXCEPT !.phase = p, !.from = f, !.result = r, !.signIns = g].quote = x.quote
           /\ [x EXCEPT !.phase = p, !.from = f, !.result = r, !.signIns = g]
                \in [phase : P \cup {p}, quote : Q, account : A, net : N, from : F \cup {f}, approvals : V,
                     result : R \cup {r}, signIns : G \cup {g}]
           /\ [x EXCEPT !.phase = p, !.result = r].phase = p
           /\ [x EXCEPT !.phase = p, !.result = r].quote = x.quote
           /\ [x EXCEPT !.phase = p, !.result = r].result = r
           /\ [x EXCEPT !.phase = p, !.result = r]
                \in [phase : P \cup {p}, quote : Q, account : A, net : N, from : F, approvals : V,
                     result : R \cup {r}, signIns : G]
OBVIOUS

LEMMA IsExecOf ==
    ASSUME NEW P, NEW Q, NEW A, NEW N, NEW F, NEW V, NEW R, NEW G,
           NEW x \in [phase : P, quote : Q, account : A, net : N, from : F, approvals : V, result : R,
                      signIns : G]
    PROVE  IsExec(x)
BY DEF IsExec

\* Execution i goes to phase p, the others stay.
To(i, p) ==
    /\ Execs'
    /\ exec'[i].phase = p /\ exec'[i].quote = exec[i].quote
    /\ \A j \in Executions \ {i} : exec'[j] = exec[j]

LEMMA ExecMoves ==
    ASSUME Execs, NEW i \in Executions, NEW x, IsExec(x), exec' = [exec EXCEPT ![i] = x]
    PROVE  Execs' /\ exec'[i] = x /\ \A j \in Executions \ {i} : exec'[j] = exec[j]
BY DEF Execs

LEMMA GoesTo ==
    ASSUME Execs, NEW i \in Executions, NEW p, Goes(i, p)
    PROVE  To(i, p) /\ exec'[i].result = exec[i].result
<1> DEFINE x == [exec[i] EXCEPT !.phase = p]
<1>1. exec' = [exec EXCEPT ![i] = x]
  BY DEF Goes, Execs
<1>2. IsExec(exec[i])
  BY DEF Execs
<1>3. x.phase = p /\ x.quote = exec[i].quote /\ x.result = exec[i].result
  BY <1>2, ExecExcept, Zenon DEF IsExec
<1>4. IsExec(x)
  BY <1>2, ExecExcept, IsExecOf DEF IsExec
<1> HIDE DEF x
<1> QED
  BY <1>1, <1>3, <1>4, ExecMoves DEF To

LEMMA EndsTo ==
    ASSUME Execs, NEW i \in Executions, Ends(i)
    PROVE  To(i, "done")
<1> DEFINE x == [exec[i] EXCEPT !.phase = "done", !.from = None, !.result = "none", !.signIns = 0]
<1>1. exec' = [exec EXCEPT ![i] = x]
  BY DEF Ends, Execs
<1>2. IsExec(exec[i])
  BY DEF Execs
<1>3. x.phase = "done" /\ x.quote = exec[i].quote
  BY <1>2, ExecExcept, Zenon DEF IsExec
<1>4. IsExec(x)
  BY <1>2, ExecExcept, IsExecOf DEF IsExec
<1> HIDE DEF x
<1> QED
  BY <1>1, <1>3, <1>4, ExecMoves DEF To

LEMMA SavesTo ==
    ASSUME Execs, NEW i \in Executions, NEW result, Saves(i, result)
    PROVE  To(i, "save") /\ exec'[i].result = result
<1> DEFINE x == [exec[i] EXCEPT !.phase = "save", !.result = result]
<1>1. exec' = [exec EXCEPT ![i] = x]
  BY DEF Saves, Execs
<1>2. IsExec(exec[i])
  BY DEF Execs
<1>3. x.phase = "save" /\ x.quote = exec[i].quote /\ x.result = result
  BY <1>2, ExecExcept, Zenon DEF IsExec
<1>4. IsExec(x)
  BY <1>2, ExecExcept, IsExecOf DEF IsExec
<1> HIDE DEF x
<1> QED
  BY <1>1, <1>3, <1>4, ExecMoves DEF To

LEMMA ApprovalsTo ==
    ASSUME Execs, NEW i \in Executions, NEW v, NEW p,
           exec' = [exec EXCEPT ![i] = [@ EXCEPT !.approvals = v, !.phase = p]]
    PROVE  To(i, p)
<1> DEFINE x == [exec[i] EXCEPT !.approvals = v, !.phase = p]
<1>1. exec' = [exec EXCEPT ![i] = x]
  BY DEF Execs
<1>2. IsExec(exec[i])
  BY DEF Execs
<1>3. x.phase = p /\ x.quote = exec[i].quote
  BY <1>2, ExecExcept, Zenon DEF IsExec
<1>4. IsExec(x)
  BY <1>2, ExecExcept, IsExecOf DEF IsExec
<1> HIDE DEF x
<1> QED
  BY <1>1, <1>3, <1>4, ExecMoves DEF To

-----------------------------------------------------------------------------
(* What a step of one execution keeps *)

\* A transaction that was broadcast stays broadcast, by the same quote; one
\* that is mined or delivered stays so.
Lasts ==
    \A j \in Executions :
        /\ chain[j] # "none" => chain'[j] # "none" /\ exec'[j].quote = exec[j].quote
        /\ chain[j] = "mined" => chain'[j] = "mined"
        /\ delivery[j] = "completed" => delivery'[j] = "completed"

\* Of the other executions nothing changes.
OthersStay(i) ==
    \A j \in Executions \ {i} :
        exec'[j] = exec[j] /\ chain'[j] = chain[j] /\ recorded'[j] = recorded[j] /\ delivery'[j] = delivery[j]

LEMMA FatesLast ==
    ASSUME Fates, NEW i \in Executions, OthersStay(i), Fate(i)', presses' >= presses,
           presses \in Nat, presses' \in Nat
    PROVE  Fates'
<1> SUFFICES ASSUME NEW j \in Executions PROVE Fate(j)'
  BY DEF Fates
<1>1. CASE j = i
  BY <1>1
<1>2. CASE j # i
  <2>1. exec'[j] = exec[j] /\ chain'[j] = chain[j] /\ recorded'[j] = recorded[j]
    BY <1>2 DEF OthersStay
  <2>2. Fate(j)
    BY DEF Fates
  <2>3. j > presses' => j > presses
    BY DEF Executions
  <2> QED
    BY <2>1, <2>2, <2>3 DEF Fate, Confirmed
<1> QED
  BY <1>1, <1>2

LEMMA TrackingLasts ==
    ASSUME TrackingOK, UNCHANGED <<tracking, progress>>, Lasts
    PROVE  TrackingOK'
<1> SUFFICES ASSUME tracking # None PROVE TrackingOK'
  BY DEF TrackingOK
<1>1. /\ tracking \in [tx : Executions, left : {tracking.left}] /\ progress = tracking.tx
      /\ chain[tracking.tx] # "none" /\ Tracked(exec[tracking.tx].quote)
  BY DEF TrackingOK
<1>2. tracking.tx \in Executions
  BY <1>1
<1>3. chain'[tracking.tx] # "none" /\ exec'[tracking.tx].quote = exec[tracking.tx].quote
  BY <1>1, <1>2 DEF Lasts
<1> QED
  BY <1>1, <1>3 DEF TrackingOK

\* An execution that is at the wallet leaves only by changing what is shown.
LEMMA BusyLasts ==
    ASSUME Busy, NEW i \in Executions, OthersStay(i),
           status' = "pending" =>
               exec'[i].phase \in AtWallet \/ (status = "pending" /\ exec[i].phase \notin AtWallet),
           notice' = TRUE =>
               exec'[i].phase \in AtPrompt \/ (notice = TRUE /\ exec[i].phase \notin AtPrompt)
    PROVE  Busy'
<1>1. ASSUME status' = "pending" PROVE \E j \in Executions : exec'[j].phase \in AtWallet
  <2>1. CASE exec'[i].phase \in AtWallet
    BY <2>1
  <2>2. CASE status = "pending" /\ exec[i].phase \notin AtWallet
    <3>1. PICK j \in Executions : exec[j].phase \in AtWallet
      BY <2>2 DEF Busy
    <3> QED
      BY <2>2, <3>1 DEF OthersStay
  <2> QED
    BY <1>1, <2>1, <2>2
<1>2. ASSUME notice' = TRUE PROVE \E j \in Executions : exec'[j].phase \in AtPrompt
  <2>1. CASE exec'[i].phase \in AtPrompt
    BY <2>1
  <2>2. CASE notice = TRUE /\ exec[i].phase \notin AtPrompt
    <3>1. PICK j \in Executions : exec[j].phase \in AtPrompt
      BY <2>2 DEF Busy
    <3> QED
      BY <2>2, <3>1 DEF OthersStay
  <2> QED
    BY <1>2, <2>1, <2>2
<1> QED
  BY <1>1, <1>2 DEF Busy

LEMMA ToldLasts ==
    ASSUME Told, Lasts,
           status' = "confirmed" =>
               status = "confirmed" \/ \E i \in Executions : (Broadcast(i) /\ Arrived(i))',
           status' = "submitted" => status = "submitted" \/ \E i \in Executions : chain'[i] # "none"
    PROVE  Told'
<1>1. ASSUME status = "confirmed" PROVE \E i \in Executions : (Broadcast(i) /\ Arrived(i))'
  <2>1. PICK i \in Executions : Broadcast(i) /\ Arrived(i)
    BY <1>1 DEF Told, ConfirmedHasArrived
  <2>2. (Broadcast(i) /\ Arrived(i))'
    BY <2>1 DEF Lasts, Broadcast, Arrived
  <2> QED
    BY <2>2
<1>2. ASSUME status = "submitted" PROVE \E i \in Executions : chain'[i] # "none"
  BY <1>2 DEF Told, Broadcast, Lasts
<1> QED
  BY <1>1, <1>2 DEF Told, ConfirmedHasArrived, Broadcast

\* An execution goes on and the page shows something else.
LEMMA ExecStep ==
    ASSUME SwapInv, NEW i \in Executions, NEW p, To(i, p), Worlds', UNCHANGED <<delivery, presses>>,
           \A j \in Executions \ {i} : chain'[j] = chain[j] /\ recorded'[j] = recorded[j],
           chain[i] # "none" => chain'[i] = chain[i],
           Fate(i)', TrackingOK' \/ UNCHANGED <<tracking, progress>>,
           status' = "pending" => p \in AtWallet \/ (status = "pending" /\ exec[i].phase \notin AtWallet),
           notice' = TRUE => p \in AtPrompt \/ (notice = TRUE /\ exec[i].phase \notin AtPrompt),
           status' = "confirmed" => status = "confirmed" \/ (Broadcast(i) /\ Arrived(i))',
           status' = "submitted" => status = "submitted" \/ chain'[i] # "none"
    PROVE  SwapInv'
<1>1. Lasts
  BY DEF Lasts, To
<1>2. OthersStay(i)
  BY DEF OthersStay, To
<1>3. Fates'
  BY <1>2, FatesLast DEF SwapInv, Worlds
<1>4. TrackingOK'
  BY <1>1, TrackingLasts DEF SwapInv
<1>5. Busy'
  BY <1>2, BusyLasts DEF SwapInv, To
<1>6. Told'
  BY <1>1, ToldLasts DEF SwapInv
<1> QED
  BY <1>3, <1>4, <1>5, <1>6 DEF SwapInv, To

\* The page alone changes.
LEMMA PageStays ==
    ASSUME SwapInv, UNCHANGED <<exec, worldVars, recorded, presses>>, notice' \in BOOLEAN,
           TrackingOK' \/ UNCHANGED <<tracking, progress>>,
           status' = "pending" => status = "pending", notice' = TRUE => notice = TRUE,
           status' = "confirmed" =>
               status = "confirmed" \/ \E i \in Executions : Broadcast(i) /\ Arrived(i),
           status' = "submitted" => status = "submitted"
    PROVE  SwapInv'
<1>1. Lasts
  BY DEF Lasts, worldVars
<1>2. TrackingOK'
  BY <1>1, TrackingLasts DEF SwapInv
<1>3. Told'
  <2>1. status' = "confirmed" =>
          status = "confirmed" \/ \E i \in Executions : (Broadcast(i) /\ Arrived(i))'
    BY DEF Broadcast, Arrived, worldVars
  <2> QED
    BY <1>1, <2>1, ToldLasts DEF SwapInv
<1>4. Execs' /\ Worlds' /\ Fates' /\ Busy'
  BY DEF SwapInv, Execs, Worlds, Fates, Fate, Confirmed, Busy, worldVars
<1> QED
  BY <1>2, <1>3, <1>4 DEF SwapInv

-----------------------------------------------------------------------------
(* The steps of executeSwap *)

LEMMA CaughtStep ==
    ASSUME SwapInv, NEW i \in Executions, exec[i].phase # "unused", Caught(i),
           UNCHANGED <<delivery, recorded, presses, tracking>>,
           UNCHANGED chain \/ (chain[i] = "none" /\ Sent(i))
    PROVE  SwapInv'
<1>1. To(i, "done") /\ status' = "failed" /\ notice' = FALSE /\ UNCHANGED progress
  BY EndsTo DEF SwapInv, Caught, Shows
<1>2. Worlds' /\ (\A j \in Executions \ {i} : chain'[j] = chain[j]) /\ (chain[i] # "none" => chain'[i] = chain[i])
  BY <1>1 DEF SwapInv, Worlds, Sent
<1>3. Fate(i)'
  BY <1>1, <1>2 DEF SwapInv, Fates, Fate, Confirmed, Before, To, Worlds, Saving
<1> QED
  BY <1>1, <1>2, <1>3, ExecStep

\* An execution goes on before anything was sent.
LEMMA BeforeStep ==
    ASSUME SwapInv, NEW i \in Executions, NEW p, To(i, p),
           exec[i].phase \in Before \ {"unused"}, p \in Before,
           UNCHANGED <<worldVars, recorded, presses, tracking, progress>>, notice' \in BOOLEAN,
           status' = "pending" => p \in AtWallet \/ (status = "pending" /\ exec[i].phase \notin AtWallet),
           notice' = TRUE => p \in AtPrompt \/ (notice = TRUE /\ exec[i].phase \notin AtPrompt),
           status' = "confirmed" => status = "confirmed",
           status' = "submitted" => status = "submitted"
    PROVE  SwapInv'
<1>1. Worlds'
  BY DEF SwapInv, Worlds, worldVars
<1>2. Fate(i)'
  BY DEF SwapInv, Fates, Fate, Confirmed, Before, To, worldVars, Saving
<1> QED
  BY <1>1, <1>2, ExecStep DEF worldVars

LEMMA SwitchAnswersStep ==
    ASSUME SwapInv, NEW i \in Executions, SwitchAnswers(i) PROVE SwapInv'
<1>1. To(i, "signer") /\ exec[i].phase = "switch"
  BY GoesTo DEF SwitchAnswers, At, SwapInv
<1>2. UNCHANGED <<worldVars, recorded, presses, tracking, progress, status, notice>>
  BY DEF SwitchAnswers, shownVars
<1>3. notice' \in BOOLEAN
  BY <1>2 DEF SwapInv, Worlds
<1> QED
  BY <1>1, <1>2, <1>3, BeforeStep DEF Before, AtWallet, AtPrompt

LEMMA SignerAnswersStep ==
    ASSUME SwapInv, NEW i \in Executions, SignerAnswers(i) PROVE SwapInv'
<1>1. exec[i].phase = "signer" /\ UNCHANGED <<worldVars, recorded, presses, tracking>>
  BY DEF SignerAnswers, At, PageStep
<1>2. CASE Caught(i)
  BY <1>1, <1>2, CaughtStep DEF worldVars
<1>3. ASSUME NEW p \in {"simulate", "allowance"}, Goes(i, p), UNCHANGED shownVars PROVE SwapInv'
  <2>1. To(i, p)
    BY <1>3, GoesTo DEF SwapInv
  <2>2. UNCHANGED <<status, notice, progress>> /\ notice' \in BOOLEAN
    BY <1>3 DEF shownVars, SwapInv, Worlds
  <2>3. exec[i].phase \in Before \ {"unused"} /\ p \in Before
    BY <1>1 DEF Before
  <2>4. exec[i].phase \notin AtWallet /\ exec[i].phase \notin AtPrompt
    BY <1>1 DEF AtWallet, AtPrompt
  <2> QED
    BY <1>1, <2>1, <2>2, <2>3, <2>4, BeforeStep
<1> QED
  BY <1>2, <1>3 DEF SignerAnswers

LEMMA ReadAllowanceStep ==
    ASSUME SwapInv, NEW i \in Executions, ReadAllowance(i) PROVE SwapInv'
<1>1. exec[i].phase = "allowance" /\ UNCHANGED <<worldVars, recorded, presses, tracking>>
  BY DEF ReadAllowance, At, PageStep
<1>2. CASE Caught(i)
  BY <1>1, <1>2, CaughtStep DEF worldVars
<1>3. CASE ~Caught(i)
  <2>1. PICK plan \in 0 .. 2 :
          /\ exec' = [exec EXCEPT ![i] = [@ EXCEPT !.approvals = plan,
                                            !.phase = IF plan = 0 THEN "simulate" ELSE "approve"]]
          /\ notice' = (plan # 0) /\ UNCHANGED <<status, progress>>
    BY <1>3 DEF ReadAllowance
  <2> DEFINE p == IF plan = 0 THEN "simulate" ELSE "approve"
  <2>2. To(i, p)
    BY <2>1, ApprovalsTo DEF SwapInv
  <2>3. p \in Before /\ (plan # 0 => p \in AtPrompt)
    BY DEF Before, AtPrompt
  <2>4. exec[i].phase \in Before \ {"unused"} /\ exec[i].phase \notin AtWallet
    BY <1>1 DEF Before, AtWallet
  <2>5. notice' \in BOOLEAN /\ (notice' = TRUE => plan # 0)
    BY <2>1
  <2> HIDE DEF p
  <2> QED
    BY <1>1, <2>1, <2>2, <2>3, <2>4, <2>5, BeforeStep
<1> QED
  BY <1>2, <1>3

LEMMA ApprovalMinedStep ==
    ASSUME SwapInv, NEW i \in Executions, ApprovalMined(i) PROVE SwapInv'
<1> DEFINE left == exec[i].approvals - 1
           p == IF left = 0 THEN "simulate" ELSE "approve"
<1>1. exec[i].phase = "approve" /\ UNCHANGED <<worldVars, recorded, presses, tracking>>
  BY DEF ApprovalMined, At, PageStep
<1>2. /\ exec' = [exec EXCEPT ![i] = [@ EXCEPT !.approvals = left, !.phase = p]]
      /\ notice' = (left # 0) /\ UNCHANGED <<status, progress>>
  BY DEF ApprovalMined
<1>3. p \in Before /\ (left # 0 => p \in AtPrompt)
  BY DEF Before, AtPrompt
<1>4. notice' \in BOOLEAN /\ (notice' = TRUE => left # 0)
  BY <1>2
<1>5. exec[i].phase \in Before \ {"unused"} /\ exec[i].phase \notin AtWallet
  BY <1>1 DEF Before, AtWallet
<1> HIDE DEF left, p
<1>6. To(i, p)
  BY <1>2, ApprovalsTo DEF SwapInv
<1> QED
  BY <1>1, <1>2, <1>3, <1>4, <1>5, <1>6, BeforeStep

LEMMA SimulatedStep ==
    ASSUME SwapInv, NEW i \in Executions, Simulated(i) PROVE SwapInv'
<1>1. /\ exec[i].phase = "simulate" /\ UNCHANGED <<worldVars, recorded, presses, tracking, progress>>
      /\ status' = "pending" /\ notice' = TRUE
  BY DEF Simulated, At, PageStep, Shows
<1>2. To(i, "send")
  BY GoesTo DEF SwapInv, Simulated
<1> QED
  BY <1>1, <1>2, BeforeStep DEF Before, AtWallet, AtPrompt

LEMMA RefusedStep ==
    ASSUME SwapInv, NEW i \in Executions, Refused(i) PROVE SwapInv'
<1>1. exec[i].phase # "unused" /\ Caught(i) /\ UNCHANGED <<chain, delivery, recorded, presses, tracking>>
  BY DEF Refused, PageStep, worldVars
<1> QED
  BY <1>1, CaughtStep

LEMMA BitcoinSignedStep ==
    ASSUME SwapInv, NEW i \in Executions, BitcoinSigned(i) PROVE SwapInv'
<1>1. /\ exec[i].phase = "sign" /\ UNCHANGED <<worldVars, recorded, presses, tracking, progress, status>>
      /\ notice' = TRUE
  BY DEF BitcoinSigned, At, PageStep
<1>2. To(i, "broadcast")
  BY GoesTo DEF SwapInv, BitcoinSigned
<1> QED
  BY <1>1, <1>2, BeforeStep DEF Before, AtWallet, AtPrompt

\* The transaction has been taken: the execution goes on to wait or to save.
LEMMA SubmittedStep ==
    ASSUME SwapInv, NEW i \in Executions, NEW p \in {"wait", "confirm", "save"}, To(i, p),
           p = "save" => exec'[i].result = "submitted",
           exec[i].phase \in Before \ {"unused"}, Submitted(i)
    PROVE  SwapInv'
<1>1. /\ status' = "submitted" /\ notice' = FALSE /\ chain' = [chain EXCEPT ![i] = "sent"]
      /\ UNCHANGED <<delivery, recorded, presses, tracking, progress>>
  BY DEF Submitted, Shows, Sent
<1>2. chain[i] = "none" /\ recorded[i] = {} /\ i <= presses
  BY DEF SwapInv, Fates, Fate, Before, Worlds, Executions
<1>3. Worlds' /\ chain'[i] = "sent" /\ \A j \in Executions \ {i} : chain'[j] = chain[j]
  BY <1>1 DEF SwapInv, Worlds
<1>4. Fate(i)'
  BY <1>1, <1>2, <1>3 DEF Fate, Before, To, Worlds, Executions, Saving
<1> QED
  BY <1>1, <1>2, <1>3, <1>4, ExecStep

LEMMA SwapSentStep ==
    ASSUME SwapInv, NEW i \in Executions, SwapSent(i) PROVE SwapInv'
<1>1. exec[i].phase \in Before \ {"unused"} /\ Submitted(i) /\ To(i, "wait")
  BY GoesTo DEF SwapInv, SwapSent, At, Before
<1> QED
  BY <1>1, SubmittedStep

LEMMA BitcoinBroadcastStep ==
    ASSUME SwapInv, NEW i \in Executions, BitcoinBroadcast(i) PROVE SwapInv'
<1>1. /\ exec[i].phase \in Before \ {"unused"} /\ Submitted(i)
      /\ To(i, "save") /\ exec'[i].result = "submitted"
  BY SavesTo DEF SwapInv, BitcoinBroadcast, At, Before
<1> QED
  BY <1>1, SubmittedStep

LEMMA SolanaSentStep ==
    ASSUME SwapInv, NEW i \in Executions, SolanaSent(i) PROVE SwapInv'
<1>1. exec[i].phase \in Before \ {"unused"} /\ Submitted(i)
  BY DEF SwapInv, SolanaSent, At, Before
<1>2. CASE Saves(i, "submitted")
  <2>1. To(i, "save") /\ exec'[i].result = "submitted"
    BY <1>2, SavesTo DEF SwapInv
  <2> QED
    BY <1>1, <2>1, SubmittedStep
<1>3. CASE Goes(i, "confirm")
  <2>1. To(i, "confirm")
    BY <1>3, GoesTo DEF SwapInv
  <2> QED
    BY <1>1, <2>1, SubmittedStep
<1> QED
  BY <1>2, <1>3 DEF SolanaSent

LEMMA BroadcastFailsStep ==
    ASSUME SwapInv, NEW i \in Executions, BroadcastFails(i) PROVE SwapInv'
<1>1. /\ exec[i].phase = "broadcast" /\ Caught(i) /\ UNCHANGED <<delivery, recorded, presses, tracking>>
      /\ Sent(i) \/ UNCHANGED chain
  BY DEF BroadcastFails, At
<1>2. chain[i] = "none"
  BY <1>1 DEF SwapInv, Fates, Fate, Before, Saving
<1> QED
  BY <1>1, <1>2, CaughtStep

LEMMA ReceiptStep ==
    ASSUME SwapInv, NEW i \in Executions, Receipt(i) PROVE SwapInv'
<1>1. /\ exec[i].phase \in {"wait", "confirm"} /\ chain[i] # "none"
      /\ UNCHANGED <<worldVars, recorded, presses, tracking, progress>>
  BY DEF Receipt, At, PageStep, SwapInv, Fates, Fate
<1>2. i <= presses /\ exec[i].phase \notin AtPrompt /\ exec[i].phase \notin AtWallet
  BY <1>1 DEF SwapInv, Fates, Fate, Worlds, Executions, AtPrompt, AtWallet
<1>3. CASE chain[i] = "mined"
  <2> DEFINE result == HistoryStatus(exec[i].quote)
  <2>1. To(i, "save") /\ exec'[i].result = result
    BY <1>3, SavesTo DEF SwapInv, Receipt
  <2>2. status' = result /\ UNCHANGED notice
    BY <1>3 DEF Receipt, Shows
  <2>3. result \in {"submitted", "confirmed"} /\ (result = "confirmed" => ~Tracked(exec[i].quote))
    BY DEF HistoryStatus
  <2> HIDE DEF result
  <2>4. Worlds'
    BY <1>1, <2>2 DEF SwapInv, Worlds, worldVars
  <2>5. Fate(i)'
    BY <1>1, <1>2, <1>3, <2>1, <2>3 DEF SwapInv, Fates, Fate, Confirmed, Before, To, Worlds, worldVars, Executions, Saving
  <2>6. result = "confirmed" => (Broadcast(i) /\ Arrived(i))'
    BY <1>1, <1>3, <2>1, <2>3 DEF Broadcast, Arrived, To, worldVars
  <2> QED
    BY <1>1, <1>2, <2>1, <2>2, <2>3, <2>4, <2>5, <2>6, ExecStep DEF worldVars
<1>4. CASE chain[i] # "mined"
  <2>1. To(i, "done") /\ status' = "failed" /\ notice' = (notice /\ At(i, "wait"))
    BY <1>4, EndsTo DEF SwapInv, Receipt, Shows
  <2>2. notice' \in BOOLEAN /\ (notice' = TRUE => notice = TRUE)
    BY <2>1 DEF SwapInv, Worlds
  <2>3. Worlds'
    BY <1>1, <2>2 DEF SwapInv, Worlds, worldVars
  <2>4. Fate(i)'
    BY <1>1, <1>2, <2>1 DEF SwapInv, Fates, Fate, Confirmed, Before, To, Worlds, worldVars, Executions, Saving
  <2> QED
    BY <1>1, <1>2, <2>1, <2>2, <2>3, <2>4, ExecStep DEF worldVars
<1> QED
  BY <1>3, <1>4

LEMMA WaitFailsStep ==
    ASSUME SwapInv, NEW i \in Executions, WaitFails(i) PROVE SwapInv'
<1>1. exec[i].phase # "unused" /\ Caught(i) /\ UNCHANGED <<chain, delivery, recorded, presses, tracking>>
  BY DEF WaitFails, At, PageStep, worldVars
<1> QED
  BY <1>1, CaughtStep

LEMMA UnconfirmedStep ==
    ASSUME SwapInv, NEW i \in Executions, Unconfirmed(i) PROVE SwapInv'
<1>1. /\ exec[i].phase = "confirm" /\ chain[i] # "none" /\ i <= presses
      /\ UNCHANGED <<worldVars, recorded, presses, tracking, progress, notice>>
      /\ status' = "submitted"
  BY DEF Unconfirmed, At, PageStep, Shows, SwapInv, Fates, Fate, Worlds, Executions, Saving
<1>2. To(i, "save") /\ exec'[i].result = "submitted"
  BY SavesTo DEF SwapInv, Unconfirmed
<1>3. Worlds'
  BY <1>1 DEF SwapInv, Worlds, worldVars
<1>4. Fate(i)'
  BY <1>1, <1>2 DEF SwapInv, Fates, Fate, Confirmed, Before, To, Worlds, worldVars, Executions, Saving
<1> QED
  BY <1>1, <1>2, <1>3, <1>4, ExecStep DEF worldVars, AtPrompt, AtWallet

\* A save ends, recorded or not, and the route is followed.
LEMMA SettledStep ==
    ASSUME SwapInv, NEW i \in Executions, exec[i].phase \in Saving, Settled(i),
           recorded' = recorded \/ recorded' = [recorded EXCEPT ![i] = @ \cup {exec[i].result}]
    PROVE  SwapInv'
<1>1. /\ chain[i] # "none" /\ i <= presses
      /\ exec[i].result \in {"submitted", "confirmed"} /\ (exec[i].result = "confirmed" => Confirmed(i))
      /\ UNCHANGED <<worldVars, presses, status, notice>>
  BY DEF Settled, Saving, SwapInv, Fates, Fate, Worlds, Executions
<1>2. To(i, "done")
  BY EndsTo DEF SwapInv, Settled
<1>4. Worlds' /\ \A j \in Executions \ {i} : recorded'[j] = recorded[j]
  BY <1>1 DEF SwapInv, Worlds, worldVars
<1>5. recorded'[i] = recorded[i] \/ recorded'[i] = recorded[i] \cup {exec[i].result}
  BY DEF SwapInv, Worlds
<1>6. "confirmed" \in recorded'[i] => Confirmed(i)
  BY <1>1, <1>5 DEF SwapInv, Fates, Fate
<1>7. Fate(i)'
  BY <1>1, <1>2, <1>6 DEF Fate, Confirmed, Before, Saving, To, worldVars, Worlds, SwapInv, Executions
<1>8. CASE UNCHANGED <<tracking, progress>>
  BY <1>1, <1>2, <1>4, <1>7, <1>8, ExecStep DEF worldVars, AtPrompt, AtWallet, Saving
<1>9. CASE Tracked(exec[i].quote) /\ tracking' = [tx |-> i, left |-> MaxAttempts] /\ progress' = i
  <2>1. TrackingOK'
    BY <1>1, <1>2, <1>9 DEF TrackingOK, To, worldVars
  <2> QED
    BY <1>1, <1>2, <1>4, <1>7, <2>1, ExecStep DEF worldVars, AtPrompt, AtWallet, Saving
<1> QED
  BY <1>8, <1>9 DEF Settled, Monitored

LEMMA SaveStep ==
    ASSUME SwapInv, NEW i \in Executions, NEW done, Save(i, done) PROVE SwapInv'
BY SettledStep DEF Save, At, Saving

\* A save goes on: it waits for the user, or is no longer waiting.
LEMMA SavingStep ==
    ASSUME SwapInv, NEW i \in Executions, exec[i].phase \in Saving, NEW p \in Saving, To(i, p),
           exec'[i].result = exec[i].result,
           UNCHANGED <<worldVars, recorded, presses, tracking, shownVars>>
    PROVE  SwapInv'
<1>1. Worlds' /\ UNCHANGED <<chain, delivery, recorded, presses, tracking, status, notice, progress>>
  BY DEF SwapInv, Worlds, worldVars, shownVars
<1>2. Fate(i)'
  BY <1>1 DEF SwapInv, Fates, Fate, Confirmed, Before, Saving, To
<1> QED
  BY <1>1, <1>2, ExecStep DEF AtPrompt, AtWallet, Saving

LEMMA SignInAskedStep ==
    ASSUME SwapInv, NEW i \in Executions, SignInAsked(i) PROVE SwapInv'
<1>1. exec[i].phase = "save" /\ UNCHANGED <<worldVars, recorded, presses, tracking, shownVars>>
  BY DEF SignInAsked, At, PageStep
<1>2. PICK n \in 1 .. 2 : exec' = [exec EXCEPT ![i] = [@ EXCEPT !.phase = "signIn", !.signIns = n]]
  BY DEF SignInAsked
<1> DEFINE x == [exec[i] EXCEPT !.phase = "signIn", !.signIns = n]
<1>3. exec' = [exec EXCEPT ![i] = x]
  BY <1>2 DEF SwapInv, Execs
<1>4. IsExec(exec[i])
  BY DEF SwapInv, Execs
<1>5. x.phase = "signIn" /\ x.quote = exec[i].quote /\ x.result = exec[i].result
  BY <1>4, ExecExcept, Zenon DEF IsExec
<1>6. IsExec(x)
  BY <1>4, ExecExcept, IsExecOf DEF IsExec
<1> HIDE DEF x
<1>7. To(i, "signIn") /\ exec'[i].result = exec[i].result
  BY <1>3, <1>5, <1>6, ExecMoves DEF To, SwapInv
<1> QED
  BY <1>1, <1>7, SavingStep DEF Saving

LEMMA SignInEndsStep ==
    ASSUME SwapInv, NEW i \in Executions, SignInEnds(i) PROVE SwapInv'
<1>1. exec[i].phase = "signIn"
  BY DEF SignInEnds, At
<1>2. CASE Settled(i) /\ UNCHANGED recorded
  BY <1>1, <1>2, SettledStep DEF Saving
<1>3. CASE Goes(i, "save") /\ UNCHANGED <<shownVars, recorded, tracking, worldVars, presses>>
  <2>1. To(i, "save") /\ exec'[i].result = exec[i].result
    BY <1>3, GoesTo DEF SwapInv
  <2> QED
    BY <1>1, <1>3, <2>1, SavingStep DEF Saving
<1> QED
  BY <1>2, <1>3 DEF SignInEnds

-----------------------------------------------------------------------------
(* The networks, and the loop *)

\* The networks move; the page and the executions stay.
LEMMA WorldStep ==
    ASSUME SwapInv, NEW i \in Executions, Worlds',
           UNCHANGED <<exec, status, notice, progress, tracking, presses, recorded>>,
           \A j \in Executions \ {i} : chain'[j] = chain[j] /\ delivery'[j] = delivery[j],
           chain'[i] = chain[i] \/ (chain[i] = "sent" /\ chain'[i] # "none"),
           delivery[i] = "completed" => delivery'[i] = "completed"
    PROVE  SwapInv'
<1>1. Lasts
  BY DEF Lasts
<1>2. TrackingOK'
  BY <1>1, TrackingLasts DEF SwapInv
<1>3. Told'
  BY <1>1, ToldLasts DEF SwapInv
<1>4. Fate(i)' /\ OthersStay(i)
  BY DEF SwapInv, Fates, Fate, Confirmed, OthersStay, Before
<1>5. Fates'
  BY <1>4, FatesLast DEF SwapInv, Worlds
<1>6. Execs' /\ Busy'
  BY DEF SwapInv, Execs, Busy
<1> QED
  BY <1>2, <1>3, <1>5, <1>6 DEF SwapInv

LEMMA MineStep ==
    ASSUME SwapInv, NEW i \in Executions, NEW result \in {"mined", "reverted"}, Mine(i, result) PROVE SwapInv'
<1>1. /\ chain[i] = "sent" /\ chain' = [chain EXCEPT ![i] = result]
      /\ UNCHANGED <<exec, status, notice, progress, tracking, presses, recorded, delivery>>
  BY DEF Mine, shownVars
<1>2. /\ Worlds' /\ chain'[i] # "none"
      /\ \A j \in Executions \ {i} : chain'[j] = chain[j] /\ delivery'[j] = delivery[j]
  BY <1>1 DEF SwapInv, Worlds
<1> QED
  BY <1>1, <1>2, WorldStep

LEMMA DeliverStep ==
    ASSUME SwapInv, NEW i \in Executions, NEW result \in {"completed", "failed", "refunded"}, Deliver(i, result)
    PROVE  SwapInv'
<1>1. /\ delivery[i] = "open" /\ delivery' = [delivery EXCEPT ![i] = result]
      /\ UNCHANGED <<exec, status, notice, progress, tracking, presses, recorded, chain>>
  BY DEF Deliver, shownVars
<1>2. Worlds' /\ \A j \in Executions \ {i} : chain'[j] = chain[j] /\ delivery'[j] = delivery[j]
  BY <1>1 DEF SwapInv, Worlds
<1> QED
  BY <1>1, <1>2, WorldStep

\* The next attempt follows the same route.
LEMMA NextAttemptTracks ==
    ASSUME SwapInv, tracking # None, tracking' = NextAttempt, progress' = tracking.tx, UNCHANGED <<exec, chain>>
    PROVE  TrackingOK'
<1>1. /\ tracking \in [tx : Executions, left : {tracking.left}]
      /\ chain[tracking.tx] # "none" /\ Tracked(exec[tracking.tx].quote)
  BY DEF SwapInv, TrackingOK
<1>2. CASE tracking' = None
  BY <1>2 DEF TrackingOK
<1>3. CASE tracking' = [tracking EXCEPT !.left = @ - 1]
  <2>1. tracking' \in [tx : Executions, left : {tracking.left - 1}] /\ tracking'.tx = tracking.tx
    BY <1>1, <1>3
  <2>2. tracking' \in [tx : Executions, left : {tracking'.left}]
    BY <2>1
  <2> QED
    BY <1>1, <2>1, <2>2 DEF TrackingOK
<1> QED
  BY <1>2, <1>3 DEF NextAttempt

LEMMA PollStep == ASSUME SwapInv, Poll PROVE SwapInv'
<1>1. /\ tracking # None /\ progress' = tracking.tx
      /\ UNCHANGED <<exec, worldVars, recorded, presses, notice>>
  BY DEF Poll
<1>2. /\ tracking.tx \in Executions /\ chain[tracking.tx] # "none" /\ Tracked(exec[tracking.tx].quote)
      /\ notice' \in BOOLEAN
  BY <1>1 DEF SwapInv, TrackingOK, Worlds
<1>3. CASE tracking' = NextAttempt /\ UNCHANGED status
  <2>1. TrackingOK'
    BY <1>1, <1>3, NextAttemptTracks DEF worldVars
  <2> QED
    BY <1>1, <1>2, <1>3, <2>1, PageStays
<1>4. CASE RouteState(tracking.tx) # "open" /\ tracking' = None /\ Shows(ShownAs(RouteState(tracking.tx)))
  <2>1. TrackingOK'
    BY <1>4 DEF TrackingOK
  <2>2. delivery[tracking.tx] \in {"completed", "failed", "refunded"}
    BY <1>2, <1>4 DEF SwapInv, Worlds, RouteState
  <2>3. /\ status' \in {"confirmed", "failed", "refunded"}
        /\ status' = "confirmed" => Broadcast(tracking.tx) /\ Arrived(tracking.tx)
    BY <1>2, <1>4, <2>2 DEF Shows, ShownAs, RouteState, Broadcast, Arrived
  <2> QED
    BY <1>1, <1>2, <2>1, <2>3, PageStays
<1> QED
  BY <1>3, <1>4 DEF Poll

LEMMA PollFailsStep == ASSUME SwapInv, PollFails PROVE SwapInv'
<1>1. /\ tracking # None /\ tracking' = NextAttempt
      /\ UNCHANGED <<exec, worldVars, recorded, presses, notice, status, progress>>
  BY DEF PollFails, shownVars
<1>2. progress' = tracking.tx /\ notice' \in BOOLEAN
  BY <1>1 DEF SwapInv, TrackingOK, Worlds
<1>3. TrackingOK'
  BY <1>1, <1>2, NextAttemptTracks DEF worldVars
<1> QED
  BY <1>1, <1>2, <1>3, PageStays

-----------------------------------------------------------------------------
(* The form, the wallet and the button *)

\* What clears the form, and what the form does otherwise.
LEMMA FormStep ==
    ASSUME SwapInv, UNCHANGED <<exec, worldVars, recorded, presses>>,
           \/ Cleared
           \/ UNCHANGED <<status, notice, progress, tracking>>
           \/ status' = "idle" /\ notice' = FALSE /\ UNCHANGED <<progress, tracking>>
    PROVE  SwapInv'
<1>1. CASE Cleared
  <2>1. TrackingOK' /\ status' = "idle" /\ notice' = FALSE
    BY <1>1 DEF Cleared, TrackingOK
  <2> QED
    BY <2>1, PageStays
<1>2. CASE UNCHANGED <<status, notice, progress, tracking>>
  <2>1. notice' \in BOOLEAN
    BY <1>2 DEF SwapInv, Worlds
  <2> QED
    BY <1>2, <2>1, PageStays
<1>3. CASE status' = "idle" /\ notice' = FALSE /\ UNCHANGED <<progress, tracking>>
  BY <1>3, PageStays
<1> QED
  BY <1>1, <1>2, <1>3

\* A press starts an execution that was not used before.
LEMMA PressStep == ASSUME SwapInv, Press PROVE SwapInv'
<1>0. PICK i : i = presses + 1
  OBVIOUS
<1>1. /\ presses' = i /\ i \in Executions /\ i > presses /\ presses \in Nat
      /\ presses' \in Nat /\ presses' >= presses /\ ~(i > presses')
      /\ UNCHANGED <<worldVars, recorded, tracking, progress>>
  BY <1>0, PressesAssumption DEF Press, SwapInv, Worlds, Executions
<1>2. exec[i].phase = "unused" /\ chain[i] = "none" /\ recorded[i] = {}
  BY <1>1 DEF SwapInv, Fates, Fate, Before, Saving
<1>3. PICK phase \in {"done", "signer", "switch", "sign"} :
        /\ exec' = [exec EXCEPT ![i] = [phase |-> phase, quote |-> quote, account |-> account, net |-> net,
                                         from |-> walletNet, approvals |-> 0, result |-> "none", signIns |-> 0]]
        /\ \/ status' = "failed" /\ notice' = FALSE
           \/ notice' = FALSE /\ UNCHANGED status
           \/ phase = "sign" /\ status' = "pending" /\ notice' = TRUE
        /\ status # "pending"
  BY <1>1 DEF Press, Shows, swapBusy
<1>4. exec'[i].phase = phase /\ \A j \in Executions \ {i} : exec'[j] = exec[j]
  BY <1>1, <1>3 DEF SwapInv, Execs
<1>5. Execs'
  <2> DEFINE x == [phase |-> phase, quote |-> quote, account |-> account, net |-> net,
                   from |-> walletNet, approvals |-> 0, result |-> "none", signIns |-> 0]
  <2>1. IsExec(x) /\ exec' = [exec EXCEPT ![i] = x]
    BY <1>3 DEF IsExec
  <2> HIDE DEF x
  <2> QED
    BY <1>1, <2>1, ExecMoves DEF SwapInv
<1>6. Worlds'
  <2>1. notice' \in BOOLEAN
    BY <1>3
  <2> QED
    BY <1>1, <2>1 DEF SwapInv, Worlds, worldVars
<1>7. Lasts /\ OthersStay(i)
  BY <1>1, <1>2, <1>4 DEF Lasts, OthersStay, worldVars
<1>8. Fate(i)'
  <2>1. /\ chain'[i] = "none" /\ recorded'[i] = {} /\ exec'[i].phase \notin {"wait", "confirm", "save", "signIn"}
        /\ ~(i > presses')
    BY <1>1, <1>2, <1>4 DEF worldVars
  <2> QED
    BY <2>1 DEF Fate, Saving
<1>9. Fates'
  BY <1>1, <1>7, <1>8, FatesLast DEF SwapInv
<1>10. TrackingOK'
  BY <1>1, <1>7, TrackingLasts DEF SwapInv
<1>11. Busy'
  <2>1. status' = "pending" => phase = "sign"
    BY <1>3
  <2>2. notice' = TRUE => phase = "sign"
    BY <1>3
  <2> QED
    BY <1>1, <1>4, <2>1, <2>2 DEF Busy, AtWallet, AtPrompt
<1>12. Told'
  BY <1>3, <1>7, ToldLasts DEF SwapInv
<1> QED
  BY <1>5, <1>6, <1>9, <1>10, <1>11, <1>12 DEF SwapInv

-----------------------------------------------------------------------------
(* The invariant holds, and what follows from it *)

LEMMA SwapInit == Init => SwapInv
<1> SUFFICES ASSUME Init PROVE SwapInv
  OBVIOUS
<1>1. \A i \in Executions : exec[i] = Unused
  BY DEF Init
<1>2. IsExec(Unused) /\ Unused.phase = "unused"
  BY DEF IsExec, Unused
<1>3. Execs /\ Worlds
  BY <1>1, <1>2 DEF Init, Execs, Worlds
<1>4. Fates
  BY <1>1, <1>2 DEF Init, Fates, Fate, Saving
<1>5. TrackingOK /\ Busy /\ Told
  BY DEF Init, TrackingOK, Busy, Told, ConfirmedHasArrived
<1> QED
  BY <1>3, <1>4, <1>5 DEF SwapInv

LEMMA SwapNext == SwapInv /\ [Next]_vars => SwapInv'
<1> SUFFICES ASSUME SwapInv, [Next]_vars PROVE SwapInv'
  OBVIOUS
<1>1. CASE User
  <2>1. CASE Press
    BY <2>1, PressStep
  <2>2. CASE \E r \in Routes : AskQuote(r)
    BY <2>2, FormStep DEF AskQuote
  <2>3. CASE \E a \in Accounts \cup {None} : WalletSwitches(a)
    BY <2>3, FormStep DEF WalletSwitches, shownVars
  <2>4. CASE \E n \in Nets : Edit(n)
    BY <2>4, FormStep DEF Edit
  <2>5. CASE \E n \in Nets : NetChanges(n)
    BY <2>5, FormStep DEF NetChanges, shownVars
  <2> QED
    BY <1>1, <2>1, <2>2, <2>3, <2>4, <2>5 DEF User
<1>2. CASE Prompted
  BY <1>2, SwitchAnswersStep, SignerAnswersStep, ApprovalMinedStep, SwapSentStep, BitcoinSignedStep,
     SolanaSentStep, SignInEndsStep DEF Prompted
<1>3. CASE QuoteAnswers \/ QuoteFails \/ Expires \/ PageLearns
  <2>1. UNCHANGED <<exec, worldVars, recorded, presses, status, notice, progress, tracking>>
    BY <1>3 DEF QuoteAnswers, QuoteFails, Expires, PageLearns, shownVars
  <2> QED
    BY <2>1, FormStep
<1>4. CASE NetEffect
  BY <1>4, FormStep DEF NetEffect
<1>5. CASE Poll \/ PollFails
  BY <1>5, PollStep, PollFailsStep
<1>6. ASSUME NEW i \in Executions,
             \/ ReadAllowance(i) \/ Simulated(i) \/ Receipt(i) \/ Unconfirmed(i)
             \/ BitcoinBroadcast(i) \/ BroadcastFails(i) \/ Save(i, TRUE) \/ Save(i, FALSE)
             \/ SignInAsked(i)
      PROVE  SwapInv'
  BY <1>6, ReadAllowanceStep, SimulatedStep, ReceiptStep, UnconfirmedStep,
     BitcoinBroadcastStep, BroadcastFailsStep, SaveStep, SignInAskedStep
<1>7. CASE World
  <2>1. ASSUME NEW i \in Executions, Refused(i) \/ WaitFails(i) PROVE SwapInv'
    BY <2>1, RefusedStep, WaitFailsStep
  <2>2. ASSUME NEW i \in Executions, NEW r \in {"mined", "reverted"}, Mine(i, r) PROVE SwapInv'
    BY <2>2, MineStep
  <2>3. ASSUME NEW i \in Executions, NEW r \in {"completed", "failed", "refunded"}, Deliver(i, r) PROVE SwapInv'
    BY <2>3, DeliverStep
  <2> QED
    BY <1>7, <2>1, <2>2, <2>3 DEF World
<1>8. CASE UNCHANGED vars
  BY <1>8, FormStep DEF vars, shownVars
<1> QED
  BY <1>1, <1>2, <1>3, <1>4, <1>5, <1>6, <1>7, <1>8 DEF Next, Progress

LEMMA SwapAlways == Spec => []SwapInv
BY SwapInit, SwapNext, PTL DEF Spec

\* The page saves no transaction that was never broadcast, and as confirmed
\* only what a network has confirmed and no other has to (RecordedIsTrue,
\* persistSwapSnapshot).
THEOREM RecordsAreTrue == Spec => []RecordedIsTrue
<1>1. SwapInv => RecordedIsTrue
  BY DEF SwapInv, Fates, Fate, Confirmed, RecordedIsTrue, Broadcast, Saving
<1> QED
  BY <1>1, SwapAlways, PTL

\* "confirmed" is shown only when a swap of the page has arrived, a wallet
\* request only while an execution is at the wallet, and the loop follows the
\* route the page speaks of (ShownIsTrue, executeSwap).
THEOREM ShowsAreTrue == Spec => []ShownIsTrue
<1>1. SwapInv => ShownIsTrue
  <2> SUFFICES ASSUME SwapInv PROVE ShownIsTrue
    OBVIOUS
  <2>1. ConfirmedHasArrived /\ (status = "submitted" => \E i \in Executions : Broadcast(i))
    BY DEF SwapInv, Told
  <2>2. status = "pending" => \E i \in Executions : exec[i].phase \in {"approve", "send", "sign", "broadcast"}
    BY DEF SwapInv, Busy, AtWallet
  <2>3. notice => \E i \in Executions : exec[i].phase \in {"approve", "send", "sign", "broadcast"}
    <3>1. notice => notice = TRUE
      BY DEF SwapInv, Worlds
    <3> QED
      BY <3>1 DEF SwapInv, Busy, AtPrompt, AtWallet
  <2>4. TrackedIsShown
    BY DEF SwapInv, TrackingOK, TrackedIsShown
  <2> QED
    BY <2>1, <2>2, <2>3, <2>4 DEF ShownIsTrue, BusyHasReason
<1> QED
  BY <1>1, SwapAlways, PTL

=============================================================================
