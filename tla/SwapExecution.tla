---------------------------- MODULE SwapExecution ----------------------------
(***************************************************************************)
(* From a quote to a swap that has arrived: executeSwap and what it calls  *)
(* (src/src/app/swap/page.tsx, src/src/lib/swapTransaction.ts,             *)
(* tokenAllowance.ts, bitcoinSwapExecution.ts, solanaSwapExecution.ts,     *)
(* routeStatus.ts), beside the form that stays editable meanwhile.         *)
(*                                                                         *)
(* An execution is one press of Swap.  It goes on with the quote, the      *)
(* account and the networks of the render it was pressed in, whatever the  *)
(* page shows by now, and stops at every await: a wallet prompt, a call to *)
(* a network, the save of the history.  What it writes to the page's state *)
(* it writes without asking whether it is still the one shown.             *)
(***************************************************************************)
EXTENDS Naturals, FiniteSets

CONSTANTS
    Accounts, None,
    Nets,
    Routes,         \* bound: the kinds of route the quotes of a run have
    MaxPresses,     \* bound: presses of Swap
    MaxMoves,       \* bound: edits, quotes, wallet events
    MaxAttempts     \* bound: status polls of a route (30 in the code)

ASSUME PressesAssumption == MaxPresses \in Nat

Executions == 1 .. MaxPresses

VARIABLES
    signer,     \* the account selected in the wallet
    account,    \* walletAddress: the account the page knows
    walletNet,  \* walletChainId
    netMoved,   \* walletChainId changed, its effect has not run
    net,        \* selectedChainId
    asked,      \* the quote request under way (quoteLoading), or None
    quote,      \* the quote shown, or None
    fresh,      \* ~isQuoteExpired
    status,     \* swapStatus
    notice,     \* walletRequestNotice is not empty
    progress,   \* the execution routeProgressMessage speaks of, or None
    exec,       \* the executions
    chain,      \* what became of each execution's transaction
    delivery,   \* what the route did on the other side
    recorded,   \* the statuses saved in the history
    tracking,   \* the live loop of monitorSubmittedRoute, or None
    presses, moves

walletVars == <<signer, account, walletNet, netMoved, net>>
quoteVars == <<asked, quote, fresh>>
shownVars == <<status, notice, progress>>
worldVars == <<chain, delivery>>
vars == <<walletVars, quoteVars, shownVars, exec, worldVars, recorded, tracking, presses, moves>>

Evm(q) == q.route \in {"same", "cross"}
Tracked(q) == q.route \in {"cross", "bitcoin", "solana-cross"}    \* shouldTrackRoute

Unused == [phase |-> "unused", quote |-> None, account |-> None, net |-> None,
           from |-> None, approvals |-> 0, result |-> "none", signIns |-> 0]

Init ==
    /\ account = (CHOOSE a \in Accounts : TRUE) /\ signer = account
    /\ net = (CHOOSE n \in Nets : TRUE) /\ walletNet = net /\ netMoved = FALSE
    /\ asked = None /\ quote = None /\ fresh = FALSE
    /\ status = "idle" /\ notice = FALSE /\ progress = None
    /\ exec = [i \in Executions |-> Unused]
    /\ chain = [i \in Executions |-> "none"] /\ delivery = [i \in Executions |-> "open"]
    /\ recorded = [i \in Executions |-> {}]
    /\ tracking = None
    /\ presses = 0 /\ moves = 0

Move == moves < MaxMoves /\ moves' = moves + 1

Shows(s) == status' = s

-----------------------------------------------------------------------------
(* The form and the wallet *)

\* clearQuoteState
Cleared ==
    /\ quote' = None /\ fresh' = FALSE
    /\ status' = "idle" /\ notice' = FALSE /\ progress' = None
    /\ tracking' = None

\* An amount, a token with its network, the slippage or the recipient is changed.
Edit(n) ==
    /\ Move
    /\ Cleared
    /\ net' = n
    /\ asked' = IF asked = None THEN None ELSE [asked EXCEPT !.edited = TRUE]
    /\ UNCHANGED <<signer, account, walletNet, netMoved, exec, worldVars, recorded, presses>>

\* fetchQuote; the button is disabled while a request is under way.
AskQuote(route) ==
    /\ asked = None
    /\ Evm([route |-> route]) => account # None
    /\ Move
    /\ Cleared
    /\ \E native \in BOOLEAN :
        asked' = [route |-> route, net |-> net, taker |-> account,
                  native |-> native \/ ~Evm([route |-> route]), edited |-> FALSE]
    /\ UNCHANGED <<walletVars, exec, worldVars, recorded, presses>>

\* The answer is shown whatever the form says by now.
QuoteAnswers ==
    /\ asked # None
    /\ quote' = asked /\ fresh' = TRUE /\ asked' = None
    /\ UNCHANGED <<walletVars, shownVars, exec, worldVars, recorded, tracking, presses, moves>>

QuoteFails ==
    /\ asked # None
    /\ asked' = None
    /\ UNCHANGED <<walletVars, quote, fresh, shownVars, exec, worldVars, recorded, tracking, presses, moves>>

\* QUOTE_TTL_SECONDS have passed.
Expires ==
    /\ fresh
    /\ fresh' = FALSE
    /\ UNCHANGED <<walletVars, asked, quote, shownVars, exec, worldVars, recorded, tracking, presses, moves>>

WalletSwitches(a) ==
    /\ a # signer
    /\ Move
    /\ signer' = a
    /\ UNCHANGED <<account, walletNet, netMoved, net, quoteVars, shownVars, exec, worldVars, recorded,
                   tracking, presses>>

\* accountsChanged: the quote of the other account stays.
PageLearns ==
    /\ account # signer
    /\ account' = signer
    /\ UNCHANGED <<signer, walletNet, netMoved, net, quoteVars, shownVars, exec, worldVars, recorded,
                   tracking, presses, moves>>

NetChanges(n) ==
    /\ Move /\ n # walletNet
    /\ walletNet' = n /\ netMoved' = TRUE
    /\ UNCHANGED <<signer, account, net, quoteVars, shownVars, exec, worldVars, recorded, tracking, presses>>

\* The form follows the wallet; the route that is tracked is left alone.
NetEffect ==
    /\ netMoved
    /\ netMoved' = FALSE /\ net' = walletNet
    /\ quote' = None /\ fresh' = FALSE
    /\ status' = "idle" /\ notice' = FALSE
    /\ UNCHANGED <<signer, account, walletNet, asked, progress, exec, worldVars, recorded, tracking,
                   presses, moves>>

-----------------------------------------------------------------------------
(* executeSwap *)

At(i, phase) == exec[i].phase = phase
Goes(i, phase) == exec' = [exec EXCEPT ![i].phase = phase]
Ends(i) == exec' = [exec EXCEPT ![i] = [@ EXCEPT !.phase = "done", !.from = None, !.result = "none",
                                            !.signIns = 0]]
Saves(i, result) == exec' = [exec EXCEPT ![i] = [@ EXCEPT !.phase = "save", !.result = result]]

\* The catch block, also after the transaction was sent.
Caught(i) ==
    /\ Ends(i)
    /\ Shows("failed") /\ notice' = FALSE
    /\ UNCHANGED progress

\* Only the page and the execution change.
PageStep == UNCHANGED <<walletVars, quoteVars, worldVars, recorded, tracking, presses, moves>>

swapBusy == status \in {"pending", "submitted"} \/ notice

\* The networks or the amount of the form are not the quote's any more.
MayDiffer(q) == q.edited \/ (Evm(q) /\ q.net # net)

Press ==
    /\ presses < MaxPresses /\ presses' = presses + 1
    /\ ~netMoved
    /\ quote # None /\ fresh /\ ~swapBusy
    /\ Evm(quote) => account # None
    /\ LET i == presses'
           Starts(phase) ==
                exec' = [exec EXCEPT ![i] = [phase |-> phase, quote |-> quote, account |-> account,
                                             net |-> net, from |-> walletNet, approvals |-> 0,
                                             result |-> "none", signIns |-> 0]]
       IN \/ MayDiffer(quote) /\ Starts("done") /\ Shows("failed") /\ notice' = FALSE
          \/ /\ Evm(quote) /\ quote.net = net
             /\ Starts(IF walletNet = net THEN "signer" ELSE "switch")
             /\ notice' = FALSE /\ UNCHANGED status
          \/ ~Evm(quote) /\ Starts("sign") /\ Shows("pending") /\ notice' = TRUE
    /\ UNCHANGED <<walletVars, quoteVars, progress, worldVars, recorded, tracking, moves>>

\* ensureCorrectNetwork: the wallet switches, or only learns of the network.
SwitchAnswers(i) ==
    /\ At(i, "switch")
    /\ Goes(i, "signer")
    /\ \/ walletNet' = exec[i].net /\ netMoved' = (netMoved \/ walletNet # walletNet')
       \/ UNCHANGED <<walletNet, netMoved>>
    /\ UNCHANGED <<signer, account, net, quoteVars, shownVars, worldVars, recorded, tracking, presses, moves>>

\* getSigner, which may ask the user, and validateSwapTransaction: the wallet
\* signs as the account of the press.
SignerAnswers(i) ==
    /\ At(i, "signer")
    /\ IF signer = exec[i].account
       THEN Goes(i, IF exec[i].quote.native THEN "simulate" ELSE "allowance") /\ UNCHANGED shownVars
       ELSE Caught(i)
    /\ PageStep

\* ensureExactTokenAllowance: buildExactApprovalPlan asks for no approval, for
\* one, or for a reset and one.
ReadAllowance(i) ==
    /\ At(i, "allowance")
    /\ IF walletNet = exec[i].net /\ signer = exec[i].account
       THEN \E plan \in 0 .. 2 :
                /\ exec' = [exec EXCEPT ![i] = [@ EXCEPT !.approvals = plan,
                                                  !.phase = IF plan = 0 THEN "simulate" ELSE "approve"]]
                /\ notice' = (plan # 0) /\ UNCHANGED <<status, progress>>
       ELSE Caught(i)
    /\ PageStep

ApprovalMined(i) ==
    /\ At(i, "approve")
    /\ LET left == exec[i].approvals - 1
       IN /\ exec' = [exec EXCEPT ![i] = [@ EXCEPT !.approvals = left,
                                            !.phase = IF left = 0 THEN "simulate" ELSE "approve"]]
          /\ notice' = (left # 0) /\ UNCHANGED <<status, progress>>
    /\ PageStep

\* provider.call succeeds and the wallet is asked for the swap.
Simulated(i) ==
    /\ At(i, "simulate")
    /\ Goes(i, "send")
    /\ Shows("pending") /\ notice' = TRUE /\ UNCHANGED progress
    /\ PageStep

\* The wallet or a network refuses, before anything was sent.
Refused(i) ==
    /\ exec[i].phase \in {"switch", "signer", "allowance", "approve", "simulate", "send", "sign"}
    /\ Caught(i)
    /\ PageStep

Sent(i) == chain' = [chain EXCEPT ![i] = "sent"]

Submitted(i) ==
    /\ Shows("submitted") /\ notice' = FALSE /\ UNCHANGED progress /\ Sent(i)
    /\ UNCHANGED <<walletVars, quoteVars, delivery, recorded, tracking, presses, moves>>

SwapSent(i) == At(i, "send") /\ Goes(i, "wait") /\ Submitted(i)

BitcoinSigned(i) ==
    /\ At(i, "sign") /\ exec[i].quote.route = "bitcoin"
    /\ Goes(i, "broadcast")
    /\ notice' = TRUE /\ UNCHANGED <<status, progress>>
    /\ PageStep

BitcoinBroadcast(i) == At(i, "broadcast") /\ Saves(i, "submitted") /\ Submitted(i)

\* The broadcaster took the transaction and its answer was lost, or it did not.
BroadcastFails(i) ==
    /\ At(i, "broadcast")
    /\ Caught(i)
    /\ Sent(i) \/ UNCHANGED chain
    /\ UNCHANGED <<walletVars, quoteVars, delivery, recorded, tracking, presses, moves>>

SolanaSent(i) ==
    /\ At(i, "sign") /\ exec[i].quote.route \in {"solana", "solana-cross"}
    /\ IF Tracked(exec[i].quote) THEN Saves(i, "submitted") ELSE Goes(i, "confirm")
    /\ Submitted(i)

\* Mutant: a receipt is taken for the delivery.
HistoryStatusOfReceipt(q) == "confirmed"

\* The history status of a transaction the source network has accepted.
HistoryStatus(q) == IF Tracked(q) THEN "submitted" ELSE "confirmed"

\* waitForSolanaConfirmation, and tx.wait on the other networks.
Receipt(i) ==
    /\ exec[i].phase \in {"wait", "confirm"} /\ chain[i] # "sent"
    /\ IF chain[i] = "mined"
       THEN /\ Saves(i, HistoryStatus(exec[i].quote))
            /\ Shows(HistoryStatus(exec[i].quote)) /\ UNCHANGED <<notice, progress>>
       ELSE /\ Ends(i)
            /\ Shows("failed") /\ UNCHANGED progress
            /\ notice' = (notice /\ At(i, "wait"))
    /\ PageStep

\* tx.wait throws although the transaction may yet be mined.
WaitFails(i) == At(i, "wait") /\ Caught(i) /\ PageStep

\* Twenty status requests without a confirmation.
Unconfirmed(i) ==
    /\ At(i, "confirm")
    /\ Saves(i, "submitted")
    /\ Shows("submitted") /\ UNCHANGED <<notice, progress>>
    /\ PageStep

\* monitorSubmittedRoute
Monitored(i) ==
    IF Tracked(exec[i].quote)
    THEN tracking' = [tx |-> i, left |-> MaxAttempts] /\ progress' = i
    ELSE UNCHANGED <<tracking, progress>>

\* What follows persistSwapSnapshot; a failed save is told and changes nothing else.
Settled(i) ==
    /\ Ends(i)
    /\ Monitored(i)
    /\ UNCHANGED <<walletVars, quoteVars, status, notice, worldVars, presses, moves>>

\* The history takes the snapshot, or nobody is there to save it for, or the
\* save fails.
Save(i, done) ==
    /\ At(i, "save")
    /\ recorded' = IF done /\ exec[i].account # None
                   THEN [recorded EXCEPT ![i] = @ \cup {exec[i].result}] ELSE recorded
    /\ Settled(i)

\* ensureBackendSession finds no session (the first sign-in), or the save is
\* answered that the session has expired (the last one).
SignInAsked(i) ==
    /\ At(i, "save") /\ exec[i].account # None
    /\ \E n \in 1 .. 2 :
        /\ exec[i].signIns < n
        /\ exec' = [exec EXCEPT ![i] = [@ EXCEPT !.phase = "signIn", !.signIns = n]]
    /\ UNCHANGED shownVars
    /\ PageStep

\* confirmWalletSignIn and the wallet's signature; a sign-in that is cancelled,
\* or fails, is a save that fails.
SignInEnds(i) ==
    /\ At(i, "signIn")
    /\ \/ Goes(i, "save") /\ UNCHANGED <<shownVars, recorded, tracking>>
          /\ UNCHANGED <<walletVars, quoteVars, worldVars, presses, moves>>
       \/ Settled(i) /\ UNCHANGED recorded

-----------------------------------------------------------------------------
(* The networks, and the loop that asks for the route's status *)

Mine(i, result) ==
    /\ chain[i] = "sent"
    /\ chain' = [chain EXCEPT ![i] = result]
    /\ UNCHANGED <<walletVars, quoteVars, shownVars, exec, delivery, recorded, tracking, presses, moves>>

Deliver(i, result) ==
    /\ chain[i] = "mined" /\ Tracked(exec[i].quote) /\ delivery[i] = "open"
    /\ delivery' = [delivery EXCEPT ![i] = result]
    /\ UNCHANGED <<walletVars, quoteVars, shownVars, exec, chain, recorded, tracking, presses, moves>>

\* Mutant: a poll that fails is not counted.
NextAttemptUncounted == tracking

NextAttempt == IF tracking.left = 1 THEN None ELSE [tracking EXCEPT !.left = @ - 1]

\* Mutant: whatever ends the route is shown as its success.
ShownAsAnyEnd(state) == "confirmed"

ShownAs(state) == IF state = "completed" THEN "confirmed" ELSE state

\* getLifiTransferStatus: "open" is a pending state.
RouteState(i) == delivery[i]

Poll ==
    /\ tracking # None
    /\ progress' = tracking.tx
    /\ IF RouteState(tracking.tx) = "open"
       THEN tracking' = NextAttempt /\ UNCHANGED status
       ELSE tracking' = None /\ Shows(ShownAs(RouteState(tracking.tx)))
    /\ UNCHANGED <<walletVars, quoteVars, notice, exec, worldVars, recorded, presses, moves>>

PollFails ==
    /\ tracking # None
    /\ tracking' = NextAttempt
    /\ UNCHANGED <<walletVars, quoteVars, shownVars, exec, worldVars, recorded, presses, moves>>

-----------------------------------------------------------------------------
\* What the user decides.
User ==
    \/ Press
    \/ \E r \in Routes : AskQuote(r)
    \/ \E a \in Accounts \cup {None} : WalletSwitches(a)
    \/ \E n \in Nets : Edit(n) \/ NetChanges(n)

\* What the user's wallet is asked for.
Prompted ==
    \E i \in Executions :
        \/ SwitchAnswers(i) \/ SignerAnswers(i) \/ ApprovalMined(i) \/ SwapSent(i)
        \/ BitcoinSigned(i) \/ SolanaSent(i) \/ SignInEnds(i)

\* Answers, effects and time-outs.
Progress ==
    \/ QuoteAnswers \/ QuoteFails \/ Expires \/ PageLearns \/ NetEffect
    \/ \E i \in Executions :
        \/ ReadAllowance(i) \/ Simulated(i) \/ Receipt(i)
        \/ Unconfirmed(i) \/ BitcoinBroadcast(i) \/ BroadcastFails(i)
        \/ Save(i, TRUE) \/ Save(i, FALSE) \/ SignInAsked(i)
    \/ Poll \/ PollFails

World ==
    \/ \E i \in Executions : Refused(i) \/ WaitFails(i)
    \/ \E i \in Executions : \E r \in {"mined", "reverted"} : Mine(i, r)
    \/ \E i \in Executions : \E r \in {"completed", "failed", "refunded"} : Deliver(i, r)

Next == User \/ Prompted \/ Progress \/ World

Spec == Init /\ [][Next]_vars /\ WF_vars(Progress)

-----------------------------------------------------------------------------
Phases == {"unused", "switch", "signer", "allowance", "approve", "simulate", "send", "sign",
           "broadcast", "confirm", "wait", "save", "signIn", "done"}
Holders == Accounts \cup {None}
Quotes == [route : Routes, net : Nets, taker : Holders, native : BOOLEAN, edited : BOOLEAN]

\* The state's types, and the bounds.
TypeOK ==
    /\ {signer, account} \subseteq Holders /\ {walletNet, net} \subseteq Nets
    /\ {netMoved, fresh, notice} \subseteq BOOLEAN
    /\ {asked, quote} \subseteq Quotes \cup {None}
    /\ status \in {"idle", "pending", "submitted", "confirmed", "failed", "refunded"}
    /\ progress \in Executions \cup {None}
    /\ \A i \in Executions : /\ exec[i].phase \in Phases
                              /\ exec[i].approvals \in 0 .. 2 /\ exec[i].signIns \in 0 .. 2
                              /\ exec[i].result \in {"none", "submitted", "confirmed"}
    /\ chain \in [Executions -> {"none", "sent", "mined", "reverted"}]
    /\ delivery \in [Executions -> {"open", "completed", "failed", "refunded"}]
    /\ recorded \in [Executions -> SUBSET {"submitted", "confirmed"}]
    /\ tracking # None => tracking.tx \in Executions /\ tracking.left \in 1 .. MaxAttempts
    /\ presses <= MaxPresses /\ moves <= MaxMoves

Broadcast(i) == chain[i] # "none"
Arrived(i) == IF Tracked(exec[i].quote) THEN delivery[i] = "completed" ELSE chain[i] = "mined"

\* The page saves no transaction that was never broadcast, and saves as
\* confirmed none that a network has not confirmed or that still has another
\* network to reach ("do not record a transaction hash that was never
\* broadcast", growthContent.ts).
RecordedIsTrue ==
    \A i \in Executions :
        /\ recorded[i] # {} => Broadcast(i)
        /\ "confirmed" \in recorded[i] => chain[i] = "mined" /\ ~Tracked(exec[i].quote)

\* "A source receipt alone is not completion" (growthContent.ts): whatever
\* executions, edits and route answers overlap, the page says confirmed only
\* when a swap of this page has arrived where it was sent.
ConfirmedHasArrived == status = "confirmed" => \E i \in Executions : Broadcast(i) /\ Arrived(i)

\* The page is busy for a reason: a wallet request is shown and the buttons
\* are disabled only while an execution is at the wallet or broadcasting, and
\* "submitted" only when something was.
BusyHasReason ==
    /\ status = "pending" \/ notice =>
        \E i \in Executions : exec[i].phase \in {"approve", "send", "sign", "broadcast"}
    /\ status = "submitted" => \E i \in Executions : Broadcast(i)

\* The route that is tracked is the one the page speaks of: clearing the form
\* and starting another swap silence the loop of the one before.
TrackedIsShown == tracking # None => progress = tracking.tx

\* What the page shows of a swap has a reason in the wallet and the networks.
ShownIsTrue == ConfirmedHasArrived /\ BusyHasReason /\ TrackedIsShown

\* A swap ends, or waits for ever where the code waits without a limit: at the
\* user's wallet, for the sign-in that saving the history may take (and the
\* route is not followed before), or for a block.  The loop that follows a
\* route ends, and so does a quote request.
EverySwapSettles ==
    <>[](/\ tracking = None /\ asked = None
         /\ \A i \in Executions :
               exec[i].phase \in {"unused", "done", "switch", "signer", "approve", "send", "sign",
                                  "wait", "signIn"})

\* "The old quote must not authorize a transaction for the wrong owner"
\* (growthContent.ts): the account that sends a swap is the one its quote was
\* made for.
SentQuoteIsTheSenders ==
    \A i \in Executions : Broadcast(i) /\ Evm(exec[i].quote) => exec[i].quote.taker = exec[i].account
=============================================================================
