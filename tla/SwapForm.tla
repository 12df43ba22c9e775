------------------------------ MODULE SwapForm ------------------------------
(***************************************************************************)
(* The swap form: src/src/app/swap/page.tsx with hooks/useTokenCatalog.ts, *)
(* components/TokenPicker.tsx and lib/recipientWalletImport.ts.            *)
(*                                                                         *)
(* Handlers and answers change the state of the page; a render follows,    *)
(* and its effects correct the state until a render changes nothing.       *)
(* Commit is one render with its effects: they all read the rendered       *)
(* state, and of two that write the same field the later one wins.  The    *)
(* user sees, and clicks, what the effects have come to rest at; answers   *)
(* arrive at any time.                                                     *)
(***************************************************************************)
EXTENDS Naturals, Sequences, SequencesExt

CONSTANTS
    None,
    Chains, FirstChain,   \* allowedChains, and its first
    Popular, Full,        \* chain -> the list built in, the list the server has
    Unlisted,             \* a token only the search by address finds
    Links,                \* the links the page may be opened with
    Pairs,                \* the favorite pairs, as links
    Wallets, WalletNets,  \* the EVM accounts, and the networks their wallet may be on
    Given,                \* the recipients a user may paste, scan or import
    MaxMoves,             \* bound: events of the form and of the wallets
    MaxClicks,            \* bound: events of the recipient dialog
    MaxEvents,            \* bound: events of both kinds
    MaxImports            \* bound: wallet imports started

VARIABLES
    form,        \* the networks, tokens and amount of the form
    list, load,  \* tokensByChain; where the load of each list stands
    active,      \* the networks the loading effect has last run for
    pendingLink, pendingAutoQuoteLink,
    wallet,      \* the connected account of each wallet namespace, or ""
    walletNet, netMoved,
    recipient,   \* address, mode, the token it was given for, and how
    previousBuy, \* previousBuyTokenAddressRef
    dialog,      \* the recipient dialog's mode, or "closed"
    imports, liveImport,    \* liveImport: the import whose run is the current one, or 0
    camera, scannerFor,     \* the QR scanner; the dialog and token its effect has run for
    lateCamera, detecting,  \* a cancelled request for the camera; a frame being read
    search,      \* the token picker's search by address, or None
    asked,       \* the quote request under way, or None
    linkQuotes,  \* quotes requested for the link
    dirty,       \* a render is due
    moves, clicks

Bitcoin == 0    \* NATIVE_BITCOIN_CHAIN_ID
Families == {"evm", "bitcoin"}
ImportIds == 1 .. MaxImports

catalogVars == <<list, load, active>>
linkVars == <<pendingLink, pendingAutoQuoteLink, linkQuotes>>
walletVars == <<wallet, walletNet, netMoved>>
importVars == <<imports, liveImport>>
cameraVars == <<camera, scannerFor, lateCamera, detecting>>
vars == <<form, catalogVars, linkVars, walletVars, recipient, previousBuy, dialog, importVars,
          cameraVars, search, asked, dirty, moves, clicks>>

-----------------------------------------------------------------------------
(* What a render derives from the state *)

Family(t) == IF t = "btc" THEN "bitcoin" ELSE "evm"
Listed(t, chain) == t \in ToSet(list[chain])

sellKnown == Listed(form.sell, form.sellNet)
buyKnown == Listed(form.buy, form.buyNet)
BuyKey == IF buyKnown THEN <<form.buyNet, form.buy>> ELSE <<form.buyNet, "">>
buyTokenInfo == IF buyKnown THEN form.buy ELSE ""

WalletOf(t, known) == wallet[IF known THEN Family(t) ELSE "evm"]
sourceWalletAddress == WalletOf(form.sell, sellKnown)
destinationWalletAddress == WalletOf(form.buy, buyKnown)

FamilyOf(a) == IF a = "" THEN "" ELSE IF a \in {"b", "bx"} THEN "bitcoin" ELSE "evm"

\* getQuoteValidationErrors finds nothing, and the source wallet is connected.
canQuote ==
    /\ sellKnown /\ buyKnown
    /\ ~(form.sellNet = form.buyNet /\ form.sell = form.buy)
    /\ sourceWalletAddress # ""
    /\ FamilyOf(recipient.address) = Family(form.buy)
    /\ form.amount \in {"typed", "linked"}

Connected(address) == [address |-> address, mode |-> "connected", for |-> "", by |-> "wallet"]

-----------------------------------------------------------------------------
(* Links *)

\* resolveUiChainId
UiChain(requested, token, paired) ==
    IF requested = Bitcoin /\ token = "btc"
    THEN IF paired \in Chains THEN paired ELSE FirstChain
    ELSE IF requested \in Chains THEN requested ELSE None

\* resolveSwapLinkForUi
Resolve(l) ==
    LET from == UiChain(l.sellNet, l.sell, l.buyNet)
        to == UiChain(l.buyNet, l.buy, from)
    IN IF from = None \/ to = None THEN None ELSE [l EXCEPT !.sellNet = from, !.buyNet = to]

FormOf(l) == [sellNet |-> l.sellNet, buyNet |-> l.buyNet, sell |-> l.sell, buy |-> l.buy, amount |-> ""]
DefaultForm == [sellNet |-> FirstChain, buyNet |-> FirstChain, sell |-> "", buy |-> "", amount |-> ""]

\* The page after its first effects, opened with a link or without.
Init ==
    /\ \E l \in {Resolve(x) : x \in Links} \cup {None} :
        /\ form = IF l = None THEN DefaultForm ELSE FormOf(l)
        /\ pendingLink = l
        /\ pendingAutoQuoteLink = IF l # None /\ l.auto THEN l ELSE None
    /\ list = Popular /\ load = [c \in Chains |-> "unknown"] /\ active = <<>>
    /\ wallet = [f \in Families |-> ""] /\ walletNet = None /\ netMoved = FALSE
    /\ recipient = Connected("") /\ previousBuy = <<>>
    /\ dialog = "closed" /\ imports = [i \in ImportIds |-> [stage |-> "unused", for |-> "", address |-> ""]] /\ liveImport = 0
    /\ camera = "off" /\ scannerFor = <<>> /\ lateCamera = FALSE /\ detecting = FALSE
    /\ search = None /\ asked = None /\ linkQuotes = 0
    /\ dirty = TRUE /\ moves = 0 /\ clicks = 0

-----------------------------------------------------------------------------
(* A render and its effects *)

\* Mutant: loads go on for the networks of any render.
LoadsAgain == [c \in Chains |-> IF c \in {form.sellNet, form.buyNet} /\ load[c] \in {"unknown", "failed"}
                                THEN "loading" ELSE load[c]]

LoadStarted(c) == IF load[c] \in {"unknown", "failed"} THEN "loading" ELSE load[c]

\* useTokenCatalog's effect on activeChainIds.
Loads ==
    IF active = <<form.sellNet, form.buyNet>> THEN load
    ELSE [c \in Chains |-> IF c \in {form.sellNet, form.buyNet} THEN LoadStarted(c) ELSE load[c]]

\* The first token of the chain's list that is not the one sold there.
FallbackBuy ==
    LET tokens == list[form.buyNet]
        k == SelectInSeq(tokens, LAMBDA t : form.buyNet # form.sellNet \/ t # form.sell)
    IN IF k = 0 THEN form.buy ELSE tokens[k]

\* Without a pending link, tokens that are not in their lists are replaced.
Defaulted ==
    IF pendingLink # None THEN form
    ELSE [form EXCEPT !.sell = IF sellKnown THEN @ ELSE Head(list[form.sellNet]),
                      !.buy = IF buyKnown /\ ~(form.buyNet = form.sellNet /\ form.buy = form.sell)
                              THEN @ ELSE FallbackBuy]

\* walletChainId's effect: the form follows the wallet's network.
Followed(f) ==
    IF netMoved /\ walletNet \in Chains THEN [f EXCEPT !.sellNet = walletNet, !.sell = ""] ELSE f

AtPendingLink == form.sellNet = pendingLink.sellNet /\ form.buyNet = pendingLink.buyNet
PendingLinkFound == pendingLink # None /\ AtPendingLink /\ sellKnown /\ buyKnown
PendingLinkMissing ==
    pendingLink # None /\ AtPendingLink /\ {load[form.sellNet], load[form.buyNet]} \subseteq {"loaded", "failed"}

Amounted(f) == IF PendingLinkFound /\ pendingLink.amount = "linked" THEN [f EXCEPT !.amount = "linked"] ELSE f

LinkFields == <<"sellNet", "buyNet", "sell", "buy", "amount">>
FirstDifference == SelectInSeq(LinkFields, LAMBDA x : form[x] # pendingAutoQuoteLink[x])

\* The auto-quote effect corrects one field in each render.
Corrected(f) ==
    IF pendingAutoQuoteLink = None THEN f
    ELSE LET k == FirstDifference
         IN IF k = 0 \/ (k = 5 /\ ~(sellKnown /\ buyKnown)) THEN f
            ELSE [f EXCEPT ![LinkFields[k]] = pendingAutoQuoteLink[LinkFields[k]]]

\* ... and asks for the quote when nothing differs and the form is valid.
AutoQuotes ==
    /\ pendingAutoQuoteLink # None
    /\ FirstDifference = 0
    /\ canQuote /\ asked = None

\* Mutant: the link is kept beside the quote it asked for.
LinkKept == pendingAutoQuoteLink

LinkQuoted == None

Request(by) == [form |-> form, to |-> recipient, by |-> by]

\* Mutant: a recipient given by hand outlives the token it was given for.
RecipientKept == IF recipient.mode = "connected" THEN Connected(destinationWalletAddress) ELSE recipient

\* The two recipient effects.
RecipientAfter ==
    IF recipient.mode = "connected" \/ previousBuy # BuyKey THEN Connected(destinationWalletAddress)
    ELSE recipient

\* The QR scanner's effect, run when the dialog or the token bought changes.
ScannerReset == scannerFor # <<dialog, buyTokenInfo>>
ScannerAfter == IF ~ScannerReset THEN camera ELSE IF dialog = "scan" THEN "asked" ELSE "off"

rendered == <<form, load, pendingLink, pendingAutoQuoteLink, recipient, dialog, asked, camera>>

Commit ==
    /\ dirty
    /\ load' = Loads /\ active' = <<form.sellNet, form.buyNet>>
    /\ form' = Corrected(Amounted(Followed(Defaulted)))
    /\ netMoved' = FALSE
    /\ pendingLink' = IF PendingLinkFound \/ PendingLinkMissing THEN None ELSE pendingLink
    /\ recipient' = RecipientAfter /\ previousBuy' = BuyKey
    /\ IF previousBuy # BuyKey THEN dialog' = "closed" /\ liveImport' = 0 ELSE UNCHANGED <<dialog, liveImport>>
    /\ camera' = ScannerAfter /\ lateCamera' = (lateCamera \/ (ScannerReset /\ camera = "asked"))
    /\ scannerFor' = <<dialog, buyTokenInfo>>
    /\ IF AutoQuotes
       THEN asked' = Request(pendingAutoQuoteLink) /\ pendingAutoQuoteLink' = LinkQuoted /\ linkQuotes' = linkQuotes + 1
       ELSE UNCHANGED <<asked, pendingAutoQuoteLink, linkQuotes>>
    /\ dirty' = (rendered' # rendered)
    /\ UNCHANGED <<list, wallet, walletNet, imports, detecting, search, moves, clicks>>

-----------------------------------------------------------------------------
(* The catalog and the token picker *)

Renders == dirty' = TRUE
Answered == Renders /\ UNCHANGED <<moves, clicks>>

Received(c, tokens) == IF tokens = <<>> THEN list ELSE [list EXCEPT ![c] = tokens]

\* An answer of /api/tokens: a failure leaves the list shown.
ListAnswers(c) ==
    /\ load[c] = "loading"
    /\ \/ load' = [load EXCEPT ![c] = "loaded"] /\ \E tokens \in {Full[c], <<>>} : list' = Received(c, tokens)
       \/ load' = [load EXCEPT ![c] = "failed"] /\ UNCHANGED list
    /\ Answered
    /\ UNCHANGED <<form, active, linkVars, walletVars, recipient, previousBuy, dialog, importVars,
                   cameraVars, search, asked>>

\* The user acts on a form at rest.
Moves == moves < MaxMoves /\ moves + clicks < MaxEvents /\ moves' = moves + 1 /\ UNCHANGED clicks
Clicked == clicks < MaxClicks /\ moves + clicks < MaxEvents /\ clicks' = clicks + 1 /\ UNCHANGED moves
Acts == ~dirty /\ Moves /\ Renders
Clicks == ~dirty /\ Clicked /\ Renders

\* A network chosen in the picker loads its list.
PickerNetwork(c) ==
    /\ Acts
    /\ load' = [load EXCEPT ![c] = LoadStarted(c)]
    /\ UNCHANGED <<form, list, active, linkVars, walletVars, recipient, previousBuy, dialog, importVars,
                   cameraVars, search, asked>>

\* An address is typed in the picker of a side; another one aborts its search.
SearchAddress(side, c) ==
    /\ Acts /\ c # Bitcoin /\ ~Listed(Unlisted, c)
    /\ search' = [side |-> side, chain |-> c, found |-> FALSE]
    /\ UNCHANGED <<form, catalogVars, linkVars, walletVars, recipient, previousBuy, dialog, importVars,
                   cameraVars, asked>>

\* The token is added to the list and offered, or none is found.
SearchAnswers ==
    /\ search # None /\ ~search.found
    /\ \/ /\ search' = [search EXCEPT !.found = TRUE]
          /\ list' = [list EXCEPT ![search.chain] = IF Listed(Unlisted, search.chain) THEN @ ELSE Append(@, Unlisted)]
       \/ search' = None /\ UNCHANGED list
    /\ Answered
    /\ UNCHANGED <<form, load, active, linkVars, walletVars, recipient, previousBuy, dialog, importVars,
                   cameraVars, asked>>

\* selectTokenForSide
Selected(side, t, c) ==
    /\ search' = None
    /\ IF side = "sell"
       THEN form' = [form EXCEPT !.sell = t, !.sellNet = c] /\ UNCHANGED recipient
       ELSE form' = [form EXCEPT !.buy = t, !.buyNet = c] /\ recipient' = [recipient EXCEPT !.mode = "connected"]
    /\ UNCHANGED <<catalogVars, linkVars, walletVars, previousBuy, dialog, importVars, cameraVars, asked>>

\* getQuoteChainIdForTokenSelection: a token brings its chain.
Pick(side, t, c) == Acts /\ Listed(t, c) /\ Selected(side, t, c)

PickFound == Acts /\ search # None /\ search.found /\ Selected(search.side, Unlisted, search.chain)

-----------------------------------------------------------------------------
(* The form *)

TypeAmount ==
    /\ Acts
    /\ \E a \in {"typed", ""} : form' = [form EXCEPT !.amount = a]
    /\ UNCHANGED <<catalogVars, linkVars, walletVars, recipient, previousBuy, dialog, importVars,
                   cameraVars, search, asked>>

swapSelectedTokens ==
    /\ Acts
    /\ sourceWalletAddress # ""
    /\ form' = [form EXCEPT !.sellNet = form.buyNet, !.buyNet = form.sellNet,
                            !.sell = IF buyKnown THEN form.buy ELSE "",
                            !.buy = IF sellKnown THEN form.sell ELSE ""]
    /\ recipient' = [recipient EXCEPT !.mode = "connected"]
    /\ UNCHANGED <<catalogVars, linkVars, walletVars, previousBuy, dialog, importVars, cameraVars, search, asked>>

openFavoritePair(l) ==
    /\ Acts
    /\ form' = FormOf(l)
    /\ pendingLink' = l /\ pendingAutoQuoteLink' = None
    /\ UNCHANGED <<catalogVars, linkQuotes, walletVars, recipient, previousBuy, dialog, importVars,
                   cameraVars, search, asked>>

fetchQuote ==
    /\ Acts
    /\ asked = None /\ canQuote
    /\ asked' = Request(None)
    /\ UNCHANGED <<form, catalogVars, linkVars, walletVars, recipient, previousBuy, dialog, importVars,
                   cameraVars, search>>

QuoteAnswers ==
    /\ asked # None
    /\ asked' = None
    /\ Answered
    /\ UNCHANGED <<form, catalogVars, linkVars, walletVars, recipient, previousBuy, dialog, importVars,
                   cameraVars, search>>

\* A wallet connects, switches account or network, or disconnects.
WalletChanges(f, a, n) ==
    /\ Moves /\ Renders
    /\ wallet' = [wallet EXCEPT ![f] = a]
    /\ IF f = "evm" THEN walletNet' = n /\ netMoved' = (netMoved \/ n # walletNet) ELSE UNCHANGED <<walletNet, netMoved>>
    /\ wallet' # wallet \/ walletNet' # walletNet
    /\ UNCHANGED <<form, catalogVars, linkVars, recipient, previousBuy, dialog, importVars, cameraVars,
                   search, asked>>

-----------------------------------------------------------------------------
(* The recipient dialog *)

recipientOnly == <<form, catalogVars, linkVars, walletVars, previousBuy, search, asked>>

stopRecipientQrScanner == camera' = (IF camera = "on" THEN "off" ELSE camera) /\ UNCHANGED <<scannerFor, lateCamera, detecting>>

\* Mutant: the dialog is closed and the import goes on.
ClosedOnly == dialog' = "closed" /\ UNCHANGED liveImport /\ stopRecipientQrScanner

\* closeRecipientAddressDialog
Closed == dialog' = "closed" /\ liveImport' = 0 /\ stopRecipientQrScanner

openRecipientAddressDialog ==
    /\ Clicks /\ dialog = "closed"
    /\ dialog' = "paste"
    /\ UNCHANGED <<recipientOnly, recipient, importVars, cameraVars>>

CloseDialog == Clicks /\ dialog # "closed" /\ Closed /\ UNCHANGED <<recipientOnly, recipient, imports>>

\* chooseRecipientDialogMode
ChooseMode(mode) ==
    /\ Clicks /\ dialog \notin {"closed", mode}
    /\ dialog' = mode /\ liveImport' = 0
    /\ IF mode = "scan" THEN UNCHANGED cameraVars ELSE stopRecipientQrScanner
    /\ UNCHANGED <<recipientOnly, recipient, imports>>

useConnectedRecipientAddress ==
    /\ Clicks /\ dialog # "closed"
    /\ destinationWalletAddress # ""
    /\ recipient' = Connected(destinationWalletAddress)
    /\ Closed
    /\ UNCHANGED <<recipientOnly, imports>>

\* applyRecipientAddress, as a render with this token bought has defined it;
\* an address of another family is only reported.
Applied(address, token, by) ==
    IF FamilyOf(address) = Family(token)
    THEN recipient' = [address |-> address, mode |-> "custom", for |-> token, by |-> by] /\ Closed
    ELSE UNCHANGED <<recipient, dialog, liveImport, cameraVars>>

PasteAddress(address) ==
    /\ Clicks /\ dialog = "paste"
    /\ Applied(address, buyTokenInfo, "hand")
    /\ UNCHANGED <<recipientOnly, imports>>

startRecipientWalletImport ==
    /\ Clicks /\ dialog # "closed"
    /\ \E i \in ImportIds :
        /\ imports[i].stage = "unused" /\ \A j \in 1 .. i - 1 : imports[j].stage # "unused"
        /\ imports' = [imports EXCEPT ![i] = [stage |-> "preparing", for |-> buyTokenInfo, address |-> ""]]
        /\ liveImport' = i
    /\ dialog' = "wallet" /\ stopRecipientQrScanner
    /\ UNCHANGED <<recipientOnly, recipient>>

ImportEnds(i) == imports' = [imports EXCEPT ![i].stage = "ended"]

ImportPrepared(i) ==
    /\ imports[i].stage = "preparing"
    /\ IF liveImport = i THEN imports' = [imports EXCEPT ![i].stage = "waiting"] ELSE ImportEnds(i)
    /\ Answered
    /\ UNCHANGED <<recipientOnly, recipient, dialog, liveImport, cameraVars>>

\* The wallet shares an address of the family asked for, and its session is
\* being closed; a run that is not the current one goes no further.
ImportShares(i, address) ==
    /\ imports[i].stage = "waiting"
    /\ FamilyOf(address) = Family(imports[i].for)
    /\ IF liveImport = i THEN imports' = [imports EXCEPT ![i].stage = "sharing", ![i].address = address]
       ELSE ImportEnds(i)
    /\ Answered
    /\ UNCHANGED <<recipientOnly, recipient, dialog, liveImport, cameraVars>>

\* The session is closed; the run is not compared again.
ImportApplies(i) ==
    /\ imports[i].stage = "sharing"
    /\ ImportEnds(i)
    /\ Applied(imports[i].address, imports[i].for, "import")
    /\ Answered
    /\ UNCHANGED recipientOnly

ImportFails(i) ==
    /\ imports[i].stage \in {"preparing", "waiting"}
    /\ ImportEnds(i)
    /\ Answered
    /\ UNCHANGED <<recipientOnly, recipient, dialog, liveImport, cameraVars>>

-----------------------------------------------------------------------------
(* The QR scanner *)

CameraAnswers(allowed) ==
    /\ camera = "asked"
    /\ camera' = IF allowed THEN "on" ELSE "denied"
    /\ Answered
    /\ UNCHANGED <<recipientOnly, recipient, dialog, importVars, scannerFor, lateCamera, detecting>>

\* The answer to a request that was cancelled: the stream is stopped at once.
LateCameraAnswers ==
    /\ lateCamera
    /\ lateCamera' = FALSE
    /\ Answered
    /\ UNCHANGED <<recipientOnly, recipient, dialog, importVars, camera, scannerFor, detecting>>

Detect ==
    /\ camera = "on" /\ ~detecting
    /\ Clicked
    /\ detecting' = TRUE
    /\ UNCHANGED <<recipientOnly, recipient, dialog, importVars, camera, lateCamera, scannerFor, dirty>>

\* applyRecipientAddressRef is that of the last render: the frame is read for the
\* token bought there, the dialog closed or not, a change not yet rendered or not.
RenderedBuy == previousBuy[2]

DetectAnswers(address) ==
    /\ detecting
    /\ detecting' = FALSE
    /\ IF FamilyOf(address) = Family(RenderedBuy)
       THEN /\ recipient' = [address |-> address, mode |-> "custom", for |-> RenderedBuy, by |-> "hand"]
            /\ dialog' = "closed" /\ liveImport' = 0 /\ camera' = IF camera = "on" THEN "off" ELSE camera
       ELSE UNCHANGED <<recipient, dialog, liveImport, camera>>
    /\ Answered
    /\ UNCHANGED <<recipientOnly, imports, scannerFor, lateCamera>>

-----------------------------------------------------------------------------
FormEvents ==
    \/ \E c \in Chains : PickerNetwork(c)
    \/ \E side \in {"sell", "buy"}, c \in Chains :
        SearchAddress(side, c) \/ \E t \in ToSet(list[c]) : Pick(side, t, c)
    \/ PickFound \/ TypeAmount \/ swapSelectedTokens \/ fetchQuote
    \/ \E l \in Pairs : openFavoritePair(l)

DialogEvents ==
    \/ openRecipientAddressDialog \/ CloseDialog \/ useConnectedRecipientAddress
    \/ \E mode \in {"paste", "scan"} : ChooseMode(mode)
    \/ \E a \in Given : PasteAddress(a)
    \/ startRecipientWalletImport \/ Detect

WalletEvents ==
    \/ \E a \in Wallets, n \in WalletNets : WalletChanges("evm", a, n)
    \/ WalletChanges("evm", "", None)
    \/ \E a \in {"b", ""} : WalletChanges("bitcoin", a, None)

Answers ==
    \/ \E c \in Chains : ListAnswers(c)
    \/ SearchAnswers \/ QuoteAnswers
    \/ \E i \in ImportIds : ImportPrepared(i) \/ ImportApplies(i) \/ ImportFails(i) \/ \E a \in Given : ImportShares(i, a)
    \/ \E allowed \in BOOLEAN : CameraAnswers(allowed)
    \/ LateCameraAnswers
    \/ \E a \in Given : DetectAnswers(a)

Next == Commit \/ FormEvents \/ DialogEvents \/ WalletEvents \/ Answers

\* React commits what is due; the server answers; wallets and cameras need not.
Spec ==
    /\ Init /\ [][Next]_vars
    /\ WF_vars(Commit)
    /\ \A c \in Chains : WF_vars(ListAnswers(c))
    /\ WF_vars(QuoteAnswers)

-----------------------------------------------------------------------------
Addresses == Wallets \cup Given \cup {"b", ""}
Tokens == (UNION {ToSet(Full[c]) : c \in Chains}) \cup {Unlisted, ""}

\* The state's types.
TypeOK ==
    /\ {form.sellNet, form.buyNet} \subseteq Chains
    /\ {form.sell, form.buy} \subseteq Tokens /\ form.amount \in {"", "typed", "linked"}
    /\ \A c \in Chains : list[c] # <<>> /\ load[c] \in {"unknown", "loading", "loaded", "failed"}
    /\ wallet \in [Families -> Wallets \cup {"b", ""}] /\ walletNet \in WalletNets \cup {None}
    /\ recipient.address \in Addresses /\ recipient.mode \in {"connected", "custom"}
    /\ dialog \in {"closed", "paste", "scan", "wallet"}
    /\ liveImport \in 0 .. MaxImports
    /\ \A i \in ImportIds : imports[i].stage \in {"unused", "preparing", "waiting", "sharing", "ended"}
    /\ camera \in {"off", "asked", "on", "denied"}
    /\ {lateCamera, detecting, netMoved, dirty} \subseteq BOOLEAN
    /\ moves <= MaxMoves /\ clicks <= MaxClicks

\* What the form says of its recipient is so.
RecipientIsRight ==
    IF recipient.mode = "connected" THEN recipient.address = destinationWalletAddress
    ELSE recipient.for = buyTokenInfo /\ FamilyOf(recipient.address) = Family(buyTokenInfo)

\* At rest, the recipient is the wallet that is connected for the token
\* bought, or an address given by hand for that very token: a switch of wallet,
\* token or network, or a scan that answers late, never leaves the address of
\* another one behind.
RecipientIsThisTokens == ~dirty /\ recipient.by # "import" => RecipientIsRight

\* "Validate the imported address against the selected destination asset
\* before saving it." (docs/prompt17_f.md)
ImportedIsThisTokens == ~dirty /\ recipient.by = "import" => RecipientIsRight

\* A wallet import still waited for is the one the open dialog shows: closing
\* it, another mode, another import and another token cancel it.
LiveImportIsShown ==
    liveImport # 0 /\ imports[liveImport].stage \in {"preparing", "waiting"} => dialog = "wallet"

\* The camera is off at rest when no scanner is shown, whatever order the
\* dialog, the permission and the token change in.
CameraOnlyScans == ~dirty /\ dialog # "scan" => camera = "off"

\* No import and no camera outlives the dialog it was started in.
DialogOwnsItsWork == LiveImportIsShown /\ CameraOnlyScans

\* An alert link asks for one quote, of its own pair and amount.
LinkIsQuotedOnce ==
    /\ linkQuotes <= 1
    /\ asked # None /\ asked.by # None => \A x \in ToSet(LinkFields) : asked.form[x] = asked.by[x]

LinkIsListed ==
    pendingAutoQuoteLink # None => /\ Listed(pendingAutoQuoteLink.sell, pendingAutoQuoteLink.sellNet)
                                   /\ Listed(pendingAutoQuoteLink.buy, pendingAutoQuoteLink.buyNet)

\* The effects come to rest once the lists have the link's tokens, and a link
\* that is still waiting then waits for a wallet, a recipient or an amount.
FormSettles == <>[]LinkIsListed => <>[](~dirty /\ (pendingAutoQuoteLink # None => ~canQuote))

\* "This effect is keyed by the alert-link state and should fire once when the
\* form is ready" (page.tsx): the effects of the page come to rest.
EffectsComeToRest == <>[]~dirty
=============================================================================
