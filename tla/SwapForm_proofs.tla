--------------------------- MODULE SwapForm_proofs ---------------------------
(***************************************************************************)
(* Three promises of the swap form, for any networks, tokens, links,       *)
(* wallets and any number of events: nothing outlives the dialog it was    *)
(* started in, a link is quoted once, and a recipient given by hand is for *)
(* the token bought.                                                       *)
(***************************************************************************)
EXTENDS SwapForm, TLAPS

-----------------------------------------------------------------------------
(* The recipient dialog *)

\* An import is the current one only while the dialog shows it, whatever its
\* stage; the camera runs only for the scanner its effect last ran for.
DialogInv ==
    /\ liveImport # 0 => dialog = "wallet"
    /\ camera # "off" => scannerFor # <<>> /\ scannerFor[1] = "scan"
    /\ ~dirty /\ dialog # "scan" => camera = "off"

\* The dialog, its import and the scanner stay as they are.
LEMMA DialogKept ==
    ASSUME DialogInv, UNCHANGED <<dialog, liveImport, camera, scannerFor>>, dirty' = TRUE
    PROVE  DialogInv'
BY DEF DialogInv

\* stopRecipientQrScanner and the closing of the dialog: a render follows.
LEMMA DialogLeft ==
    ASSUME DialogInv, liveImport' = 0 \/ dialog' = "wallet",
           camera' = camera \/ camera' = "off" \/ (camera # "off" /\ camera' # "off"),
           UNCHANGED scannerFor, dirty' = TRUE
    PROVE  DialogInv'
BY DEF DialogInv

LEMMA AppliedDialog ==
    ASSUME DialogInv, NEW a, NEW t, NEW b, Applied(a, t, b), dirty' = TRUE
    PROVE  DialogInv'
<1>1. CASE FamilyOf(a) = Family(t)
  <2>1. liveImport' = 0 /\ (camera' = camera \/ camera' = "off") /\ UNCHANGED scannerFor
    BY <1>1 DEF Applied, Closed, stopRecipientQrScanner
  <2> QED
    BY <2>1, DialogLeft
<1>2. CASE FamilyOf(a) # Family(t)
  BY <1>2, DialogKept DEF Applied, cameraVars
<1> QED
  BY <1>1, <1>2

\* A render: the effects of the dialog and of the scanner.
LEMMA CommitDialog == ASSUME DialogInv, Commit PROVE DialogInv'
<1>1. /\ camera' = ScannerAfter /\ scannerFor' = <<dialog, buyTokenInfo>>
      /\ \/ dialog' = "closed" /\ liveImport' = 0
         \/ UNCHANGED <<dialog, liveImport>>
  BY DEF Commit
<1>2. ~dirty' => dialog' = dialog /\ camera' = camera
  <2>1. dirty' = (rendered' # rendered)
    BY DEF Commit
  <2> QED
    BY <2>1 DEF rendered
<1>3. liveImport' # 0 => dialog' = "wallet"
  BY <1>1 DEF DialogInv
<1>4. scannerFor' # <<>> /\ scannerFor'[1] = dialog
  BY <1>1
<1>5. camera' # "off" => dialog = "scan"
  <2>1. CASE ScannerReset
    BY <1>1, <2>1 DEF ScannerAfter
  <2>2. CASE ~ScannerReset
    <3>1. camera' = camera /\ scannerFor = <<dialog, buyTokenInfo>>
      BY <1>1, <2>2 DEF ScannerAfter, ScannerReset
    <3> QED
      BY <3>1 DEF DialogInv
  <2> QED
    BY <2>1, <2>2
<1> QED
  BY <1>2, <1>3, <1>4, <1>5 DEF DialogInv

LEMMA FormEventDialog == ASSUME DialogInv, FormEvents PROVE DialogInv'
<1>1. UNCHANGED <<dialog, liveImport, camera, scannerFor>> /\ dirty' = TRUE
  BY DEF FormEvents, PickerNetwork, SearchAddress, Pick, PickFound, Selected, TypeAmount,
         swapSelectedTokens, fetchQuote, openFavoritePair, Acts, Renders, importVars, cameraVars
<1> QED
  BY <1>1, DialogKept

LEMMA WalletEventDialog == ASSUME DialogInv, WalletEvents PROVE DialogInv'
<1>1. UNCHANGED <<dialog, liveImport, camera, scannerFor>> /\ dirty' = TRUE
  BY DEF WalletEvents, WalletChanges, Renders, importVars, cameraVars
<1> QED
  BY <1>1, DialogKept

LEMMA DialogEventDialog == ASSUME DialogInv, DialogEvents PROVE DialogInv'
<1>1. ASSUME openRecipientAddressDialog PROVE DialogInv'
  BY <1>1 DEF openRecipientAddressDialog, DialogInv, Clicks, Renders, importVars, cameraVars
<1>2. ASSUME CloseDialog \/ useConnectedRecipientAddress PROVE DialogInv'
  <2>1. /\ liveImport' = 0 /\ (camera' = camera \/ camera' = "off") /\ UNCHANGED scannerFor
        /\ dirty' = TRUE
    BY <1>2 DEF CloseDialog, useConnectedRecipientAddress, Closed, stopRecipientQrScanner, Clicks,
                Renders
  <2> QED
    BY <2>1, DialogLeft
<1>3. ASSUME NEW mode \in {"paste", "scan"}, ChooseMode(mode) PROVE DialogInv'
  <2>1. /\ liveImport' = 0 /\ (camera' = camera \/ camera' = "off") /\ UNCHANGED scannerFor
        /\ dirty' = TRUE
    BY <1>3 DEF ChooseMode, stopRecipientQrScanner, cameraVars, Clicks, Renders
  <2> QED
    BY <2>1, DialogLeft
<1>4. ASSUME NEW a \in Given, PasteAddress(a) PROVE DialogInv'
  <2>1. Applied(a, buyTokenInfo, "hand") /\ dirty' = TRUE
    BY <1>4 DEF PasteAddress, Clicks, Renders
  <2> QED
    BY <2>1, AppliedDialog
<1>5. ASSUME startRecipientWalletImport PROVE DialogInv'
  <2>1. /\ dialog' = "wallet" /\ (camera' = camera \/ camera' = "off") /\ UNCHANGED scannerFor
        /\ dirty' = TRUE
    BY <1>5 DEF startRecipientWalletImport, stopRecipientQrScanner, Clicks, Renders
  <2> QED
    BY <2>1, DialogLeft
<1>6. ASSUME Detect PROVE DialogInv'
  BY <1>6 DEF Detect, DialogInv, importVars
<1> QED
  BY <1>1, <1>2, <1>3, <1>4, <1>5, <1>6 DEF DialogEvents

LEMMA AnswerDialog == ASSUME DialogInv, Answers PROVE DialogInv'
<1>1. ASSUME \/ \E c \in Chains : ListAnswers(c)
             \/ SearchAnswers \/ QuoteAnswers \/ LateCameraAnswers
             \/ \E i \in ImportIds :
                    ImportPrepared(i) \/ ImportFails(i) \/ \E a \in Given : ImportShares(i, a)
      PROVE  DialogInv'
  <2>1. UNCHANGED <<dialog, liveImport, camera, scannerFor>> /\ dirty' = TRUE
    BY <1>1 DEF ListAnswers, SearchAnswers, QuoteAnswers, LateCameraAnswers, ImportPrepared,
                ImportFails, ImportShares, Answered, Renders, importVars, cameraVars
  <2> QED
    BY <2>1, DialogKept
<1>2. ASSUME NEW i \in ImportIds, ImportApplies(i) PROVE DialogInv'
  <2>1. Applied(imports[i].address, imports[i].for, "import") /\ dirty' = TRUE
    BY <1>2 DEF ImportApplies, Answered, Renders
  <2> QED
    BY <2>1, AppliedDialog
<1>3. ASSUME NEW allowed \in BOOLEAN, CameraAnswers(allowed) PROVE DialogInv'
  BY <1>3 DEF CameraAnswers, Answered, Renders, importVars, DialogInv
<1>4. ASSUME NEW a \in Given, DetectAnswers(a) PROVE DialogInv'
  <2>1. dirty' = TRUE /\ UNCHANGED scannerFor
    BY <1>4 DEF DetectAnswers, Answered, Renders
  <2>2. \/ liveImport' = 0 /\ (camera' = camera \/ camera' = "off")
        \/ UNCHANGED <<dialog, liveImport, camera>>
    BY <1>4 DEF DetectAnswers
  <2> QED
    BY <2>1, <2>2, DialogLeft, DialogKept
<1> QED
  BY <1>1, <1>2, <1>3, <1>4 DEF Answers

LEMMA NextDialog == DialogInv /\ [Next]_vars => DialogInv'
<1> SUFFICES ASSUME DialogInv, [Next]_vars PROVE DialogInv'
  OBVIOUS
<1>1. CASE UNCHANGED vars
  BY <1>1 DEF vars, importVars, cameraVars, DialogInv
<1>2. CASE Next
  BY <1>2, CommitDialog, FormEventDialog, DialogEventDialog, WalletEventDialog, AnswerDialog DEF Next
<1> QED
  BY <1>1, <1>2

\* A wallet import still waited for is the one the open dialog shows, and the
\* camera is off at rest when no scanner is shown, in whatever order clicks,
\* answers, permissions and renders come (DialogOwnsItsWork of SwapForm).
THEOREM NothingOutlivesItsDialog == Spec => []DialogOwnsItsWork
<1>1. Init => DialogInv
  BY DEF Init, DialogInv
<1>2. DialogInv => DialogOwnsItsWork
  BY DEF DialogInv, DialogOwnsItsWork, LiveImportIsShown, CameraOnlyScans
<1>3. DialogInv /\ [Next]_vars => DialogInv'
  BY NextDialog
<1> QED
  BY <1>1, <1>2, <1>3, PTL DEF Spec

-----------------------------------------------------------------------------
(* The link *)

LinkInv ==
    /\ linkQuotes \in {0, 1}
    /\ pendingAutoQuoteLink # None => linkQuotes = 0
    /\ asked # None /\ asked.by # None =>
           \A x \in ToSet(LinkFields) : asked.form[x] = asked.by[x]

\* The auto-quote effect asks only when the form is the link's in every field.
LEMMA NoDifference ==
    ASSUME FirstDifference = 0
    PROVE  \A x \in ToSet(LinkFields) : form[x] = pendingAutoQuoteLink[x]
<1> DEFINE I == {i \in 1 .. Len(LinkFields) : form[LinkFields[i]] # pendingAutoQuoteLink[LinkFields[i]]}
<1>1. FirstDifference = IF I # {} THEN Min(I) ELSE 0
  BY DEF FirstDifference, SelectInSeq
<1>2. Len(LinkFields) = 5 /\ DOMAIN LinkFields = 1 .. 5
  BY DEF LinkFields
<1>3. I = {}
  <2> SUFFICES ASSUME I # {} PROVE FALSE
    OBVIOUS
  <2>1. I \subseteq 1 .. 5
    BY <1>2
  <2> HIDE DEF I
  <2>2. \E n \in I : \A m \in I : n <= m
    <3>1. CASE 1 \in I
      BY <2>1, <3>1
    <3>2. CASE 1 \notin I /\ 2 \in I
      BY <2>1, <3>2
    <3>3. CASE 1 \notin I /\ 2 \notin I /\ 3 \in I
      BY <2>1, <3>3
    <3>4. CASE 1 \notin I /\ 2 \notin I /\ 3 \notin I /\ 4 \in I
      BY <2>1, <3>4
    <3>5. CASE 1 \notin I /\ 2 \notin I /\ 3 \notin I /\ 4 \notin I
      <4>1. \A m \in I : m = 5
        BY <2>1, <3>5
      <4> QED
        BY <4>1
    <3> QED
      BY <3>1, <3>2, <3>3, <3>4, <3>5
  <2>3. Min(I) \in I
    BY <2>2 DEF Min
  <2> QED
    BY <1>1, <2>1, <2>3
<1>4. \A x \in ToSet(LinkFields) : \E i \in 1 .. 5 : x = LinkFields[i]
  BY <1>2 DEF ToSet
<1> QED
  BY <1>2, <1>3, <1>4

LEMMA NextLink == LinkInv /\ [Next]_vars => LinkInv'
<1> SUFFICES ASSUME LinkInv, [Next]_vars PROVE LinkInv'
  OBVIOUS
<1>1. CASE Commit /\ AutoQuotes
  <2>1. /\ asked' = [form |-> form, to |-> recipient, by |-> pendingAutoQuoteLink]
        /\ pendingAutoQuoteLink # None /\ pendingAutoQuoteLink' = None
        /\ linkQuotes' = linkQuotes + 1
        /\ FirstDifference = 0
    BY <1>1 DEF Commit, AutoQuotes, Request, LinkQuoted
  <2>2. asked'.form = form /\ asked'.by = pendingAutoQuoteLink
    BY <2>1
  <2>3. \A x \in ToSet(LinkFields) : asked'.form[x] = asked'.by[x]
    BY <2>1, <2>2, NoDifference
  <2>4. linkQuotes' = 1
    BY <2>1 DEF LinkInv
  <2> QED
    BY <2>1, <2>3, <2>4 DEF LinkInv, LinkFields
<1>2. CASE asked' = asked /\ linkQuotes' = linkQuotes
           /\ (pendingAutoQuoteLink' = None \/ pendingAutoQuoteLink' = pendingAutoQuoteLink)
  BY <1>2 DEF LinkInv, LinkFields
<1>3. CASE fetchQuote
  <2>1. asked' = [form |-> form, to |-> recipient, by |-> None] /\ UNCHANGED linkVars
    BY <1>3 DEF fetchQuote, Request
  <2>2. asked'.by = None
    BY <2>1
  <2> QED
    BY <2>1, <2>2 DEF LinkInv, linkVars
<1>4. CASE QuoteAnswers
  BY <1>4 DEF QuoteAnswers, LinkInv, linkVars
<1>5. CASE Commit /\ ~AutoQuotes
  <2>1. UNCHANGED <<asked, pendingAutoQuoteLink, linkQuotes>>
    BY <1>5 DEF Commit
  <2> QED
    BY <2>1, <1>2
<1>6. CASE FormEvents /\ ~fetchQuote
  BY <1>2, <1>6 DEF FormEvents, PickerNetwork, SearchAddress, Pick, PickFound, Selected, TypeAmount,
         swapSelectedTokens, openFavoritePair, linkVars
<1>7. CASE DialogEvents
  BY <1>2, <1>7 DEF DialogEvents, openRecipientAddressDialog, CloseDialog, useConnectedRecipientAddress,
         ChooseMode, PasteAddress, startRecipientWalletImport, Detect, recipientOnly, linkVars
<1>8. CASE WalletEvents
  BY <1>2, <1>8 DEF WalletEvents, WalletChanges, linkVars
<1>9. CASE Answers /\ ~QuoteAnswers
  BY <1>2, <1>9 DEF Answers, ListAnswers, SearchAnswers, ImportPrepared, ImportApplies, ImportFails,
         ImportShares, CameraAnswers, LateCameraAnswers, DetectAnswers, recipientOnly, linkVars
<1>10. CASE UNCHANGED vars
  BY <1>2, <1>10 DEF vars, linkVars
<1> QED
  BY <1>1, <1>3, <1>4, <1>5, <1>6, <1>7, <1>8, <1>9, <1>10 DEF Next

\* However effects, loads and answers interleave with what the user does, an
\* alert link asks for one quote, of its own pair and amount (LinkIsQuotedOnce
\* of SwapForm, the auto-quote effect of page.tsx).
THEOREM LinksAreQuotedOnce == Spec => []LinkIsQuotedOnce
<1>1. Init => LinkInv
  BY DEF Init, LinkInv
<1>2. LinkInv => LinkIsQuotedOnce
  BY DEF LinkInv, LinkIsQuotedOnce
<1>3. LinkInv /\ [Next]_vars => LinkInv'
  BY NextLink
<1> QED
  BY <1>1, <1>2, <1>3, PTL DEF Spec

-----------------------------------------------------------------------------
(* The recipient *)

ByHand == recipient.mode # "connected" /\ recipient.by # "import"

\* The token last rendered, the recipient's own and, at rest, the one the state
\* has now are the same.
RecipientInv ==
    /\ recipient = [address |-> recipient.address, mode |-> recipient.mode,
                    for |-> recipient.for, by |-> recipient.by]
    /\ ByHand => /\ recipient.for = RenderedBuy
                 /\ FamilyOf(recipient.address) = Family(recipient.for)
    /\ ~dirty => previousBuy = BuyKey
    /\ ~dirty /\ recipient.mode = "connected" => recipient.address = destinationWalletAddress

LEMMA BoughtInKey == BuyKey[2] = buyTokenInfo
BY DEF BuyKey, buyTokenInfo

\* What a render is due for leaves the recipient and the last render alone.
LEMMA RecipientStays ==
    ASSUME RecipientInv, UNCHANGED <<recipient, previousBuy>>, dirty' = TRUE
    PROVE  RecipientInv'
BY DEF RecipientInv, ByHand, RenderedBuy

LEMMA FieldsOf ==
    ASSUME NEW r, NEW a, NEW m, NEW t, NEW b, r = [address |-> a, mode |-> m, for |-> t, by |-> b]
    PROVE  /\ r.address = a /\ r.mode = m
           /\ r = [address |-> r.address, mode |-> r.mode, for |-> r.for, by |-> r.by]
OBVIOUS

LEMMA ConnectedFields ==
    ASSUME NEW r, NEW a, r = Connected(a)
    PROVE  /\ r.address = a /\ r.mode = "connected"
           /\ r = [address |-> r.address, mode |-> r.mode, for |-> r.for, by |-> r.by]
BY FieldsOf DEF Connected

LEMMA RecipientConnected ==
    ASSUME NEW a, recipient' = Connected(a), dirty' = TRUE
    PROVE  RecipientInv'
<1>1. /\ recipient'.mode = "connected"
      /\ recipient' = [address |-> recipient'.address, mode |-> recipient'.mode,
                       for |-> recipient'.for, by |-> recipient'.by]
  BY ConnectedFields
<1>2. ByHand' = FALSE
  BY <1>1 DEF ByHand
<1> QED
  BY <1>1, <1>2 DEF RecipientInv

\* selectTokenForSide and swapSelectedTokens go back to the connected wallet.
LEMMA RecipientReset ==
    ASSUME RecipientInv, recipient' = [recipient EXCEPT !.mode = "connected"], dirty' = TRUE
    PROVE  RecipientInv'
<1>1. recipient' = [address |-> recipient.address, mode |-> "connected",
                    for |-> recipient.for, by |-> recipient.by]
  BY DEF RecipientInv
<1> QED
  BY <1>1 DEF RecipientInv, ByHand

\* applyRecipientAddress, called for the token of the last render or by an import.
LEMMA RecipientGiven ==
    ASSUME NEW a, NEW t, NEW b, FamilyOf(a) = Family(t), b = "import" \/ t = RenderedBuy,
           recipient' = [address |-> a, mode |-> "custom", for |-> t, by |-> b],
           UNCHANGED previousBuy, dirty' = TRUE
    PROVE  RecipientInv'
<1>1. RenderedBuy' = RenderedBuy
  BY DEF RenderedBuy
<1> QED
  BY <1>1 DEF RecipientInv, ByHand

LEMMA AppliedRecipient ==
    ASSUME RecipientInv, NEW a, NEW t, NEW b, Applied(a, t, b), b = "import" \/ t = RenderedBuy,
           UNCHANGED previousBuy, dirty' = TRUE
    PROVE  RecipientInv'
<1>1. CASE FamilyOf(a) = Family(t)
  <2>1. recipient' = [address |-> a, mode |-> "custom", for |-> t, by |-> b]
    BY <1>1 DEF Applied
  <2> QED
    BY <1>1, <2>1, RecipientGiven
<1>2. CASE FamilyOf(a) # Family(t)
  <2>1. UNCHANGED recipient
    BY <1>2 DEF Applied
  <2> QED
    BY <2>1, RecipientStays
<1> QED
  BY <1>1, <1>2

\* A render: a recipient given by hand survives it only with its token, and
\* the render at which nothing changes has corrected everything.
LEMMA CommitRecipient == ASSUME RecipientInv, Commit PROVE RecipientInv'
<1>1. /\ recipient' = RecipientAfter /\ previousBuy' = BuyKey
      /\ UNCHANGED <<list, wallet>>
      /\ dirty' = (rendered' # rendered)
  BY DEF Commit
<1>2. \/ recipient' = Connected(destinationWalletAddress)
      \/ recipient' = recipient /\ recipient.mode # "connected" /\ previousBuy = BuyKey
  BY <1>1 DEF RecipientAfter
<1>3. recipient' = Connected(destinationWalletAddress) =>
          /\ recipient' = [address |-> recipient'.address, mode |-> recipient'.mode,
                           for |-> recipient'.for, by |-> recipient'.by]
          /\ recipient'.mode = "connected" /\ recipient'.address = destinationWalletAddress
  BY ConnectedFields
<1>4. RenderedBuy' = RenderedBuy \/ previousBuy # BuyKey
  BY <1>1 DEF RenderedBuy
<1>5. ~dirty' => /\ form' = form /\ recipient' = recipient
                 /\ BuyKey' = BuyKey /\ destinationWalletAddress' = destinationWalletAddress
  <2>1. ~dirty' => form' = form /\ recipient' = recipient
    BY <1>1 DEF rendered
  <2> QED
    BY <1>1, <2>1 DEF BuyKey, buyKnown, Listed, destinationWalletAddress, WalletOf
<1>6. ByHand' => recipient'.for = RenderedBuy' /\ FamilyOf(recipient'.address) = Family(recipient'.for)
  BY <1>2, <1>3, <1>4 DEF RecipientInv, ByHand
<1>7. ~dirty' => previousBuy' = BuyKey'
  BY <1>1, <1>5
<1>8. recipient'.mode = "connected" => recipient'.address = destinationWalletAddress
  BY <1>2, <1>3
<1>9. recipient' = [address |-> recipient'.address, mode |-> recipient'.mode,
                    for |-> recipient'.for, by |-> recipient'.by]
  BY <1>2, <1>3 DEF RecipientInv
<1> QED
  BY <1>5, <1>6, <1>7, <1>8, <1>9 DEF RecipientInv

LEMMA FormEventRecipient == ASSUME RecipientInv, FormEvents PROVE RecipientInv'
<1>1. dirty' = TRUE /\ UNCHANGED previousBuy
  BY DEF FormEvents, PickerNetwork, SearchAddress, Pick, PickFound, Selected, TypeAmount,
         swapSelectedTokens, fetchQuote, openFavoritePair, Acts, Renders
<1>2. recipient' = recipient \/ recipient' = [recipient EXCEPT !.mode = "connected"]
  BY DEF FormEvents, PickerNetwork, SearchAddress, Pick, PickFound, Selected, TypeAmount,
         swapSelectedTokens, fetchQuote, openFavoritePair
<1> QED
  BY <1>1, <1>2, RecipientStays, RecipientReset

\* The user acts at rest: on the token that is rendered.
LEMMA DialogEventRecipient == ASSUME RecipientInv, DialogEvents PROVE RecipientInv'
<1>1. ASSUME \/ openRecipientAddressDialog \/ CloseDialog \/ startRecipientWalletImport
             \/ \E mode \in {"paste", "scan"} : ChooseMode(mode)
      PROVE  RecipientInv'
  <2>1. UNCHANGED <<recipient, previousBuy>> /\ dirty' = TRUE
    BY <1>1 DEF openRecipientAddressDialog, CloseDialog, startRecipientWalletImport, ChooseMode,
                recipientOnly, Clicks, Renders
  <2> QED
    BY <2>1, RecipientStays
<1>2. ASSUME useConnectedRecipientAddress PROVE RecipientInv'
  <2>1. recipient' = Connected(destinationWalletAddress) /\ dirty' = TRUE
    BY <1>2 DEF useConnectedRecipientAddress, Clicks, Renders
  <2> QED
    BY <2>1, RecipientConnected
<1>3. ASSUME NEW a \in Given, PasteAddress(a) PROVE RecipientInv'
  <2>1. /\ Applied(a, buyTokenInfo, "hand") /\ UNCHANGED previousBuy
        /\ ~dirty /\ dirty' = TRUE
    BY <1>3 DEF PasteAddress, recipientOnly, Clicks, Renders
  <2>2. buyTokenInfo = RenderedBuy
    BY <2>1, BoughtInKey DEF RecipientInv, RenderedBuy
  <2> QED
    BY <2>1, <2>2, AppliedRecipient
<1>4. ASSUME Detect PROVE RecipientInv'
  <2>1. UNCHANGED <<recipient, previousBuy, dirty, form, list, wallet>>
    BY <1>4 DEF Detect, recipientOnly, catalogVars, walletVars
  <2>2. BuyKey' = BuyKey /\ destinationWalletAddress' = destinationWalletAddress
    BY <2>1 DEF BuyKey, buyKnown, Listed, destinationWalletAddress, WalletOf
  <2> QED
    BY <2>1, <2>2 DEF RecipientInv, ByHand, RenderedBuy
<1> QED
  BY <1>1, <1>2, <1>3, <1>4 DEF DialogEvents

LEMMA AnswerRecipient == ASSUME RecipientInv, Answers PROVE RecipientInv'
<1>1. ASSUME \/ \E c \in Chains : ListAnswers(c)
             \/ SearchAnswers \/ QuoteAnswers \/ LateCameraAnswers
             \/ \E i \in ImportIds :
                    ImportPrepared(i) \/ ImportFails(i) \/ \E a \in Given : ImportShares(i, a)
             \/ \E allowed \in BOOLEAN : CameraAnswers(allowed)
      PROVE  RecipientInv'
  <2>1. UNCHANGED <<recipient, previousBuy>> /\ dirty' = TRUE
    BY <1>1 DEF ListAnswers, SearchAnswers, QuoteAnswers, LateCameraAnswers, ImportPrepared,
                ImportFails, ImportShares, CameraAnswers, Answered, Renders, recipientOnly
  <2> QED
    BY <2>1, RecipientStays
<1>2. ASSUME NEW i \in ImportIds, ImportApplies(i) PROVE RecipientInv'
  <2>1. /\ Applied(imports[i].address, imports[i].for, "import")
        /\ UNCHANGED previousBuy /\ dirty' = TRUE
    BY <1>2 DEF ImportApplies, recipientOnly, Answered, Renders
  <2> QED
    BY <2>1, AppliedRecipient
<1>3. ASSUME NEW a \in Given, DetectAnswers(a) PROVE RecipientInv'
  <2>1. UNCHANGED previousBuy /\ dirty' = TRUE
    BY <1>3 DEF DetectAnswers, recipientOnly, Answered, Renders
  <2>2. CASE FamilyOf(a) = Family(RenderedBuy)
    <3>1. recipient' = [address |-> a, mode |-> "custom", for |-> RenderedBuy, by |-> "hand"]
      BY <1>3, <2>2 DEF DetectAnswers
    <3> QED
      BY <2>1, <2>2, <3>1, RecipientGiven
  <2>3. CASE FamilyOf(a) # Family(RenderedBuy)
    <3>1. UNCHANGED recipient
      BY <1>3, <2>3 DEF DetectAnswers
    <3> QED
      BY <2>1, <3>1, RecipientStays
  <2> QED
    BY <2>2, <2>3
<1> QED
  BY <1>1, <1>2, <1>3 DEF Answers

LEMMA NextRecipient == RecipientInv /\ [Next]_vars => RecipientInv'
<1> SUFFICES ASSUME RecipientInv, [Next]_vars PROVE RecipientInv'
  OBVIOUS
<1>1. CASE UNCHANGED vars
  <2>1. UNCHANGED <<recipient, previousBuy, dirty, form, list, wallet>>
    BY <1>1 DEF vars, catalogVars, walletVars
  <2>2. BuyKey' = BuyKey /\ destinationWalletAddress' = destinationWalletAddress
    BY <2>1 DEF BuyKey, buyKnown, Listed, destinationWalletAddress, WalletOf
  <2> QED
    BY <2>1, <2>2 DEF RecipientInv, ByHand, RenderedBuy
<1>2. CASE WalletEvents
  <2>1. UNCHANGED <<recipient, previousBuy>> /\ dirty' = TRUE
    BY <1>2 DEF WalletEvents, WalletChanges, Renders
  <2> QED
    BY <2>1, RecipientStays
<1> QED
  BY <1>1, <1>2, CommitRecipient, FormEventRecipient, DialogEventRecipient, AnswerRecipient DEF Next

\* However lists, wallets, scans and renders interleave, at rest the recipient
\* is the wallet connected for the token bought or an address given by hand for
\* that token (RecipientIsThisTokens of SwapForm, the recipient effects and
\* applyRecipientAddressRef of page.tsx).
THEOREM RecipientsAreTheirTokens == Spec => []RecipientIsThisTokens
<1>1. Init => RecipientInv
  <2> SUFFICES ASSUME Init PROVE RecipientInv
    OBVIOUS
  <2>1. recipient = [address |-> "", mode |-> "connected", for |-> "", by |-> "wallet"] /\ dirty = TRUE
    BY DEF Init, Connected
  <2> QED
    BY <2>1 DEF RecipientInv, ByHand
<1>2. RecipientInv => RecipientIsThisTokens
  <2> SUFFICES ASSUME RecipientInv, ~dirty, recipient.by # "import" PROVE RecipientIsRight
    BY DEF RecipientIsThisTokens
  <2>1. buyTokenInfo = RenderedBuy
    BY BoughtInKey DEF RecipientInv, RenderedBuy
  <2> QED
    BY <2>1 DEF RecipientInv, ByHand, RecipientIsRight
<1>3. RecipientInv /\ [Next]_vars => RecipientInv'
  BY NextRecipient
<1> QED
  BY <1>1, <1>2, <1>3, PTL DEF Spec

=============================================================================
