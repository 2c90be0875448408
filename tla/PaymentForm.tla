---------------------------- MODULE PaymentForm ----------------------------
(***************************************************************************)
(* The inline payment form in the shopper's browser                        *)
(* (static/src/interactions/payment_form.js), with the transactions and    *)
(* sessions the server makes for it.                                       *)
(*                                                                         *)
(* A page shows payment options.  Selecting one of XPay's mounts an        *)
(* element, the SDK's card form; paying validates it, has the server       *)
(* create a transaction and its session, and confirms the session with the *)
(* element.  Each of the three is a promise, and while one is pending the  *)
(* shopper may select another option, which destroys the element and       *)
(* re-enables the button.  The host form and the SDK are not in the        *)
(* repository: they are modelled from how this code uses them.             *)
(***************************************************************************)
EXTENDS Naturals, Sequences, FiniteSets, SequencesExt, Money, IdempotencyKeys

CONSTANTS
    Option,      \* the payment options of XPay
    Other,       \* any other option: another provider's, or a saved token
    Flow,        \* runs of the payment flow
    Shop,        \* what may differ between shops and orders, see ShopType
    None,
    MaxElement,  \* bound: elements mounted on one page
    MaxTx        \* bound: transactions

\* odoo and xpay are the decimals each side gives the currency; the amounts
\* are those the order may have; presentment: does XPay settle in another one?
ShopType ==
    [reference : Seq(STRING), odoo : 0 .. Fine, xpay : 0 .. Fine,
     amounts : SUBSET Nat, presentment : BOOLEAN]

ASSUME PaymentFormAssumption ==
    /\ Other \notin Option
    /\ None \notin Option \cup {Other}
    /\ Shop \subseteq ShopType
    /\ MaxElement \in Nat
    /\ MaxTx \in Nat

VARIABLES
    shop,      \* the order's reference and currency, the account's settlement
    cart,      \* what the order amounts to now
    page,      \* where the browser is, and the amount its form was made for
    selected,  \* the option whose radio is checked
    active,    \* xpayActiveOptionId
    entry,     \* xpayElements: the element mounted for an option, 0 if none
    element,   \* the elements mounted on this page: their option and status
    button,    \* is the submit button enabled?
    flow,      \* the runs of the payment flow and what they captured
    tx         \* the transactions created, in order

vars == <<shop, cart, page, selected, active, entry, element, button, flow, tx>>
form == <<selected, active, entry, element, button, flow>>

Status == {"live", "broken", "destroyed"}
Step == {"idle", "submitting", "creating", "confirming"}

IdleFlow == [step |-> "idle", option |-> None, element |-> 0, tx |-> 0]

\* _xpay_inline_form_values and _create_session convert the same way.
MinorOf(amount) == ToMinor(OdooRound(amount, shop.odoo), shop.xpay)

\* The reference Odoo gives the nth transaction of an order.
ReferenceOf(n) == IF n = 1 THEN shop.reference ELSE shop.reference \o <<"-", ToString(n - 1)>>

\* The body and the key of the session of the nth transaction.  Only the amount
\* and the reference tell the bodies of one order apart.
BodyOf(n) == <<ReferenceOf(n), MinorOf(tx[n].amount)>>
KeyOf(n, retry) == SessionKey(ReferenceOf(n), 1, retry)

\* The platform's session for a transaction.  What it settles in is left open,
\* and one unit off stands for any other figure.
SessionOf(n) ==
    [presentment |-> IF shop.presentment THEN <<MinorOf(tx[n].amount)>> ELSE <<>>,
     processing |-> MinorOf(tx[n].amount) + (IF shop.presentment THEN 1 ELSE 0)]

\* _validate_amount of the amount _extract_amount_data reads in the session.
Recognised(n) ==
    SameAmount(FromMinor(SessionCharge(SessionOf(n)), shop.xpay), tx[n].amount, shop.xpay)

TypeOK ==
    /\ shop \in Shop
    /\ cart \in shop.amounts
    /\ page \in [open : BOOLEAN, amount : shop.amounts, sdk : BOOLEAN]
    /\ selected \in Option \cup {Other, None}
    /\ active \in Option \cup {None}
    /\ entry \in [Option -> 0 .. Len(element)]
    /\ Len(element) <= MaxElement
    /\ element \in Seq([option : Option, status : Status])
    /\ button \in BOOLEAN
    /\ flow \in [Flow -> [step : Step, option : Option \cup {None},
                          element : 0 .. MaxElement, tx : 0 .. MaxTx]]
    /\ Len(tx) <= MaxTx
    /\ tx \in Seq([option : Option, amount : shop.amounts, warned : BOOLEAN, charged : BOOLEAN])

-----------------------------------------------------------------------------
(***************************************************************************)
(* The page.                                                               *)
(***************************************************************************)
BlankForm(amount) ==
    /\ page' \in [open : {TRUE}, amount : {amount}, sdk : BOOLEAN]
    /\ selected' = None
    /\ active' = None
    /\ entry' = [o \in Option |-> 0]
    /\ element' = <<>>
    /\ button' = FALSE
    /\ flow' = [f \in Flow |-> IdleFlow]

Init ==
    /\ shop \in Shop
    /\ cart \in shop.amounts
    /\ page \in [open : {TRUE}, amount : {cart}, sdk : BOOLEAN]
    /\ selected = None
    /\ active = None
    /\ entry = [o \in Option |-> 0]
    /\ element = <<>>
    /\ button = FALSE
    /\ flow = [f \in Flow |-> IdleFlow]
    /\ tx = <<>>

\* The order changes in another tab.
CartChanges ==
    /\ cart' \in shop.amounts \ {cart}
    /\ UNCHANGED <<shop, page, form, tx>>

\* The payment page is rendered, again or after the shopper has left it.
LoadPage ==
    /\ BlankForm(cart)
    /\ UNCHANGED <<shop, cart, tx>>

-----------------------------------------------------------------------------
(***************************************************************************)
(* Selecting an option.                                                    *)
(***************************************************************************)

\* _xpayTeardownActive, on the elements.
TornDown ==
    [e \in DOMAIN element |->
        IF active # None /\ entry[active] = e THEN [element[e] EXCEPT !.status = "destroyed"]
        ELSE element[e]]

\* The entries it leaves.
WithoutActive == [o \in Option |-> IF o = active THEN 0 ELSE entry[o]]

PrepareOther_KeepsElement ==
    /\ page.open
    /\ selected' = Other
    /\ button' = TRUE
    /\ UNCHANGED <<shop, cart, page, active, entry, element, flow, tx>>

\* _prepareInlineForm of another provider, or of a saved token.
PrepareOther ==
    /\ page.open
    /\ selected' = Other
    /\ active' = None
    /\ entry' = WithoutActive
    /\ element' = TornDown
    /\ button' = TRUE
    /\ UNCHANGED <<shop, cart, page, flow, tx>>

\* _prepareInlineForm of an option of XPay; the host then enables the button.
PrepareOption(o) ==
    LET switching == active # o
        kept == IF switching THEN WithoutActive ELSE entry
        left == IF switching THEN TornDown ELSE element
        mounts == kept[o] = 0 /\ page.sdk
    IN  /\ page.open
        /\ mounts => Len(element) < MaxElement
        /\ selected' = o
        /\ active' = o
        /\ element' = IF mounts THEN Append(left, [option |-> o, status |-> "live"]) ELSE left
        /\ entry' = IF mounts THEN [kept EXCEPT ![o] = Len(element')] ELSE kept
        /\ button' = TRUE
        /\ UNCHANGED <<shop, cart, page, flow, tx>>

\* The SDK's loaderror event: the form never rendered.
LoadError(e) ==
    /\ page.open
    /\ element[e].status = "live"
    /\ element' = [element EXCEPT ![e].status = "broken"]
    /\ button' = FALSE
    /\ UNCHANGED <<shop, cart, page, selected, active, entry, flow, tx>>

-----------------------------------------------------------------------------
(***************************************************************************)
(* Paying.                                                                 *)
(***************************************************************************)

\* A flow gives up: a dialog, and the button is enabled.
GiveUp(f) ==
    /\ flow' = [flow EXCEPT ![f] = IdleFlow]
    /\ button' = TRUE

\* The host disables the button, and _initiatePaymentFlow validates the form.
Pay(f) ==
    /\ page.open
    /\ button
    /\ selected \in Option
    /\ flow[f].step = "idle"
    /\ entry[selected] # 0
    /\ flow' = [flow EXCEPT ![f] = [step |-> "submitting", option |-> selected,
                                    element |-> entry[selected], tx |-> 0]]
    /\ button' = FALSE
    /\ UNCHANGED <<shop, cart, page, selected, active, entry, element, tx>>

\* It refuses to go on without a form, and enables the button again.
PayWithoutForm(f) ==
    /\ page.open
    /\ button
    /\ selected \in Option
    /\ flow[f].step = "idle"
    /\ entry[selected] = 0
    /\ GiveUp(f)
    /\ UNCHANGED <<shop, cart, page, selected, active, entry, element, tx>>

SubmitFails_StaysDisabled(f) ==
    /\ flow[f].step = "submitting"
    /\ flow' = [flow EXCEPT ![f] = IdleFlow]
    /\ UNCHANGED <<shop, cart, page, selected, active, entry, element, button, tx>>

\* elements.submit() fails, is rejected, or says what is wrong.
SubmitFails(f) ==
    /\ flow[f].step = "submitting"
    /\ GiveUp(f)
    /\ UNCHANGED <<shop, cart, page, selected, active, entry, element, tx>>

\* Only a form that is on the page can be valid.
SubmitSucceeds(f) ==
    /\ flow[f].step = "submitting"
    /\ element[flow[f].element].status = "live"
    /\ flow' = [flow EXCEPT ![f].step = "creating"]
    /\ UNCHANGED <<shop, cart, page, selected, active, entry, element, button, tx>>

\* The server refuses to create the transaction or its session.
CreateFails(f) ==
    /\ flow[f].step = "creating"
    /\ GiveUp(f)
    /\ UNCHANGED <<shop, cart, page, selected, active, entry, element, tx>>

Created_ForSelected(f) ==
    /\ flow[f].step = "creating"
    /\ Len(tx) < MaxTx
    /\ tx' = Append(tx, [option |-> selected, amount |-> cart,
                         warned |-> FALSE, charged |-> FALSE])

\* The transaction is of the option the flow was started with.
Created(f) ==
    /\ flow[f].step = "creating"
    /\ Len(tx) < MaxTx
    /\ tx' = Append(tx, [option |-> flow[f].option, amount |-> cart,
                         warned |-> FALSE, charged |-> FALSE])

ElementFor_Validated(f) == flow[f].element

\* The element a transaction is confirmed with: looked up again.
ElementFor(f) == entry[flow[f].option]

\* _processDirectFlow: a transaction was created, and its option's element
\* confirms the session.
Confirm(f) ==
    /\ Created(f)
    /\ ElementFor(f) # 0
    /\ flow' = [flow EXCEPT ![f].step = "confirming", ![f].element = ElementFor(f),
                            ![f].tx = Len(tx')]
    /\ UNCHANGED <<shop, cart, page, selected, active, entry, element, button>>

\* The shopper has left the option meanwhile, and its element is gone.
ConfirmWithoutForm(f) ==
    /\ Created(f)
    /\ ElementFor(f) = 0
    /\ GiveUp(f)
    /\ UNCHANGED <<shop, cart, page, selected, active, entry, element>>

-----------------------------------------------------------------------------
(***************************************************************************)
(* What confirmPayment comes to.                                           *)
(***************************************************************************)

\* The platform warns once of an amount the element did not show.
NeedsReconfirmation(f) ==
    LET t == flow[f].tx
    IN  MinorOf(tx[t].amount) # MinorOf(page.amount) /\ ~tx[t].warned

\* A rejection, or a result that is an error.
ConfirmFails(f) ==
    /\ flow[f].step = "confirming"
    /\ GiveUp(f)
    /\ UNCHANGED <<shop, cart, page, selected, active, entry, element, tx>>

\* The payment goes through, and the browser is sent to the return URL, by the
\* SDK or by this code.
ConfirmSucceeds(f) ==
    /\ flow[f].step = "confirming"
    /\ ~NeedsReconfirmation(f)
    /\ tx' = [tx EXCEPT ![flow[f].tx].charged = TRUE]
    /\ page' = [page EXCEPT !.open = FALSE]
    /\ flow' = [g \in Flow |-> IdleFlow]
    /\ UNCHANGED <<shop, cart, selected, active, entry, element, button>>

\* The payment goes through, and the answer is lost.
ConfirmAnswerLost(f) ==
    /\ flow[f].step = "confirming"
    /\ ~NeedsReconfirmation(f)
    /\ tx' = [tx EXCEPT ![flow[f].tx].charged = TRUE]
    /\ GiveUp(f)
    /\ UNCHANGED <<shop, cart, page, selected, active, entry, element>>

AmountChanged_Retries(f) ==
    /\ flow[f].step = "confirming"
    /\ NeedsReconfirmation(f)
    /\ tx' = [tx EXCEPT ![flow[f].tx].warned = TRUE]
    /\ UNCHANGED <<shop, cart, page, form>>

\* amount_reconfirmation_required: the page is reloaded.
AmountChanged(f) ==
    /\ flow[f].step = "confirming"
    /\ NeedsReconfirmation(f)
    /\ tx' = [tx EXCEPT ![flow[f].tx].warned = TRUE]
    /\ BlankForm(cart)
    /\ UNCHANGED <<shop, cart>>

-----------------------------------------------------------------------------
Settle(f) ==
    \/ SubmitFails(f) \/ SubmitSucceeds(f)
    \/ CreateFails(f) \/ Confirm(f) \/ ConfirmWithoutForm(f)
    \/ ConfirmFails(f) \/ ConfirmSucceeds(f) \/ ConfirmAnswerLost(f) \/ AmountChanged(f)

Next ==
    \/ CartChanges
    \/ LoadPage
    \/ PrepareOther
    \/ \E o \in Option : PrepareOption(o)
    \/ \E e \in DOMAIN element : LoadError(e)
    \/ \E f \in Flow : Pay(f) \/ PayWithoutForm(f) \/ Settle(f)

Spec == Init /\ [][Next]_vars

\* A promise settles.
FairSpec == Spec /\ \A f \in Flow : WF_vars(Settle(f))

-----------------------------------------------------------------------------
(***************************************************************************)
(* Properties.                                                             *)
(***************************************************************************)

\* Only the selected option has an element, and it is the recorded one: no other
\* answers messages meant for it (_prepareInlineForm, _xpayTeardownActive).
OneLiveElement ==
    \A e \in DOMAIN element :
        element[e].status # "destroyed" =>
            /\ element[e].option = selected
            /\ entry[selected] = e

\* A session is only confirmed with an element that is on the page then and of
\* the option its transaction was created for, whatever the shopper selected
\* while the form was validated and the transaction created.
ConfirmsItsElement ==
    [][\A f \in Flow :
        flow[f].step # "confirming" /\ flow'[f].step = "confirming" =>
            LET e == element[flow'[f].element]
            IN  /\ e.status # "destroyed"
                /\ e.option = tx'[flow'[f].tx].option]_vars

\* Nobody is charged another total than the one the form on the page was made
\* for, however the order changes meanwhile (_processDirectFlow reloads).
ChargesShownTotal ==
    [][\A n \in DOMAIN tx :
        ~tx[n].charged /\ tx'[n].charged =>
            MinorOf(tx[n].amount) = MinorOf(page.amount)]_vars

\* The amount of the session made for a transaction is recognised as the amount
\* of that transaction when it is paid, whatever the decimals of the two sides
\* and whether or not XPay settles in another currency (_extract_amount_data).
ChargeIsRecognised == \A n \in DOMAIN tx : Recognised(n)

\* The sessions of two transactions, the retry of one, and its first refund
\* never share a key, however long the reference, and binding a key to its body
\* cuts nothing off (_keyed, bind_to_body).
OwnSessionKey ==
    \A n \in DOMAIN tx, retry \in BOOLEAN :
        LET key == KeyOf(n, retry)
        IN  /\ SubSeq(BindToBody(key, BodyOf(n)), 1, Len(key)) = key
            /\ \A m \in DOMAIN tx, again \in BOOLEAN :
                    <<m, again>> # <<n, retry>> => KeyOf(m, again) # key
            /\ key # RefundKeyText(ReferenceOf(n), 0, 0, MinorOf(tx[n].amount))

\* The shopper is never left on a page that will not let them pay: sooner or
\* later the button is enabled, unless its form failed to load.
Usable ==
    \/ button
    \/ ~page.open
    \/ selected = None
    \/ \E e \in DOMAIN element : element[e].status = "broken"
NeverStuck == []<>Usable
=============================================================================
