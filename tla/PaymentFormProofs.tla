------------------------- MODULE PaymentFormProofs -------------------------
(***************************************************************************)
(* PaymentForm's inductive invariant, for any options, flows and shops,    *)
(* and however many elements are mounted, and what follows from it; then   *)
(* the amounts and the keys of the sessions, which are about the operators *)
(* of Money and IdempotencyKeys and need no more than the types.           *)
(***************************************************************************)
EXTENDS PaymentForm, SequenceTheorems, TLAPS

-----------------------------------------------------------------------------
(***************************************************************************)
(* The inductive invariant.                                                *)
(***************************************************************************)

\* The option whose form is kept is the selected one.
SelectedInv == active # None => selected = active

\* Its form is the one entry, and is on the page.
EntryInv ==
    \A o \in Option : entry[o] # 0 =>
        /\ o = active
        /\ entry[o] \in DOMAIN element
        /\ element[entry[o]].option = o
        /\ element[entry[o]].status # "destroyed"

\* A flow knows its option and its element, and confirms a transaction the
\* shopper was not warned about: a warning ends every flow of the page.
FlowInv(f) ==
    /\ flow[f].step # "idle" => flow[f].option \in Option /\ flow[f].element \in DOMAIN element
    /\ flow[f].step = "confirming" => flow[f].tx \in DOMAIN tx /\ ~tx[flow[f].tx].warned

IInv ==
    /\ TypeOK
    /\ SelectedInv
    /\ EntryInv
    /\ OneLiveElement
    /\ \A f \in Flow : FlowInv(f)

FlowType == [step : Step, option : Option \cup {None},
             element : 0 .. MaxElement, tx : 0 .. MaxTx]
ElementType == [option : Option, status : Status]
TxType == [option : Option, amount : shop.amounts, warned : BOOLEAN, charged : BOOLEAN]

-----------------------------------------------------------------------------
(***************************************************************************)
(* What a flow does leaves the page alone.                                 *)
(***************************************************************************)
LEMMA IdleFlowType == IdleFlow \in FlowType /\ IdleFlow.step = "idle"
  BY PaymentFormAssumption DEF IdleFlow, FlowType, Step

\* A flow takes a step, and the transactions that exist are not warned of.
LEMMA FlowStep ==
    ASSUME IInv, NEW f \in Flow, NEW r \in FlowType,
           UNCHANGED <<shop, cart, selected, active, entry, element>>,
           page' \in [open : BOOLEAN, amount : shop.amounts, sdk : BOOLEAN],
           button' \in BOOLEAN,
           flow' = [flow EXCEPT ![f] = r],
           tx' \in Seq(TxType), Len(tx') <= MaxTx, Len(tx) <= Len(tx'),
           \A n \in DOMAIN tx : tx'[n].warned = tx[n].warned,
           FlowInv(f)'
    PROVE  IInv'
<1>1. TypeOK'
  BY DEF IInv, TypeOK, FlowType, TxType
<1>2. SelectedInv' /\ EntryInv' /\ OneLiveElement'
  BY DEF IInv, SelectedInv, EntryInv, OneLiveElement
<1>3. ASSUME NEW g \in Flow
      PROVE  FlowInv(g)'
  <2>1. CASE g = f
    BY <2>1
  <2>2. CASE g # f
    <3>1. flow'[g] = flow[g]
      BY <2>2 DEF IInv, TypeOK
    <3>2. DOMAIN tx \subseteq DOMAIN tx'
      BY DEF IInv, TypeOK, TxType
    <3> QED
      BY <3>1, <3>2 DEF IInv, FlowInv
  <2> QED
    BY <2>1, <2>2
<1> QED
  BY <1>1, <1>2, <1>3 DEF IInv

\* A flow that gives up.
LEMMA GiveUpStep ==
    ASSUME IInv, NEW f \in Flow, GiveUp(f),
           UNCHANGED <<shop, cart, page, selected, active, entry, element>>,
           tx' \in Seq(TxType), Len(tx') <= MaxTx, Len(tx) <= Len(tx'),
           \A n \in DOMAIN tx : tx'[n].warned = tx[n].warned
    PROVE  IInv'
<1>1. /\ flow' = [flow EXCEPT ![f] = IdleFlow] /\ button' \in BOOLEAN
      /\ page' \in [open : BOOLEAN, amount : shop.amounts, sdk : BOOLEAN]
  BY DEF GiveUp, IInv, TypeOK
<1>2. flow'[f] = IdleFlow
  BY <1>1 DEF IInv, TypeOK
<1>3. FlowInv(f)'
  BY <1>2, IdleFlowType DEF FlowInv
<1> QED
  BY <1>1, <1>3, IdleFlowType, FlowStep

\* The flows that settle without touching the transactions.
LEMMA UnpaidStep ==
    ASSUME IInv, NEW f \in Flow,
           \/ PayWithoutForm(f) \/ SubmitFails(f) \/ CreateFails(f) \/ ConfirmFails(f)
    PROVE  IInv'
<1>1. tx \in Seq(TxType) /\ Len(tx) <= MaxTx
  BY DEF IInv, TypeOK, TxType
<1> QED
  BY <1>1, GiveUpStep DEF PayWithoutForm, SubmitFails, CreateFails, ConfirmFails

LEMMA PayStep ==
    ASSUME IInv, NEW f \in Flow, Pay(f)
    PROVE  IInv'
<1> DEFINE r == [step |-> "submitting", option |-> selected,
                 element |-> entry[selected], tx |-> 0]
<1>1. entry[selected] \in DOMAIN element /\ entry[selected] \in 0 .. MaxElement
  BY PaymentFormAssumption DEF Pay, IInv, EntryInv, TypeOK
<1>2. r \in FlowType
  BY <1>1, PaymentFormAssumption DEF Pay, FlowType, Step
<1>3. flow' = [flow EXCEPT ![f] = r] /\ flow'[f] = r
  BY DEF Pay, IInv, TypeOK
<1>4. FlowInv(f)'
  BY <1>1, <1>3 DEF FlowInv, Pay
<1>5. /\ UNCHANGED <<shop, cart, page, selected, active, entry, element, tx>>
      /\ button' \in BOOLEAN
  BY DEF Pay
<1>6. /\ tx' \in Seq(TxType) /\ Len(tx') <= MaxTx /\ Len(tx) <= Len(tx')
      /\ page' \in [open : BOOLEAN, amount : shop.amounts, sdk : BOOLEAN]
  BY <1>5 DEF IInv, TypeOK, TxType
<1> QED
  BY <1>2, <1>3, <1>4, <1>5, <1>6, FlowStep

LEMMA SubmitSucceedsStep ==
    ASSUME IInv, NEW f \in Flow, SubmitSucceeds(f)
    PROVE  IInv'
<1> DEFINE r == [flow[f] EXCEPT !.step = "creating"]
<1>1. flow[f] \in FlowType /\ FlowInv(f)
  BY DEF IInv, TypeOK, FlowType
<1>2. r \in FlowType /\ r.step = "creating" /\ r.option = flow[f].option
      /\ r.element = flow[f].element
  BY <1>1 DEF FlowType, Step
<1>3. flow' = [flow EXCEPT ![f] = r] /\ flow'[f] = r
  BY DEF SubmitSucceeds, IInv, TypeOK
<1>4. FlowInv(f)'
  BY <1>1, <1>2, <1>3 DEF FlowInv, SubmitSucceeds
<1>5. /\ tx \in Seq(TxType) /\ Len(tx) <= MaxTx /\ tx' = tx
      /\ page' \in [open : BOOLEAN, amount : shop.amounts, sdk : BOOLEAN]
      /\ button' \in BOOLEAN /\ Len(tx) <= Len(tx')
      /\ UNCHANGED <<shop, cart, selected, active, entry, element>>
  BY DEF SubmitSucceeds, IInv, TypeOK, TxType
<1> QED
  BY <1>2, <1>3, <1>4, <1>5, FlowStep

\* A transaction is created: it is appended, and those there keep their fields.
LEMMA CreatedTx ==
    ASSUME IInv, NEW f \in Flow, Created(f), shop' = shop
    PROVE  /\ tx' \in Seq(TxType) /\ Len(tx') <= MaxTx /\ Len(tx') = Len(tx) + 1
           /\ \A n \in DOMAIN tx : tx'[n] = tx[n]
           /\ tx'[Len(tx')].option = flow[f].option
           /\ ~tx'[Len(tx')].warned
<1> DEFINE t == [option |-> flow[f].option, amount |-> cart,
                 warned |-> FALSE, charged |-> FALSE]
<1>1. flow[f].option \in Option /\ cart \in shop.amounts
  BY DEF IInv, TypeOK, FlowInv, Created
<1>2. t \in TxType
  BY <1>1 DEF TxType
<1>3. tx \in Seq(TxType) /\ Len(tx) < MaxTx /\ tx' = Append(tx, t)
  BY DEF Created, IInv, TypeOK, TxType
<1> HIDE DEF TxType, t
<1>4. tx' \in Seq(TxType) /\ Len(tx') = Len(tx) + 1
      /\ (\A n \in DOMAIN tx : tx'[n] = tx[n]) /\ tx'[Len(tx')] = t
  BY <1>2, <1>3
<1>5. t.option = flow[f].option /\ ~t.warned
  BY DEF t
<1> QED
  BY <1>3, <1>4, <1>5, PaymentFormAssumption

LEMMA ConfirmStep ==
    ASSUME IInv, NEW f \in Flow, Confirm(f)
    PROVE  IInv'
<1> DEFINE r == [flow[f] EXCEPT !.step = "confirming", !.element = ElementFor(f),
                                !.tx = Len(tx')]
<1>1. /\ tx' \in Seq(TxType) /\ Len(tx') <= MaxTx /\ Len(tx') = Len(tx) + 1
      /\ \A n \in DOMAIN tx : tx'[n] = tx[n]
      /\ ~tx'[Len(tx')].warned
  BY CreatedTx DEF Confirm
<1>2. flow[f] \in FlowType /\ flow[f].option \in Option
  BY DEF IInv, TypeOK, FlowType, FlowInv, Confirm, Created
<1>3. ElementFor(f) \in DOMAIN element /\ ElementFor(f) \in 0 .. MaxElement
  BY <1>2, PaymentFormAssumption DEF Confirm, ElementFor, IInv, EntryInv, TypeOK
<1>4. Len(tx') \in 0 .. MaxTx /\ Len(tx') \in DOMAIN tx'
  BY <1>1, PaymentFormAssumption DEF IInv, TypeOK
<1>5. r \in FlowType /\ r.step = "confirming" /\ r.option = flow[f].option
      /\ r.element = ElementFor(f) /\ r.tx = Len(tx')
  BY <1>2, <1>3, <1>4 DEF FlowType, Step
<1>6. flow' = [flow EXCEPT ![f] = r] /\ flow'[f] = r
  BY DEF Confirm, IInv, TypeOK
<1>7. FlowInv(f)'
  BY <1>1, <1>2, <1>3, <1>4, <1>5, <1>6 DEF FlowInv, Confirm
<1>8. /\ page' \in [open : BOOLEAN, amount : shop.amounts, sdk : BOOLEAN]
      /\ button' \in BOOLEAN /\ Len(tx) <= Len(tx')
      /\ UNCHANGED <<shop, cart, selected, active, entry, element>>
  BY <1>1 DEF Confirm, IInv, TypeOK
<1> QED
  BY <1>1, <1>5, <1>6, <1>7, <1>8, FlowStep

LEMMA ConfirmWithoutFormStep ==
    ASSUME IInv, NEW f \in Flow, ConfirmWithoutForm(f)
    PROVE  IInv'
<1>1. /\ tx' \in Seq(TxType) /\ Len(tx') <= MaxTx /\ Len(tx') = Len(tx) + 1
      /\ \A n \in DOMAIN tx : tx'[n] = tx[n]
  BY CreatedTx DEF ConfirmWithoutForm
<1>2. Len(tx) <= Len(tx')
  BY <1>1 DEF IInv, TypeOK
<1> QED
  BY <1>1, <1>2, GiveUpStep DEF ConfirmWithoutForm

-----------------------------------------------------------------------------
(***************************************************************************)
(* What confirmPayment comes to.                                           *)
(***************************************************************************)

\* Charging a transaction, or warning of it, changes nothing else of it.
LEMMA ChargedTx ==
    ASSUME IInv, NEW f \in Flow, flow[f].step = "confirming",
           shop' = shop,
           tx' = [tx EXCEPT ![flow[f].tx].charged = TRUE]
    PROVE  /\ tx' \in Seq(TxType) /\ Len(tx') = Len(tx) /\ Len(tx') <= MaxTx
           /\ \A n \in DOMAIN tx : tx'[n].warned = tx[n].warned
<1>1. tx \in Seq(TxType) /\ Len(tx) <= MaxTx /\ flow[f].tx \in DOMAIN tx
  BY DEF IInv, TypeOK, TxType, FlowInv
<1> DEFINE t == tx[flow[f].tx]
           u == [t EXCEPT !.charged = TRUE]
<1>2. t \in TxType
  BY <1>1
<1>3. u \in TxType /\ u.warned = t.warned
  BY <1>2 DEF TxType
<1>4. tx' = [tx EXCEPT ![flow[f].tx] = u]
  OBVIOUS
<1> HIDE DEF u
<1> QED
  BY <1>1, <1>3, <1>4

\* Warning the shopper keeps the transactions' type.
LEMMA WarnedTx ==
    ASSUME IInv, NEW f \in Flow, flow[f].step = "confirming",
           shop' = shop,
           tx' = [tx EXCEPT ![flow[f].tx].warned = TRUE]
    PROVE  tx' \in Seq(TxType) /\ Len(tx') <= MaxTx
<1>1. tx \in Seq(TxType) /\ Len(tx) <= MaxTx /\ flow[f].tx \in DOMAIN tx
  BY DEF IInv, TypeOK, TxType, FlowInv
<1> DEFINE t == tx[flow[f].tx]
           u == [t EXCEPT !.warned = TRUE]
<1>2. t \in TxType
  BY <1>1
<1>3. u \in TxType
  BY <1>2 DEF TxType
<1>4. tx' = [tx EXCEPT ![flow[f].tx] = u]
  OBVIOUS
<1> HIDE DEF u
<1> QED
  BY <1>1, <1>3, <1>4

LEMMA ConfirmAnswerLostStep ==
    ASSUME IInv, NEW f \in Flow, ConfirmAnswerLost(f)
    PROVE  IInv'
<1>1. /\ tx' \in Seq(TxType) /\ Len(tx') = Len(tx) /\ Len(tx') <= MaxTx
      /\ \A n \in DOMAIN tx : tx'[n].warned = tx[n].warned
  BY ChargedTx DEF ConfirmAnswerLost
<1>2. Len(tx) <= Len(tx')
  BY <1>1 DEF IInv, TypeOK
<1> QED
  BY <1>1, <1>2, GiveUpStep DEF ConfirmAnswerLost

LEMMA ConfirmSucceedsStep ==
    ASSUME IInv, NEW f \in Flow, ConfirmSucceeds(f)
    PROVE  IInv'
<1>1. /\ tx' \in Seq(TxType) /\ Len(tx') = Len(tx) /\ Len(tx') <= MaxTx
  BY ChargedTx DEF ConfirmSucceeds
<1>2. page' \in [open : BOOLEAN, amount : shop.amounts, sdk : BOOLEAN]
  BY DEF ConfirmSucceeds, IInv, TypeOK
<1>3. flow' = [g \in Flow |-> IdleFlow]
  BY DEF ConfirmSucceeds
<1>4. flow' \in [Flow -> FlowType]
  BY <1>3, IdleFlowType
<1>5. TypeOK'
  BY <1>1, <1>2, <1>4 DEF ConfirmSucceeds, IInv, TypeOK, FlowType, TxType
<1>6. SelectedInv' /\ EntryInv' /\ OneLiveElement'
  BY DEF ConfirmSucceeds, IInv, SelectedInv, EntryInv, OneLiveElement
<1>7. \A g \in Flow : FlowInv(g)'
  BY <1>3, IdleFlowType DEF FlowInv
<1> QED
  BY <1>5, <1>6, <1>7 DEF IInv

\* A page that is rendered is blank.
LEMMA BlankStep ==
    ASSUME IInv, BlankForm(cart), UNCHANGED <<shop, cart>>,
           tx' \in Seq(TxType), Len(tx') <= MaxTx
    PROVE  IInv'
<1>1. flow' = [g \in Flow |-> IdleFlow] /\ element' = <<>> /\ active' = None
  BY DEF BlankForm
<1>2. flow' \in [Flow -> FlowType]
  BY <1>1, IdleFlowType
<1>3. page' \in [open : BOOLEAN, amount : shop.amounts, sdk : BOOLEAN]
  BY DEF BlankForm, IInv, TypeOK
<1>4. TypeOK'
  <2>1. /\ selected' = None /\ active' = None /\ button' \in BOOLEAN
        /\ entry' = [o \in Option |-> 0]
    BY DEF BlankForm
  <2>2. Len(element') = 0 /\ element' \in Seq(ElementType) /\ 0 <= MaxElement
    BY <1>1, PaymentFormAssumption
  <2>3. entry' \in [Option -> 0 .. Len(element')]
    BY <2>1, <2>2
  <2>4. shop' \in Shop /\ cart' \in shop'.amounts
    BY DEF IInv, TypeOK
  <2> QED
    BY <1>2, <1>3, <2>1, <2>2, <2>3, <2>4 DEF TypeOK, FlowType, TxType, ElementType
<1>5. SelectedInv' /\ EntryInv' /\ OneLiveElement'
  BY <1>1 DEF BlankForm, SelectedInv, EntryInv, OneLiveElement
<1>6. \A g \in Flow : FlowInv(g)'
  BY <1>1, IdleFlowType DEF FlowInv
<1> QED
  BY <1>4, <1>5, <1>6 DEF IInv

LEMMA AmountChangedStep ==
    ASSUME IInv, NEW f \in Flow, AmountChanged(f)
    PROVE  IInv'
  BY WarnedTx, BlankStep DEF AmountChanged

LEMMA LoadPageStep ==
    ASSUME IInv, LoadPage
    PROVE  IInv'
<1>1. tx \in Seq(TxType) /\ Len(tx) <= MaxTx
  BY DEF IInv, TypeOK, TxType
<1> QED
  BY <1>1, BlankStep DEF LoadPage

LEMMA CartChangesStep ==
    ASSUME IInv, CartChanges
    PROVE  IInv'
<1>1. TypeOK'
  BY DEF CartChanges, form, IInv, TypeOK
<1> QED
  BY <1>1 DEF CartChanges, form, IInv, SelectedInv, EntryInv, OneLiveElement, FlowInv

-----------------------------------------------------------------------------
(***************************************************************************)
(* Selecting an option.                                                    *)
(***************************************************************************)

\* Tearing down leaves nothing on the page, and no entry.
LEMMA TornDownPage ==
    ASSUME IInv
    PROVE  /\ TornDown \in Seq(ElementType) /\ Len(TornDown) = Len(element)
           /\ DOMAIN TornDown = DOMAIN element
           /\ \A e \in DOMAIN element : TornDown[e].status = "destroyed"
           /\ WithoutActive = [o \in Option |-> 0]
<1>1. element \in Seq(ElementType)
  BY DEF IInv, TypeOK, ElementType
<1>2. ASSUME NEW e \in DOMAIN element
      PROVE  TornDown[e] \in ElementType /\ TornDown[e].status = "destroyed"
  <2>1. element[e] \in ElementType
    BY <1>1
  <2>2. CASE active # None /\ entry[active] = e
    <3>1. TornDown[e] = [element[e] EXCEPT !.status = "destroyed"]
      BY <2>2 DEF TornDown
    <3> QED
      BY <2>1, <3>1 DEF ElementType, Status
  <2>3. CASE ~(active # None /\ entry[active] = e)
    <3>1. TornDown[e] = element[e]
      BY <2>3 DEF TornDown
    <3>2. element[e].option \in Option /\ e # 0
      BY <1>1, <2>1 DEF ElementType
    <3>3. element[e].status = "destroyed"
      BY <2>3, <3>2, PaymentFormAssumption DEF IInv, OneLiveElement, EntryInv
    <3> QED
      BY <2>1, <3>1, <3>3
  <2> QED
    BY <2>2, <2>3
<1>3. DOMAIN TornDown = 1 .. Len(element) /\ Len(element) \in Nat
      /\ DOMAIN element = 1 .. Len(element)
  BY <1>1 DEF TornDown
<1>4. TornDown = [e \in 1 .. Len(element) |-> TornDown[e]]
  BY <1>3 DEF TornDown
<1>5. TornDown \in Seq(ElementType) /\ Len(TornDown) = Len(element)
  BY <1>2, <1>3, <1>4
<1>6. WithoutActive = [o \in Option |-> 0]
  BY DEF WithoutActive, IInv, EntryInv
<1> QED
  BY <1>2, <1>3, <1>5, <1>6

\* The page changes its elements, and the flows keep theirs.
LEMMA PageStep ==
    ASSUME IInv,
           UNCHANGED <<shop, cart, page, flow, tx>>,
           selected' \in Option \cup {Other},
           active' \in Option \cup {None},
           button' \in BOOLEAN,
           element' \in Seq(ElementType), Len(element') <= MaxElement,
           Len(element) <= Len(element'),
           entry' \in [Option -> 0 .. Len(element')],
           SelectedInv', EntryInv', OneLiveElement'
    PROVE  IInv'
<1>1. TypeOK'
  BY DEF IInv, TypeOK, ElementType
<1>2. DOMAIN element \subseteq DOMAIN element'
  BY DEF IInv, TypeOK, ElementType
<1>3. \A f \in Flow : FlowInv(f)'
  BY <1>2 DEF IInv, FlowInv
<1> QED
  BY <1>1, <1>3 DEF IInv

LEMMA PrepareOtherStep ==
    ASSUME IInv, PrepareOther
    PROVE  IInv'
<1>1. /\ element' = TornDown /\ entry' = [o \in Option |-> 0]
      /\ selected' = Other /\ active' = None /\ button' \in BOOLEAN
      /\ UNCHANGED <<shop, cart, page, flow, tx>>
  BY TornDownPage DEF PrepareOther
<1>2. /\ element' \in Seq(ElementType) /\ Len(element') = Len(element)
      /\ \A e \in DOMAIN element' : element'[e].status = "destroyed"
  BY <1>1, TornDownPage
<1>3. Len(element) \in Nat /\ Len(element) <= MaxElement
  BY DEF IInv, TypeOK
<1>4. entry' \in [Option -> 0 .. Len(element')]
  BY <1>1, <1>2, <1>3
<1>5. SelectedInv' /\ EntryInv' /\ OneLiveElement'
  BY <1>1, <1>2 DEF SelectedInv, EntryInv, OneLiveElement
<1>6. Len(element') <= MaxElement /\ Len(element) <= Len(element')
  BY <1>2, <1>3
<1> QED
  BY <1>1, <1>2, <1>4, <1>5, <1>6, PageStep

LEMMA PrepareOptionStep ==
    ASSUME IInv, NEW o \in Option, PrepareOption(o)
    PROVE  IInv'
<1> DEFINE kept == IF active # o THEN WithoutActive ELSE entry
           left == IF active # o THEN TornDown ELSE element
           new == [option |-> o, status |-> "live"]
           mounts == kept[o] = 0 /\ page.sdk
<1>1. /\ element' = IF mounts THEN Append(left, new) ELSE left
      /\ entry' = IF mounts THEN [kept EXCEPT ![o] = Len(element')] ELSE kept
      /\ mounts => Len(element) < MaxElement
      /\ selected' = o /\ active' = o /\ button' \in BOOLEAN
      /\ UNCHANGED <<shop, cart, page, flow, tx>>
  BY DEF PrepareOption
<1>2. /\ element \in Seq(ElementType) /\ Len(element) \in Nat /\ Len(element) <= MaxElement
      /\ entry \in [Option -> 0 .. Len(element)]
  BY DEF IInv, TypeOK, ElementType
\* What is kept is of this option.
<1>3. /\ left \in Seq(ElementType) /\ Len(left) = Len(element)
      /\ kept \in [Option -> 0 .. Len(left)]
      /\ \A p \in Option : kept[p] # 0 =>
            p = o /\ kept[p] \in DOMAIN left /\ left[kept[p]].option = p
            /\ left[kept[p]].status # "destroyed"
      /\ \A e \in DOMAIN left : left[e].status # "destroyed" =>
            left[e].option = o /\ kept[o] = e
  <2>1. CASE active # o
    BY <1>2, <2>1, TornDownPage
  <2>2. CASE active = o
    <3>1. selected = o
      BY <2>2, PaymentFormAssumption DEF IInv, SelectedInv
    <3> QED
      BY <1>2, <2>2, <3>1 DEF IInv, EntryInv, OneLiveElement
  <2> QED
    BY <2>1, <2>2
<1>4. new \in ElementType
  BY DEF ElementType, Status
<1> HIDE DEF kept, left
<1>5. CASE mounts
  <2>1. \A e \in DOMAIN left : left[e].status = "destroyed"
    <3>1. \A e \in DOMAIN left : e # 0
      BY <1>3
    <3> QED
      BY <1>3, <1>5, <3>1
  <2> HIDE DEF new
  <2>2. /\ element' = Append(left, new) /\ element' \in Seq(ElementType)
        /\ Len(element') = Len(element) + 1 /\ Len(element') <= MaxElement
        /\ Len(element') \in DOMAIN element' /\ element'[Len(element')] = new
        /\ \A e \in DOMAIN element' : e # Len(element') => e \in DOMAIN left /\ element'[e] = left[e]
    BY <1>1, <1>2, <1>3, <1>4, <1>5, PaymentFormAssumption
  <2>3. entry' \in [Option -> 0 .. Len(element')] /\ entry'[o] = Len(element')
    BY <1>1, <1>2, <1>3, <1>5, <2>2
  <2>4. \A p \in Option \ {o} : entry'[p] = 0
    BY <1>1, <1>3, <1>5
  <2>5. new.option = o /\ new.status = "live"
    BY DEF new
  <2>6. SelectedInv' /\ EntryInv'
    BY <1>1, <2>2, <2>3, <2>4, <2>5 DEF SelectedInv, EntryInv
  <2>7. OneLiveElement'
    BY <1>1, <2>1, <2>2, <2>3, <2>5 DEF OneLiveElement
  <2>8. Len(element) <= Len(element')
    BY <1>2, <2>2
  <2> QED
    BY <1>1, <2>2, <2>3, <2>6, <2>7, <2>8, PageStep
<1>6. CASE ~mounts
  <2>1. element' = left /\ entry' = kept
    BY <1>1, <1>6
  <2>2. SelectedInv' /\ EntryInv' /\ OneLiveElement'
    BY <1>1, <1>3, <2>1 DEF SelectedInv, EntryInv, OneLiveElement
  <2>3. element' \in Seq(ElementType) /\ Len(element') <= MaxElement
        /\ Len(element) <= Len(element') /\ entry' \in [Option -> 0 .. Len(element')]
    BY <1>2, <1>3, <2>1
  <2> QED
    BY <1>1, <2>2, <2>3, PageStep
<1> QED
  BY <1>5, <1>6

LEMMA LoadErrorStep ==
    ASSUME IInv, NEW e \in DOMAIN element, LoadError(e)
    PROVE  IInv'
<1> DEFINE b == [element[e] EXCEPT !.status = "broken"]
<1>1. element \in Seq(ElementType) /\ Len(element) <= MaxElement /\ Len(element) \in Nat
      /\ entry \in [Option -> 0 .. Len(element)]
  BY DEF IInv, TypeOK, ElementType
<1>2. b \in ElementType /\ b.option = element[e].option /\ b.status = "broken"
  <2>1. element[e] \in ElementType
    BY <1>1
  <2> QED
    BY <2>1 DEF ElementType, Status
<1>3. element' = [element EXCEPT ![e] = b] /\ element[e].status = "live"
      /\ button' \in BOOLEAN
      /\ UNCHANGED <<shop, cart, page, selected, active, entry, flow, tx>>
  BY DEF LoadError
<1> HIDE DEF b
<1>4. /\ element' \in Seq(ElementType) /\ Len(element') = Len(element)
      /\ DOMAIN element' = DOMAIN element
      /\ \A d \in DOMAIN element : d # e => element'[d] = element[d]
      /\ element'[e] = b
  BY <1>1, <1>2, <1>3
<1>5. SelectedInv'
  BY <1>3 DEF IInv, SelectedInv
<1>6. EntryInv'
  BY <1>2, <1>3, <1>4 DEF IInv, EntryInv
<1>7. OneLiveElement'
  BY <1>2, <1>3, <1>4 DEF IInv, OneLiveElement
<1>8. TypeOK'
  BY <1>1, <1>3, <1>4 DEF IInv, TypeOK, ElementType
<1>9. \A f \in Flow : FlowInv(f)'
  BY <1>3, <1>4 DEF IInv, FlowInv
<1> QED
  BY <1>5, <1>6, <1>7, <1>8, <1>9 DEF IInv

-----------------------------------------------------------------------------
(***************************************************************************)
(* The theorems.                                                           *)
(***************************************************************************)
LEMMA InitIInv == Init => IInv
<1> SUFFICES ASSUME Init PROVE IInv
  OBVIOUS
<1>1. flow = [f \in Flow |-> IdleFlow] /\ element = <<>> /\ tx = <<>> /\ active = None
  BY DEF Init
<1>2. flow \in [Flow -> FlowType]
  BY <1>1, IdleFlowType
<1>3. /\ Len(element) = 0 /\ element \in Seq(ElementType) /\ 0 <= MaxElement
      /\ Len(tx) = 0 /\ tx \in Seq(TxType) /\ 0 <= MaxTx
  BY <1>1, PaymentFormAssumption
<1>4. entry \in [Option -> 0 .. Len(element)]
  BY <1>3 DEF Init
<1>5. page \in [open : BOOLEAN, amount : shop.amounts, sdk : BOOLEAN]
  BY DEF Init
<1>6. TypeOK
  <2>1. /\ selected \in Option \cup {Other, None} /\ active \in Option \cup {None}
        /\ button \in BOOLEAN /\ shop \in Shop /\ cart \in shop.amounts
    BY DEF Init
  <2>2. Len(element) <= MaxElement /\ Len(tx) <= MaxTx
    BY <1>3
  <2> QED
    BY <1>2, <1>3, <1>4, <1>5, <2>1, <2>2 DEF TypeOK, FlowType, TxType, ElementType
<1>7. SelectedInv /\ EntryInv /\ OneLiveElement
  BY <1>1 DEF Init, SelectedInv, EntryInv, OneLiveElement
<1>8. \A f \in Flow : FlowInv(f)
  BY <1>1, IdleFlowType DEF FlowInv
<1> QED
  BY <1>6, <1>7, <1>8 DEF IInv

LEMMA NextIInv == IInv /\ [Next]_vars => IInv'
<1> SUFFICES ASSUME IInv, [Next]_vars PROVE IInv'
  OBVIOUS
<1>1. CASE CartChanges
  BY <1>1, CartChangesStep
<1>2. CASE LoadPage
  BY <1>2, LoadPageStep
<1>3. CASE PrepareOther
  BY <1>3, PrepareOtherStep
<1>4. ASSUME NEW o \in Option, PrepareOption(o) PROVE IInv'
  BY <1>4, PrepareOptionStep
<1>5. ASSUME NEW e \in DOMAIN element, LoadError(e) PROVE IInv'
  BY <1>5, LoadErrorStep
<1>6. ASSUME NEW f \in Flow, Pay(f) \/ PayWithoutForm(f) \/ Settle(f) PROVE IInv'
  BY <1>6, PayStep, UnpaidStep, SubmitSucceedsStep, ConfirmStep, ConfirmWithoutFormStep,
     ConfirmSucceedsStep, ConfirmAnswerLostStep, AmountChangedStep DEF Settle
<1>7. CASE UNCHANGED vars
  BY <1>7 DEF vars, IInv, TypeOK, SelectedInv, EntryInv, OneLiveElement, FlowInv
<1> QED
  BY <1>1, <1>2, <1>3, <1>4, <1>5, <1>6, <1>7 DEF Next

\* Every reachable state of the form satisfies its inductive invariant,
\* whatever the shopper selects while promises are pending (payment_form.js).
THEOREM PaymentFormInvariance == Spec => []IInv
  BY InitIInv, NextIInv, PTL DEF Spec

\* Every variable of the form keeps its type.
THEOREM PaymentFormTypeCorrect == Spec => []TypeOK
<1>1. IInv => TypeOK
  BY DEF IInv
<1> QED
  BY <1>1, PaymentFormInvariance, PTL

\* Only the selected option has an element on the page, and it is the one the
\* form keeps (_prepareInlineForm, _xpayTeardownActive).
THEOREM OneLiveElement_Always == Spec => []OneLiveElement
<1>1. IInv => OneLiveElement
  BY DEF IInv
<1> QED
  BY <1>1, PaymentFormInvariance, PTL

\* A session is only confirmed with an element that is on the page and of the
\* option its transaction was created for (_processDirectFlow looks the element
\* up again after the promises it waited for).
THEOREM ConfirmsItsElement_Always == Spec => ConfirmsItsElement
<1> DEFINE Own(f) == LET e == element[flow'[f].element]
                     IN  /\ e.status # "destroyed"
                         /\ e.option = tx'[flow'[f].tx].option
           Owns == \A f \in Flow :
                      flow[f].step # "confirming" /\ flow'[f].step = "confirming" => Own(f)
<1>1. IInv /\ [Next]_vars => [Owns]_vars
  <2> SUFFICES ASSUME IInv, Next, NEW f \in Flow,
                      flow[f].step # "confirming", flow'[f].step = "confirming"
               PROVE  Own(f)
    OBVIOUS
  <2>1. flow \in [Flow -> FlowType]
    BY DEF IInv, TypeOK, FlowType
  <2>2. Confirm(f)
    <3>1. ~BlankForm(cart) /\ flow' # flow /\ flow' # [g \in Flow |-> IdleFlow]
      BY IdleFlowType DEF BlankForm
    <3>2. ASSUME NEW g \in Flow PROVE ~GiveUp(g)
      BY <2>1, IdleFlowType DEF GiveUp
    <3>3. ASSUME NEW g \in Flow PROVE ~Pay(g) /\ ~SubmitSucceeds(g)
      BY <2>1 DEF Pay, SubmitSucceeds, FlowType
    <3>4. ASSUME NEW g \in Flow, Confirm(g) PROVE g = f
      BY <2>1, <3>4 DEF Confirm
    <3>5. PICK g \in Flow : Settle(g)
      BY <3>1, <3>2, <3>3 DEF Next, CartChanges, form, LoadPage, PrepareOther, PrepareOption,
        LoadError, PayWithoutForm
    <3> QED
      BY <3>1, <3>2, <3>3, <3>4, <3>5 DEF Settle, SubmitFails, CreateFails, ConfirmWithoutForm,
        ConfirmFails, ConfirmSucceeds, ConfirmAnswerLost, AmountChanged
  <2>3. flow[f].option \in Option
    BY <2>2 DEF IInv, FlowInv, Confirm, Created
  <2>4. /\ element[ElementFor(f)].option = flow[f].option
        /\ element[ElementFor(f)].status # "destroyed"
    BY <2>2, <2>3 DEF Confirm, ElementFor, IInv, EntryInv
  <2>5. tx'[Len(tx')].option = flow[f].option
    BY <2>2, CreatedTx DEF Confirm
  <2>6. flow'[f].element = ElementFor(f) /\ flow'[f].tx = Len(tx')
    BY <2>1, <2>2 DEF Confirm, FlowType
  <2> QED
    BY <2>4, <2>5, <2>6
<1> QED
  BY <1>1, PaymentFormInvariance, PTL DEF ConfirmsItsElement, Spec

\* Nobody is charged another total than the one the form on the page was made
\* for: a shopper who is warned of another amount gets a new page
\* (_processDirectFlow), and no flow of the old one confirms again.
THEOREM ChargesShownTotal_Always == Spec => ChargesShownTotal
<1> DEFINE Shown == \A n \in DOMAIN tx :
                       ~tx[n].charged /\ tx'[n].charged =>
                           MinorOf(tx[n].amount) = MinorOf(page.amount)
<1>1. IInv /\ [Next]_vars => [Shown]_vars
  <2> SUFFICES ASSUME IInv, Next, NEW n \in DOMAIN tx, ~tx[n].charged, tx'[n].charged
               PROVE  MinorOf(tx[n].amount) = MinorOf(page.amount)
    OBVIOUS
  <2>1. tx \in Seq(TxType)
    BY DEF IInv, TypeOK, TxType
  <2>2. tx' # tx
    OBVIOUS
  <2>3. ASSUME NEW f \in Flow PROVE ~Created(f) \/ shop' # shop
    BY CreatedTx
  <2>4. ASSUME NEW f \in Flow PROVE ~AmountChanged(f)
    <3> SUFFICES ASSUME AmountChanged(f) PROVE FALSE
      OBVIOUS
    <3> DEFINE t == flow[f].tx
    <3>1. t \in DOMAIN tx /\ tx' = [tx EXCEPT ![t].warned = TRUE]
      BY DEF AmountChanged, IInv, FlowInv
    <3>2. tx[n] \in TxType
      BY <2>1
    <3>3. tx'[n] = IF n = t THEN [tx[n] EXCEPT !.warned = TRUE] ELSE tx[n]
      BY <2>1, <3>1
    <3>4. tx'[n].charged = tx[n].charged
      BY <3>2, <3>3 DEF TxType
    <3> QED
      BY <3>4
  <2>5. PICK f \in Flow : ConfirmSucceeds(f) \/ ConfirmAnswerLost(f)
    BY <2>2, <2>3, <2>4 DEF Next, CartChanges, form, LoadPage, PrepareOther, PrepareOption,
      LoadError, Pay, PayWithoutForm, Settle, SubmitFails, SubmitSucceeds, CreateFails,
      Confirm, ConfirmWithoutForm, ConfirmFails
  <2>6. /\ flow[f].step = "confirming" /\ ~NeedsReconfirmation(f)
        /\ tx' = [tx EXCEPT ![flow[f].tx].charged = TRUE]
    BY <2>5 DEF ConfirmSucceeds, ConfirmAnswerLost
  <2>7. n = flow[f].tx
    BY <2>1, <2>6
  <2>8. ~tx[n].warned
    BY <2>6, <2>7 DEF IInv, FlowInv
  <2> QED
    BY <2>6, <2>7, <2>8 DEF NeedsReconfirmation
<1> QED
  BY <1>1, PaymentFormInvariance, PTL DEF ChargesShownTotal, Spec

-----------------------------------------------------------------------------
(***************************************************************************)
(* Money.                                                                  *)
(***************************************************************************)
\* The units of the decimals in use.
LEMMA Units == \A d \in 0 .. Fine : Unit(d) \in {1, 10, 100, 1000}
<1>1. Unit(0) = 1000 /\ Unit(1) = 100 /\ Unit(2) = 10 /\ Unit(3) = 1
  BY DEF Unit, Fine
<1> QED
  BY <1>1 DEF Fine

\* Rounding to a unit, and again, is rounding once.
LEMMA RoundedTwice ==
    ASSUME NEW a \in Nat, NEW d \in {1, 10, 100, 1000}
    PROVE  HalfUp(a, d) \in Nat /\ HalfUp(HalfUp(a, d) * d, d) = HalfUp(a, d)
  BY SMTT(30) DEF HalfUp

\* An amount Odoo keeps at its own decimals is recognised in what the platform
\* reports, whatever the decimals of the platform (create_session and
\* _extract_amount_data round alike).
THEOREM ChargeIsRecognised_Always ==
    ASSUME \A s \in Shop : \A a \in s.amounts : OdooRound(a, s.odoo) = a
    PROVE  Spec => []ChargeIsRecognised
<1>1. TypeOK => ChargeIsRecognised
  <2> SUFFICES ASSUME TypeOK, NEW n \in DOMAIN tx PROVE Recognised(n)
    BY DEF ChargeIsRecognised
  <2> DEFINE a == tx[n].amount
             u == Unit(shop.xpay)
  <2>1. shop \in Shop /\ shop \in ShopType
    BY PaymentFormAssumption DEF TypeOK
  <2>2. a \in shop.amounts /\ a \in Nat
    <3>1. tx \in Seq(TxType)
      BY DEF TypeOK, TxType
    <3>2. tx[n] \in TxType
      BY <3>1
    <3>3. shop.amounts \subseteq Nat
      BY <2>1 DEF ShopType
    <3> QED
      BY <3>2, <3>3 DEF TxType
  <2>3. u \in {1, 10, 100, 1000}
    BY <2>1, Units DEF ShopType
  <2>4. MinorOf(a) = HalfUp(a, u)
    BY <2>1, <2>2 DEF MinorOf, ToMinor
  <2>5. SessionCharge(SessionOf(n)) = HalfUp(a, u)
    <3>1. HalfUp(a, u) + 0 = HalfUp(a, u)
      BY <2>2, <2>3, RoundedTwice
    <3>2. CASE shop.presentment
      BY <2>4, <3>2 DEF SessionCharge, SessionOf
    <3>3. CASE ~shop.presentment
      BY <2>4, <3>1, <3>3 DEF SessionCharge, SessionOf
    <3> QED
      BY <3>2, <3>3
  <2>6. HalfUp(HalfUp(a, u) * u, u) = HalfUp(a, u)
    BY <2>2, <2>3, RoundedTwice
  <2> QED
    BY <2>5, <2>6 DEF Recognised, SameAmount, FromMinor
<1> QED
  BY <1>1, PaymentFormTypeCorrect, PTL

-----------------------------------------------------------------------------
(***************************************************************************)
(* The text of the keys.  ToString is TLC's: the provers know nothing of   *)
(* it, so what the sessions' keys need of it is the hypothesis KeyTexts.   *)
(***************************************************************************)

\* The provers do not know that a literal is a string.
Symbol == STRING \cup {"odoo_", "odoo_ref_", "_", "_s", "r", "_n", "_x", "-"}
Text == Seq(Symbol)

\* What the alphabet of a key lacks becomes a dash, so the rest of a reference
\* stays what it was.
Token(x) == IF x \in Unsafe THEN "-" ELSE x

\* Numbers have texts of their own, which the key's alphabet has; digests do not
\* collide, and look like no part of a reference; a key has room for its prefix,
\* its suffix and a digest.
KeyTexts ==
    /\ Budget \in Nat /\ Budget >= 9
    /\ \A i \in Nat : ToString(i) \in Symbol \ Unsafe
    /\ \A i, j \in Nat : ToString(i) = ToString(j) => i = j
    /\ ToString(1) # "r"
    /\ \A a \in Text : Digest(a) \in Symbol
    /\ \A a, b \in Text : Digest(a) = Digest(b) => a = b
    /\ \A a \in Text : Digest(a) # "-" /\ \A i \in Nat : Digest(a) # ToString(i)
    /\ \A s \in Shop, a \in Text : \A i \in DOMAIN s.reference : s.reference[i] # Digest(a)

\* What _keyed makes of a reference that has some room.
Kept(reference, room) ==
    IF Len(reference) <= room THEN reference
    ELSE Cut(reference, room - 2) \o <<"_", Digest(reference)>>

\* Cutting keeps the beginning.
LEMMA CutFacts ==
    ASSUME NEW t \in Text, NEW n \in Nat
    PROVE  /\ Cut(t, n) \in Text
           /\ Len(Cut(t, n)) = IF Len(t) < n THEN Len(t) ELSE n
           /\ \A i \in 1 .. Len(Cut(t, n)) : Cut(t, n)[i] = t[i]
<1> DEFINE k == IF Len(t) < n THEN Len(t) ELSE n
<1>1. k \in Nat /\ k <= Len(t) /\ Len(t) \in Nat
  BY LenProperties DEF Text
<1>2. \A i \in 1 .. k : t[i] \in Symbol
  BY <1>1, ElementOfSeq DEF Text
<1>3. Cut(t, n) = SubSeq(t, 1, k)
  BY DEF Cut
<1> HIDE DEF k
<1> QED
  <2>1. /\ SubSeq(t, 1, k) \in Text
        /\ Len(SubSeq(t, 1, k)) = IF 1 <= k THEN k - 1 + 1 ELSE 0
        /\ \A i \in 1 .. k - 1 + 1 : SubSeq(t, 1, k)[i] = t[1 + i - 1]
    BY <1>1, <1>2, SubSeqProperties DEF Text
  <2> QED
    BY <2>1, <1>1, <1>3 DEF k

\* Texts of two tokens and of one, and what joining texts does.
LEMMA PairOf ==
    ASSUME NEW S, NEW a \in S, NEW b \in S
    PROVE  <<a, b>> \in Seq(S) /\ Len(<<a, b>>) = 2 /\ <<a, b>>[1] = a /\ <<a, b>>[2] = b
  OBVIOUS

LEMMA PairFacts ==
    ASSUME NEW a \in Symbol, NEW b \in Symbol
    PROVE  <<a, b>> \in Text /\ Len(<<a, b>>) = 2 /\ <<a, b>>[1] = a /\ <<a, b>>[2] = b
  BY PairOf, Zenon DEF Text

LEMMA JoinFacts ==
    ASSUME NEW s \in Text, NEW t \in Text
    PROVE  /\ s \o t \in Text
           /\ Len(s \o t) = Len(s) + Len(t)
           /\ Len(s) \in Nat /\ Len(t) \in Nat
           /\ \A i \in 1 .. Len(s) : (s \o t)[i] = s[i]
           /\ \A i \in 1 .. Len(t) : (s \o t)[Len(s) + i] = t[i]
<1>1. Len(s) \in Nat /\ Len(t) \in Nat
  BY DEF Text
<1>2. /\ s \o t \in Text
      /\ Len(s \o t) = Len(s) + Len(t)
      /\ \A i \in 1 .. Len(s) + Len(t) :
            (s \o t)[i] = IF i <= Len(s) THEN s[i] ELSE t[i - Len(s)]
  BY ConcatProperties DEF Text
<1> QED
  BY <1>1, <1>2

\* Two texts between the same prefix and the same suffix are as equal as the whole.
LEMMA Between ==
    ASSUME NEW p \in Text, NEW s \in Text, NEW t \in Text, NEW u \in Text,
           p \o s \o u = p \o t \o u
    PROVE  s = t
<1>1. p \o s \in Text /\ p \o t \in Text
  BY JoinFacts
<1>2. p \o s = p \o t
  BY <1>1, ConcatSimplifications, Zenon DEF Text
<1> QED
  BY <1>2, ConcatSimplifications, Zenon DEF Text

LEMMA OneFacts ==
    ASSUME NEW a \in Symbol
    PROVE  <<a>> \in Text /\ Len(<<a>>) = 1 /\ <<a>>[1] = a
<1>1. \A S, x : x \in S => <<x>> \in Seq(S) /\ Len(<<x>>) = 1 /\ <<x>>[1] = x
  OBVIOUS
<1> QED
  BY <1>1, Zenon DEF Text

\* A text that did not fit keeps its digest at the end.
LEMMA KeptFacts ==
    ASSUME KeyTexts, NEW t \in Text, NEW room \in Nat, room >= 2
    PROVE  /\ Kept(t, room) \in Text
           /\ Len(Kept(t, room)) <= room
           /\ Len(t) > room => /\ Len(Kept(t, room)) = room
                               /\ Kept(t, room)[room] = Digest(t)
<1> DEFINE head == Cut(t, room - 2)
           tail == <<"_", Digest(t)>>
<1>1. Digest(t) \in Symbol /\ "_" \in Symbol
  <2>1. Digest(t) \in Symbol
    BY Zenon DEF KeyTexts
  <2>2. "_" \in Symbol
    BY DEF Symbol
  <2> QED
    BY <2>1, <2>2
<1>2. tail \in Text /\ Len(tail) = 2 /\ tail[2] = Digest(t)
  BY <1>1, PairFacts, Zenon
<1>3. room - 2 \in Nat /\ Len(t) \in Nat
  BY JoinFacts
<1>4. head \in Text /\ Len(head) = IF Len(t) < room - 2 THEN Len(t) ELSE room - 2
  BY <1>3, CutFacts
<1>5. CASE Len(t) <= room
  BY <1>3, <1>5 DEF Kept
<1>6. CASE ~(Len(t) <= room)
  <2>1. Kept(t, room) = head \o tail
    BY <1>6 DEF Kept
  <2> HIDE DEF head, tail
  <2>2. Len(head) = room - 2
    BY <1>3, <1>4, <1>6
  <2>3. head \o tail \in Text /\ Len(head \o tail) = Len(head) + Len(tail)
    BY <1>2, <1>4, JoinFacts
  <2>4. \A i \in 1 .. Len(tail) : (head \o tail)[Len(head) + i] = tail[i]
    BY <1>2, <1>4, JoinFacts
  <2>5. (head \o tail)[Len(head) + 2] = tail[2]
    BY <2>4, <1>2
  <2> QED
    BY <1>2, <2>1, <2>2, <2>3, <2>5
<1> QED
  BY <1>5, <1>6

\* The last token is no digest.
Plain(t) == Len(t) > 0 => \A a \in Text : t[Len(t)] # Digest(a)

\* References that differ stay apart in the same room.
LEMMA KeptApart ==
    ASSUME KeyTexts, NEW room \in Nat, room >= 2,
           NEW t \in Text, NEW u \in Text, Plain(t), Plain(u), t # u
    PROVE  Kept(t, room) # Kept(u, room)
<1>1. Len(t) \in Nat /\ Len(u) \in Nat
  BY JoinFacts
<1>2. ASSUME NEW x \in Text, NEW y \in Text, Plain(x), Len(x) <= room, Len(y) > room
      PROVE  Kept(x, room) # Kept(y, room)
  <2>1. Kept(x, room) = x
    BY <1>2 DEF Kept
  <2>2. Len(Kept(y, room)) = room /\ Kept(y, room)[room] = Digest(y)
    BY <1>2, KeptFacts
  <2> QED
    BY <1>2, <2>1, <2>2 DEF Plain
<1>3. CASE Len(t) <= room /\ Len(u) <= room
  BY <1>3 DEF Kept
<1>4. CASE Len(t) > room /\ Len(u) > room
  <2>1. Kept(t, room)[room] = Digest(t) /\ Kept(u, room)[room] = Digest(u)
    BY <1>4, KeptFacts
  <2>2. Digest(t) # Digest(u)
    BY DEF KeyTexts
  <2> QED
    BY <2>1, <2>2
<1>5. CASE Len(t) <= room /\ Len(u) > room
  BY <1>2, <1>5
<1>6. CASE Len(t) > room /\ Len(u) <= room
  BY <1>2, <1>6
<1> QED
  BY <1>1, <1>3, <1>4, <1>5, <1>6

\* What _keyed composes: the prefix, what is kept of the reference, the suffix.
LEMMA KeyedFacts ==
    ASSUME KeyTexts, NEW p \in Text, NEW t \in Text, NEW s \in Text,
           Budget - Len(p) - Len(s) >= 2
    PROVE  /\ Budget - Len(p) - Len(s) \in Nat
           /\ Keyed(p, t, s) = p \o Kept(t, Budget - Len(p) - Len(s)) \o s
           /\ Keyed(p, t, s) \in Text
           /\ Len(Keyed(p, t, s)) <= Budget
           /\ \A i \in 1 .. Len(p) : Keyed(p, t, s)[i] = p[i]
           /\ Len(s) > 0 => /\ Len(Keyed(p, t, s)) > 0
                            /\ Keyed(p, t, s)[Len(Keyed(p, t, s))] = s[Len(s)]
<1> DEFINE room == Budget - Len(p) - Len(s)
           kept == Kept(t, room)
           key == Keyed(p, t, s)
<1>1. room \in Nat /\ room >= 2 /\ Len(p) \in Nat /\ Len(s) \in Nat
  <2>1. Len(p) \in Nat /\ Len(s) \in Nat
    BY JoinFacts
  <2>2. Budget \in Nat
    BY Zenon DEF KeyTexts
  <2> QED
    BY <2>1, <2>2
<1>2. key = p \o kept \o s
  BY DEF Keyed, Kept
<1>3. kept \in Text /\ Len(kept) <= room /\ Len(kept) \in Nat
  BY <1>1, KeptFacts, JoinFacts
<1> HIDE DEF key, kept
<1>4. /\ p \o kept \in Text /\ Len(p \o kept) = Len(p) + Len(kept)
      /\ \A i \in 1 .. Len(p) : (p \o kept)[i] = p[i]
  BY <1>3, JoinFacts
<1> DEFINE q == p \o kept
<1>5. q \in Text /\ Len(q) = Len(p) + Len(kept) /\ \A i \in 1 .. Len(p) : q[i] = p[i]
  BY <1>4
<1>6. key = q \o s
  BY <1>2
<1> HIDE DEF q
<1>7. /\ q \o s \in Text /\ Len(q \o s) = Len(q) + Len(s)
      /\ \A i \in 1 .. Len(q) : (q \o s)[i] = q[i]
      /\ \A i \in 1 .. Len(s) : (q \o s)[Len(q) + i] = s[i]
  BY <1>5, JoinFacts
<1>8. key \in Text /\ Len(key) = Len(p) + Len(kept) + Len(s)
  BY <1>5, <1>6, <1>7
<1>9. Len(key) <= Budget
  BY <1>1, <1>3, <1>8 DEF KeyTexts
<1>10. \A i \in 1 .. Len(p) : key[i] = p[i]
  BY <1>1, <1>3, <1>5, <1>6, <1>7
<1>11. Len(s) > 0 => Len(key) > 0 /\ key[Len(key)] = s[Len(s)]
  BY <1>1, <1>3, <1>5, <1>6, <1>7, <1>8
<1> QED
  BY <1>1, <1>2, <1>8, <1>9, <1>10, <1>11 DEF key, kept

\* The alphabet changes tokens one by one.
LEMMA SanitizeFacts ==
    ASSUME NEW t \in Text
    PROVE  /\ Sanitize(t) \in Text
           /\ Len(Sanitize(t)) = Len(t)
           /\ \A i \in 1 .. Len(t) : Sanitize(t)[i] = Token(t[i])
<1>1. Len(t) \in Nat /\ DOMAIN t = 1 .. Len(t)
  BY LenProperties, Zenon DEF Text
<1>2. \A i \in 1 .. Len(t) : t[i] \in Symbol
  BY ElementOfSeq, Zenon DEF Text
<1>3. \A x \in Symbol : Token(x) \in Symbol
  <2>1. "-" \in Symbol
    BY DEF Symbol
  <2> QED
    BY <2>1 DEF Token
<1>4. Sanitize(t) = [i \in 1 .. Len(t) |-> Token(t[i])]
  BY <1>1 DEF Sanitize, Token
<1>5. Sanitize(t) \in [1 .. Len(t) -> Symbol]
  BY <1>2, <1>3, <1>4
<1>6. \A S, n, f : n \in Nat /\ f \in [1 .. n -> S] => f \in Seq(S) /\ Len(f) = n
  OBVIOUS
<1>7. Sanitize(t) \in Seq(Symbol) /\ Len(Sanitize(t)) = Len(t)
  BY <1>1, <1>5, <1>6, Zenon
<1> QED
  BY <1>4, <1>7, Zenon DEF Text

\* The reference of the nth transaction of an order of the shop s.
ReferenceIn(s, n) == IF n = 1 THEN s.reference ELSE s.reference \o <<"-", ToString(n - 1)>>

\* References of one order differ, by their length or by their number.
LEMMA ReferencesApart ==
    ASSUME KeyTexts, NEW s \in Shop, NEW n \in Nat \ {0}, NEW m \in Nat \ {0}, n # m
    PROVE  /\ Sanitize(ReferenceIn(s, n)) \in Text
           /\ Plain(Sanitize(ReferenceIn(s, n)))
           /\ Sanitize(ReferenceIn(s, n)) # Sanitize(ReferenceIn(s, m))
<1> DEFINE base == s.reference
           number(k) == ToString(k - 1)
           tail(k) == <<"-", number(k)>>
<1>1. base \in Text
  <2>1. s.reference \in Seq(STRING)
    BY PaymentFormAssumption, Zenon DEF ShopType
  <2>2. STRING \subseteq Symbol
    BY DEF Symbol
  <2> QED
    BY <2>1, <2>2, SeqMonotonic, Zenon DEF Text
<1>2. \A k \in Nat \ {0, 1} : /\ number(k) \in Symbol /\ Token(number(k)) = number(k)
                               /\ \A a \in Text : Digest(a) # number(k)
  <2> SUFFICES ASSUME NEW k \in Nat \ {0, 1}
               PROVE  /\ number(k) \in Symbol /\ Token(number(k)) = number(k)
                      /\ \A a \in Text : Digest(a) # number(k)
    OBVIOUS
  <2>1. k - 1 \in Nat
    OBVIOUS
  <2> QED
    BY <2>1, Zenon DEF KeyTexts, Token
<1>3. "-" \in Symbol
  BY DEF Symbol
<1>4. \A k \in Nat \ {0, 1} : tail(k) \in Text /\ Len(tail(k)) = 2 /\ tail(k)[2] = number(k)
  BY <1>2, <1>3, PairFacts, Zenon
<1>5. \A k \in Nat \ {0, 1} :
          /\ ReferenceIn(s, k) \in Text
          /\ Len(ReferenceIn(s, k)) = Len(base) + 2
          /\ ReferenceIn(s, k)[Len(base) + 2] = number(k)
  <2> SUFFICES ASSUME NEW k \in Nat \ {0, 1}
               PROVE  /\ ReferenceIn(s, k) \in Text
                      /\ Len(ReferenceIn(s, k)) = Len(base) + 2
                      /\ ReferenceIn(s, k)[Len(base) + 2] = number(k)
    OBVIOUS
  <2> DEFINE u == tail(k)
  <2>1. u \in Text /\ Len(u) = 2 /\ u[2] = number(k)
    BY <1>4
  <2>2. ReferenceIn(s, k) = base \o u
    BY DEF ReferenceIn
  <2> HIDE DEF u, base, number
  <2>3. base \o u \in Text /\ Len(base \o u) = Len(base) + Len(u) /\ Len(base) \in Nat
    BY <1>1, <2>1, JoinFacts
  <2>4. \A i \in 1 .. Len(u) : (base \o u)[Len(base) + i] = u[i]
    BY <1>1, <2>1, JoinFacts
  <2>5. (base \o u)[Len(base) + 2] = u[2]
    BY <2>1, <2>4
  <2> QED
    BY <2>1, <2>2, <2>3, <2>5
<1>6. ReferenceIn(s, 1) = base
  BY DEF ReferenceIn
<1> DEFINE r(k) == ReferenceIn(s, k)
           x(k) == Sanitize(r(k))
<1>7. \A k \in Nat \ {0} : r(k) \in Text /\ x(k) \in Text /\ Len(x(k)) = Len(r(k))
  BY <1>1, <1>5, <1>6, SanitizeFacts
<1>8. Len(x(1)) = Len(base) /\ Len(base) \in Nat
  BY <1>1, <1>6, SanitizeFacts, JoinFacts
<1>9. \A k \in Nat \ {0, 1} : Len(x(k)) = Len(base) + 2 /\ x(k)[Len(base) + 2] = number(k)
  <2> SUFFICES ASSUME NEW k \in Nat \ {0, 1}
               PROVE  Len(x(k)) = Len(base) + 2 /\ x(k)[Len(base) + 2] = number(k)
    OBVIOUS
  <2>1. Len(base) + 2 \in 1 .. Len(r(k)) /\ Len(r(k)) = Len(base) + 2
    BY <1>5, <1>8
  <2>2. x(k)[Len(base) + 2] = Token(r(k)[Len(base) + 2])
    BY <1>7, <2>1, SanitizeFacts
  <2> QED
    BY <1>2, <1>5, <1>7, <2>1, <2>2
<1>10. \A k \in Nat \ {0, 1} : Plain(x(k))
  BY <1>2, <1>9, Zenon DEF Plain
<1>11. Plain(x(1))
  <2> SUFFICES ASSUME Len(x(1)) > 0, NEW a \in Text
               PROVE  x(1)[Len(x(1))] # Digest(a)
    BY Zenon DEF Plain
  <2> DEFINE l == Len(base)
  <2>1. l \in 1 .. Len(base) /\ Len(x(1)) = l
    BY <1>8
  <2>2. x(1)[l] = Token(base[l])
    BY <1>1, <1>6, <2>1, SanitizeFacts
  <2>3. l \in DOMAIN s.reference
    BY <1>1, <2>1, LenProperties DEF Text
  <2>4. base[l] # Digest(a) /\ Digest(a) # "-"
    BY <2>3, Zenon DEF KeyTexts
  <2> QED
    BY <2>1, <2>2, <2>4 DEF Token
<1>12. \A k, j \in Nat \ {0, 1} : k # j => number(k) # number(j)
  <2> SUFFICES ASSUME NEW k \in Nat \ {0, 1}, NEW j \in Nat \ {0, 1}, k # j
               PROVE  number(k) # number(j)
    OBVIOUS
  <2>1. k - 1 \in Nat /\ j - 1 \in Nat /\ k - 1 # j - 1
    OBVIOUS
  <2> QED
    BY <2>1, Zenon DEF KeyTexts
<1>13. \A k \in Nat \ {0, 1} : x(k) # x(1)
  <2> SUFFICES ASSUME NEW k \in Nat \ {0, 1}, x(k) = x(1) PROVE FALSE
    OBVIOUS
  <2>1. Len(x(k)) = Len(base) + 2 /\ Len(x(1)) = Len(base) /\ Len(base) \in Nat
    BY <1>8, <1>9
  <2>2. Len(x(k)) = Len(x(1))
    BY Zenon
  <2> QED
    BY <2>1, <2>2
<1>14. \A k, j \in Nat \ {0, 1} : k # j => x(k) # x(j)
  BY <1>9, <1>12, Zenon
<1> HIDE DEF x
<1>15. CASE n = 1 \/ m = 1
  BY <1>7, <1>10, <1>11, <1>13, <1>15, Zenon DEF x
<1>16. CASE n # 1 /\ m # 1
  <2>1. x(n) # x(m)
    BY <1>14, <1>16
  <2>2. x(n) \in Text /\ Plain(x(n))
    BY <1>7, <1>10, <1>16
  <2> QED
    BY <2>1, <2>2 DEF x
<1> QED
  BY <1>15, <1>16

\* References that differ are given different keys, whatever is around them.
LEMMA KeyedApart ==
    ASSUME KeyTexts, NEW p \in Text, NEW s \in Text, Budget - Len(p) - Len(s) >= 2,
           NEW t \in Text, NEW u \in Text, Plain(t), Plain(u), t # u
    PROVE  Keyed(p, t, s) # Keyed(p, u, s)
<1> DEFINE room == Budget - Len(p) - Len(s)
<1>1. room \in Nat /\ room >= 2
  BY KeyedFacts
<1>2. Keyed(p, t, s) = p \o Kept(t, room) \o s /\ Keyed(p, u, s) = p \o Kept(u, room) \o s
  BY KeyedFacts
<1> HIDE DEF room
<1>3. Kept(t, room) \in Text /\ Kept(u, room) \in Text /\ Kept(t, room) # Kept(u, room)
  BY <1>1, KeptFacts, KeptApart
<1> QED
  BY <1>2, <1>3, Between, Zenon

\* What bind_to_body appends to a key within the budget cuts nothing off.
LEMMA BoundKey ==
    ASSUME NEW key \in Text, Len(key) \in 1 .. Budget, Budget \in Nat, NEW body
    PROVE  SubSeq(BindToBody(key, body), 1, Len(key)) = key
<1> DEFINE S == Symbol \cup {Digest(body)}
           tail == <<"_", Digest(body)>>
<1>1. "_" \in S /\ Digest(body) \in S /\ Symbol \subseteq S
  BY DEF Symbol
<1>2. tail \in Seq(S)
  BY <1>1, PairOf, Zenon
<1>3. key \in Seq(S)
  BY <1>1, SeqMonotonic, Zenon DEF Text
<1>4. Cut(key, Budget) = key
  <2>1. (IF Len(key) < Budget THEN Len(key) ELSE Budget) = Len(key)
    OBVIOUS
  <2>2. SubSeq(key, 1, Len(key)) = key
    BY SubSeqFull, Zenon DEF Text
  <2> QED
    BY <2>1, <2>2, Zenon DEF Cut
<1>5. BindToBody(key, body) = key \o tail
  BY <1>4, Zenon DEF BindToBody
<1> HIDE DEF S, tail
<1>6. 1 \in 1 .. Len(key) /\ Len(key) \in 1 .. Len(key)
  OBVIOUS
<1>7. SubSeq(key \o tail, 1, Len(key)) = SubSeq(key, 1, Len(key))
  BY <1>2, <1>3, <1>6, SubSeqOfConcat1, Zenon
<1> QED
  BY <1>3, <1>5, <1>7, SubSeqFull, Zenon

\* What follows the reference in the key of a session.
SessionSuffix(retry) == <<"_s", ToString(1)>> \o (IF retry THEN <<"r">> ELSE <<>>)

\* The suffix ends in the mark of a retry, or in the number of the attempt.
LEMMA SuffixFacts ==
    ASSUME KeyTexts, NEW retry \in BOOLEAN
    PROVE  /\ SessionSuffix(retry) \in Text
           /\ Len(SessionSuffix(retry)) \in 2 .. 3
           /\ SessionSuffix(retry)[Len(SessionSuffix(retry))] = IF retry THEN "r" ELSE ToString(1)
<1> DEFINE first == <<"_s", ToString(1)>>
<1>1. ToString(1) \in Symbol /\ "_s" \in Symbol /\ "r" \in Symbol
  <2>1. 1 \in Nat
    OBVIOUS
  <2>2. ToString(1) \in Symbol
    BY <2>1, Zenon DEF KeyTexts
  <2> QED
    BY <2>2 DEF Symbol
<1>2. first \in Text /\ Len(first) = 2 /\ first[2] = ToString(1)
  BY <1>1, PairFacts, Zenon
<1>3. CASE retry
  <2> DEFINE r == <<"r">>
  <2>1. r \in Text /\ Len(r) = 1 /\ r[1] = "r"
    BY <1>1, OneFacts, Zenon
  <2>2. SessionSuffix(retry) = first \o r
    BY <1>3 DEF SessionSuffix
  <2> HIDE DEF first, r
  <2>3. first \o r \in Text /\ Len(first \o r) = Len(first) + Len(r)
    BY <1>2, <2>1, JoinFacts
  <2>4. \A i \in 1 .. Len(r) : (first \o r)[Len(first) + i] = r[i]
    BY <1>2, <2>1, JoinFacts
  <2>5. (first \o r)[Len(first) + 1] = r[1]
    BY <2>1, <2>4
  <2>6. Len(SessionSuffix(retry)) = 3
    BY <1>2, <2>1, <2>2, <2>3
  <2>7. SessionSuffix(retry)[3] = "r"
    BY <1>2, <2>1, <2>2, <2>5
  <2>8. SessionSuffix(retry) \in Text /\ Len(SessionSuffix(retry)) \in 2 .. 3
    BY <1>2, <2>1, <2>2, <2>3, <2>6
  <2> QED
    BY <1>3, <2>6, <2>7, <2>8, Zenon
<1>4. CASE ~retry
  <2>1. SessionSuffix(retry) = first \o <<>>
    BY <1>4 DEF SessionSuffix
  <2>2. first \o <<>> = first
    BY <1>2, ConcatEmptySeq, Zenon DEF Text
  <2> HIDE DEF first
  <2> QED
    BY <1>2, <1>4, <2>1, <2>2
<1> QED
  BY <1>3, <1>4

SessionKeyIn(s, n, retry) == SessionKey(ReferenceIn(s, n), 1, retry)

\* The key of a session: its prefix, its end, and that another reference has another.
LEMMA SessionKeyFacts ==
    ASSUME KeyTexts, NEW s \in Shop, NEW n \in Nat \ {0}, NEW retry \in BOOLEAN
    PROVE  /\ SessionKeyIn(s, n, retry) \in Text
           /\ Len(SessionKeyIn(s, n, retry)) \in 1 .. Budget
           /\ SessionKeyIn(s, n, retry)[1] = "odoo_"
           /\ SessionKeyIn(s, n, retry)[Len(SessionKeyIn(s, n, retry))] =
                 IF retry THEN "r" ELSE ToString(1)
           /\ \A m \in Nat \ {0} : m # n => SessionKeyIn(s, m, retry) # SessionKeyIn(s, n, retry)
<1> DEFINE p == <<"odoo_">>
           u == SessionSuffix(retry)
           x(k) == Sanitize(ReferenceIn(s, k))
           key(k) == SessionKeyIn(s, k, retry)
<1>1. p \in Text /\ Len(p) = 1 /\ p[1] = "odoo_"
  <2>1. "odoo_" \in Symbol
    BY DEF Symbol
  <2> QED
    BY <2>1, OneFacts, Zenon
<1>2. u \in Text /\ (Len(u) = 2 \/ Len(u) = 3)
  <2>1. u \in Text /\ Len(u) \in 2 .. 3
    BY SuffixFacts, Zenon
  <2>2. \A i \in 2 .. 3 : i = 2 \/ i = 3
    OBVIOUS
  <2> QED
    BY <2>1, <2>2, Zenon
<1>3. \A k \in Nat \ {0} :
         x(k) \in Text /\ Plain(x(k)) /\ \A j \in Nat \ {0} : k # j => x(k) # x(j)
  <2> SUFFICES ASSUME NEW k \in Nat \ {0}
               PROVE  /\ x(k) \in Text /\ Plain(x(k))
                      /\ \A j \in Nat \ {0} : k # j => x(k) # x(j)
    OBVIOUS
  <2>1. k + 1 \in Nat \ {0} /\ k # k + 1
    OBVIOUS
  <2> QED
    BY <2>1, ReferencesApart, Zenon
<1>4. \A k : key(k) = Keyed(p, x(k), u)
  BY DEF SessionKeyIn, SessionKey, SessionSuffix
<1>5. Budget \in Nat /\ Budget >= 9
  BY Zenon DEF KeyTexts
<1> HIDE DEF p, u, x, key
<1>6. Budget - Len(p) - Len(u) >= 2
  <2>1. Len(p) = 1
    BY <1>1
  <2>2. \A b \in Nat, l \in {2, 3} : b >= 9 => b - 1 - l >= 2
    OBVIOUS
  <2>3. Len(u) \in {2, 3}
    BY <1>2
  <2> QED
    BY <1>5, <2>1, <2>2, <2>3, Zenon
<1>7. key(n) = Keyed(p, x(n), u) /\ x(n) \in Text
  BY <1>3, <1>4
<1>8. key(n) \in Text /\ Len(key(n)) <= Budget
  <2>1. Keyed(p, x(n), u) \in Text /\ Len(Keyed(p, x(n), u)) <= Budget
    BY <1>1, <1>2, <1>6, <1>7, KeyedFacts, Zenon
  <2> QED
    BY <1>7, <2>1, Zenon
<1>9. key(n)[1] = "odoo_"
  <2>1. 1 \in 1 .. Len(p)
    BY <1>1
  <2>2. \A i \in 1 .. Len(p) : Keyed(p, x(n), u)[i] = p[i]
    BY <1>1, <1>2, <1>6, <1>7, KeyedFacts, Zenon
  <2> QED
    BY <1>1, <1>7, <2>1, <2>2, Zenon
<1>10. Len(key(n)) > 0 /\ key(n)[Len(key(n))] = u[Len(u)]
  <2>1. Len(u) > 0
    BY <1>2
  <2>2. Len(Keyed(p, x(n), u)) > 0 /\ Keyed(p, x(n), u)[Len(Keyed(p, x(n), u))] = u[Len(u)]
    BY <1>1, <1>2, <1>6, <1>7, <2>1, KeyedFacts, Zenon
  <2> QED
    BY <1>7, <2>2, Zenon
<1>11. Len(key(n)) \in 1 .. Budget
  <2>1. Len(key(n)) \in Nat
    BY <1>8, LenProperties, Zenon DEF Text
  <2> QED
    BY <2>1, <1>5, <1>8, <1>10
<1>12. \A m \in Nat \ {0} : m # n => key(m) # key(n)
  BY <1>1, <1>2, <1>3, <1>4, <1>6, KeyedApart, Zenon
<1>13. u[Len(u)] = IF retry THEN "r" ELSE ToString(1)
  BY SuffixFacts, Zenon DEF u
<1> QED
  BY <1>8, <1>9, <1>10, <1>11, <1>12, <1>13, Zenon DEF key

\* The key of a first refund begins with the prefix of refunds.
LEMMA RefundKeyFacts ==
    ASSUME KeyTexts, NEW s \in Shop, NEW n \in Nat \ {0}, NEW minor \in Nat
    PROVE  RefundKeyText(ReferenceIn(s, n), 0, 0, minor)[1] = "odoo_ref_"
<1> DEFINE p == <<"odoo_ref_">>
           zero == ToString(0)
           last == ToString(minor)
           u == <<"_n", zero, "_x", zero, "_", last>>
           x == Sanitize(ReferenceIn(s, n))
<1>1. zero \in Symbol /\ last \in Symbol
  <2>1. 0 \in Nat
    OBVIOUS
  <2> QED
    BY <2>1, Zenon DEF KeyTexts
<1>2. /\ "odoo_ref_" \in Symbol /\ "_n" \in Symbol /\ "_x" \in Symbol /\ "_" \in Symbol
  BY DEF Symbol
<1>3. p \in Text /\ Len(p) = 1 /\ p[1] = "odoo_ref_"
  BY <1>2, OneFacts, Zenon
<1>4. u \in Text /\ Len(u) = 6
  <2>1. \A S, a, b, c, d, e : a \in S /\ b \in S /\ c \in S /\ d \in S /\ e \in S =>
            <<a, b, c, b, d, e>> \in Seq(S) /\ Len(<<a, b, c, b, d, e>>) = 6
    OBVIOUS
  <2> QED
    BY <1>1, <1>2, <2>1, Zenon DEF Text
<1>5. x \in Text
  <2>1. n + 1 \in Nat \ {0} /\ n # n + 1
    OBVIOUS
  <2> QED
    BY <2>1, ReferencesApart, Zenon
<1>6. RefundKeyText(ReferenceIn(s, n), 0, 0, minor) = Keyed(p, x, u)
  BY DEF RefundKeyText
<1>7. Budget - Len(p) - Len(u) >= 2
  <2>1. Budget \in Nat /\ Budget >= 9
    BY Zenon DEF KeyTexts
  <2>2. \A b \in Nat : b >= 9 => b - 1 - 6 >= 2
    OBVIOUS
  <2> HIDE DEF p, u
  <2> QED
    BY <1>3, <1>4, <2>1, <2>2, Zenon
<1> HIDE DEF p, u, x
<1>8. \A i \in 1 .. Len(p) : Keyed(p, x, u)[i] = p[i]
  BY <1>3, <1>4, <1>5, <1>7, KeyedFacts, Zenon
<1>9. 1 \in 1 .. Len(p)
  BY <1>3
<1> QED
  BY <1>3, <1>6, <1>8, <1>9, Zenon

\* _keyed and bind_to_body: the sessions of an order's transactions, their
\* retries and their first refunds have keys of their own, however long the
\* reference and whatever the alphabet makes of it, and the body's digest is
\* added to a key that is whole.
THEOREM OwnSessionKey_Always ==
    ASSUME KeyTexts
    PROVE  Spec => []OwnSessionKey
<1>1. TypeOK => OwnSessionKey
  <2> SUFFICES ASSUME TypeOK, NEW n \in DOMAIN tx, NEW retry \in BOOLEAN
               PROVE  /\ SubSeq(BindToBody(KeyOf(n, retry), BodyOf(n)), 1, Len(KeyOf(n, retry)))
                           = KeyOf(n, retry)
                      /\ \A m \in DOMAIN tx, again \in BOOLEAN :
                            <<m, again>> # <<n, retry>> => KeyOf(m, again) # KeyOf(n, retry)
                      /\ KeyOf(n, retry) #
                            RefundKeyText(ReferenceOf(n), 0, 0, MinorOf(tx[n].amount))
    BY Zenon DEF OwnSessionKey
  <2> DEFINE key(k, again) == SessionKeyIn(shop, k, again)
  <2>1. shop \in Shop /\ shop \in ShopType
    BY PaymentFormAssumption DEF TypeOK
  <2>2. DOMAIN tx \subseteq Nat \ {0} /\ tx \in Seq(TxType)
    <3>1. tx \in Seq(TxType)
      BY DEF TypeOK, TxType
    <3> QED
      BY <3>1
  <2>3. \A k, again : KeyOf(k, again) = key(k, again) /\ ReferenceOf(k) = ReferenceIn(shop, k)
    BY Zenon DEF KeyOf, SessionKeyIn, ReferenceOf, ReferenceIn
  <2>4. MinorOf(tx[n].amount) \in Nat
    <3>1. tx[n] \in TxType
      BY <2>2
    <3> DEFINE a == tx[n].amount
               o == Unit(shop.odoo)
               u == Unit(shop.xpay)
    <3>2. a \in Nat
      BY <2>1, <3>1 DEF TxType, ShopType
    <3>3. o \in {1, 10, 100, 1000} /\ u \in {1, 10, 100, 1000}
      BY <2>1, Units DEF ShopType
    <3>4. MinorOf(a) = HalfUp(HalfUp(a, o) * o, u)
      BY Zenon DEF MinorOf, ToMinor, OdooRound
    <3> HIDE DEF a, o, u
    <3>5. HalfUp(a, o) * o \in Nat
      <4>1. HalfUp(a, o) \in Nat
        BY <3>2, <3>3, RoundedTwice
      <4> QED
        BY <3>3, <4>1
    <3>6. HalfUp(HalfUp(a, o) * o, u) \in Nat
      BY <3>3, <3>5, RoundedTwice
    <3> QED
      BY <3>4, <3>6 DEF a
  <2>5. \A k \in Nat \ {0}, again \in BOOLEAN :
            /\ key(k, again) \in Text
            /\ Len(key(k, again)) \in 1 .. Budget
            /\ key(k, again)[1] = "odoo_"
            /\ key(k, again)[Len(key(k, again))] = IF again THEN "r" ELSE ToString(1)
            /\ \A m \in Nat \ {0} : m # k => key(m, again) # key(k, again)
    BY <2>1, SessionKeyFacts, Zenon
  <2>6. n \in Nat \ {0}
    BY <2>2
  <2> HIDE DEF key
  <2>7. SubSeq(BindToBody(key(n, retry), BodyOf(n)), 1, Len(key(n, retry))) = key(n, retry)
    <3>1. Budget \in Nat
      BY Zenon DEF KeyTexts
    <3> QED
      BY <2>5, <2>6, <3>1, BoundKey, Zenon
  <2>8. ASSUME NEW m \in DOMAIN tx, NEW again \in BOOLEAN, <<m, again>> # <<n, retry>>
        PROVE  key(m, again) # key(n, retry)
    <3>1. m \in Nat \ {0}
      BY <2>2
    <3>2. CASE again = retry
      <4>1. m # n
        BY <2>8, <3>2
      <4> QED
        BY <2>5, <2>6, <3>1, <3>2, <4>1, Zenon
    <3>3. CASE again # retry
      <4>1. (IF again THEN "r" ELSE ToString(1)) # (IF retry THEN "r" ELSE ToString(1))
        <5>1. ToString(1) # "r"
          BY Zenon DEF KeyTexts
        <5>2. (again /\ ~retry) \/ (retry /\ ~again)
          BY <3>3, Zenon
        <5> QED
          BY <5>1, <5>2, Zenon
      <4>2. /\ key(m, again)[Len(key(m, again))] = IF again THEN "r" ELSE ToString(1)
            /\ key(n, retry)[Len(key(n, retry))] = IF retry THEN "r" ELSE ToString(1)
        BY <2>5, <2>6, <3>1, Zenon
      <4> QED
        BY <4>1, <4>2, Zenon
    <3> QED
      BY <3>2, <3>3, Zenon
  <2>9. key(n, retry) # RefundKeyText(ReferenceIn(shop, n), 0, 0, MinorOf(tx[n].amount))
    <3>1. RefundKeyText(ReferenceIn(shop, n), 0, 0, MinorOf(tx[n].amount))[1] = "odoo_ref_"
      BY <2>1, <2>4, <2>6, RefundKeyFacts, Zenon
    <3>2. key(n, retry)[1] = "odoo_"
      BY <2>5, <2>6, Zenon
    <3>3. "odoo_" # "odoo_ref_"
      OBVIOUS
    <3> QED
      BY <3>1, <3>2, <3>3, Zenon
  <2> QED
    BY <2>3, <2>7, <2>8, <2>9, Zenon
<1> QED
  BY <1>1, PaymentFormTypeCorrect, PTL

=============================================================================
