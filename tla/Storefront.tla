----------------------------- MODULE Storefront -----------------------------
(***************************************************************************)
(* The requests that share the provider's row: pages that refresh the      *)
(* account cache in passing, checkouts, webhook deliveries that stamp its  *)
(* health, the Refresh account button, consents, Complete setup and        *)
(* Disconnect (models/payment_provider.py); and the customer a registered  *)
(* shopper's checkouts run under (models/res_partner.py, with              *)
(* checkout_service._create_session and order_sync._remember_customer).    *)
(* Connect has the steps of a consent; here it is the writes it commits.   *)
(*                                                                         *)
(* A request writes the row by UPDATE, which waits for whoever holds it,   *)
(* or takes it with SELECT ... FOR UPDATE NOWAIT, which does not.  What it *)
(* wrote is seen by others from its commit on.  Under "repeatable_read",   *)
(* Odoo's isolation, a write of a row that another request committed since *)
(* this one began fails, and Odoo runs the request again; under            *)
(* "read_committed" it does not.                                           *)
(***************************************************************************)
EXTENDS Integers, FiniteSets

CONSTANTS
    Worker,      \* requests being served
    Merchant,    \* accounts at XPay
    Customer,    \* customer ids the platform may give
    Owners,      \* the keys these may be made under
    Isolations,  \* the isolations considered
    None

Plane == {"test", "live"}
\* A key belongs to a plane and a merchant; so does a customer.
Key == Plane \X Merchant
PlaneOf(key) == key[1]

\* What a request is for.
Kinds == {"page", "checkout", "refresh", "webhook", "consent", "setup", "disconnect"}

ASSUME StorefrontAssumption ==
    /\ Owners \subseteq [Customer -> Key]
    /\ Isolations \subseteq {"repeatable_read", "read_committed"}
    /\ None \notin Key \cup Customer \cup Kinds \cup {"success", "failure", "fresh", "old"}

VARIABLES
    isolation,  \* the database's
    prov,       \* the committed row of the provider
    link,       \* the committed xpay_customer_ids of the shopper's partner
    owner,      \* the platform's customers: the key each is made under, for good
    job         \* what each request is doing

vars == <<isolation, prov, link, owner, job>>

-----------------------------------------------------------------------------
(* The row.  account is the key the cached account was read with;          *)
(* fetched_at is younger than the cache's window, or older; health is the  *)
(* later of the webhook's last success and last failure; incomplete is     *)
(* setup_incomplete_step.                                                  *)

Row == [key : Key \cup {None}, account : Key \cup {None},
        fetched_at : {None, "fresh", "old"},
        health : {None, "success", "failure"}, incomplete : BOOLEAN]

Blank == [key |-> None, account |-> None, fetched_at |-> None,
          health |-> None, incomplete |-> FALSE]

Column == DOMAIN Blank

(* A request.  stale: has the row, or the link, changed under a request    *)
(* that must not see it?  columns: those of draft it has written.          *)
(* relinks: does it write the link?                                        *)
\* Steps that wait for the row.
Waiting == {"due", "stamping", "locking", "clearing"}
Steps == Waiting \cup {"idle", "stamped", "asked", "body", "retry", "provisioning", "done"}

Job == [kind : Kinds \cup {None}, step : Steps, holds : BOOLEAN,
        stale : BOOLEAN, staleLink : BOOLEAN,
        draft : Row, columns : SUBSET Column,
        key : Key \cup {None},
        link : [Plane -> Customer \cup {None}], relinks : BOOLEAN]

NoLink == [p \in Plane |-> None]

Idle == [kind |-> None, step |-> "idle", holds |-> FALSE,
         stale |-> FALSE, staleLink |-> FALSE,
         draft |-> Blank, columns |-> {}, key |-> None,
         link |-> NoLink, relinks |-> FALSE]

TypeOK ==
    /\ isolation \in Isolations
    /\ prov \in Row
    /\ link \in [Plane -> Customer \cup {None}]
    /\ owner \in [Customer -> Key]
    /\ job \in [Worker -> Job]

Init ==
    /\ isolation \in Isolations
    /\ prov = Blank
    /\ link = NoLink
    /\ owner \in Owners
    /\ job = [w \in Worker |-> Idle]

\* The stamp of the last check is older than _ACCOUNT_CACHE_MAX_AGE.
Expire ==
    /\ prov.fetched_at = "fresh"
    /\ prov' = [prov EXCEPT !.fetched_at = "old"]
    /\ UNCHANGED <<isolation, link, owner, job>>

-----------------------------------------------------------------------------
(* Requests and the row.                                                   *)

Repeatable == isolation = "repeatable_read"

Free(w) == \A v \in Worker \ {w} : ~job[v].holds

\* A write of the row goes through.
Writable(w) == Free(w) /\ ~job[w].stale

\* Columns of one row laid over another, merged one level deep.
Merged(row, columns, draft) ==
    [c \in Column |-> IF c \in columns THEN draft[c] ELSE row[c]]

\* The row as a request reads it once it holds it.
Seen(w) == Merged(prov, job[w].columns, job[w].draft)

\* A request's write of some columns, by _xpay_snapshot_update or by the ORM.
Writes(w, columns, draft, step) ==
    /\ job' = [job EXCEPT ![w].holds = TRUE, ![w].step = step,
                          ![w].columns = @ \cup columns,
                          ![w].draft = Merged(@, columns, draft)]
    /\ UNCHANGED <<isolation, prov, link, owner>>

Advance(w, step) ==
    /\ job' = [job EXCEPT ![w].step = step]
    /\ UNCHANGED <<isolation, prov, link, owner>>

Begin(w, request) ==
    /\ job[w].step = "idle"
    /\ job' = [job EXCEPT ![w] = request]
    /\ UNCHANGED <<isolation, prov, link, owner>>

\* The request is over and has changed nothing: it is refused, it fails, or it
\* dies.
Abort(w) ==
    /\ job[w].step # "idle"
    /\ job' = [job EXCEPT ![w] = Idle]
    /\ UNCHANGED <<isolation, prov, link, owner>>

\* The whole JSON column of the partner is written, as the request read it.
Commit(w) ==
    /\ job[w].step = "done"
    /\ ~(job[w].relinks /\ job[w].staleLink)
    /\ prov' = Seen(w)
    /\ link' = IF job[w].relinks THEN job[w].link ELSE link
    /\ job' = [v \in Worker |->
                  IF v = w \/ job[v].step = "idle" THEN Idle
                  ELSE [job[v] EXCEPT !.stale = @ \/ (Repeatable /\ job[w].columns # {}),
                                      !.staleLink = @ \/ (Repeatable /\ job[w].relinks)]]
    /\ UNCHANGED <<isolation, owner>>

-----------------------------------------------------------------------------
(* The cached account: _xpay_account and _xpay_refresh_account.            *)

Old(row) == row.fetched_at # "fresh"

\* A page that shows XPay; one that finds the cache fresh does nothing.
RenderPage(w) ==
    /\ prov.key # None
    /\ Old(prov)
    /\ Begin(w, [Idle EXCEPT !.kind = "page", !.step = "due"])

\* action_xpay_refresh_account.
RefreshAccount(w) ==
    /\ prov.key # None
    /\ Begin(w, [Idle EXCEPT !.kind = "refresh", !.step = "due"])

StampCheck_AfterCall(w) ==
    /\ job[w].step = "due"
    /\ Advance(w, "stamped")

\* The check is stamped before the call, which takes the row.
StampCheck(w) ==
    /\ job[w].step = "due"
    /\ Writable(w)
    /\ Writes(w, {"fetched_at"}, [Blank EXCEPT !.fetched_at = "fresh"], "stamped")

\* GET /account, with the key as it is after the write; without one, an error.
AskAccount(w) ==
    /\ job[w].step = "stamped"
    /\ Seen(w).key # None
    /\ job' = [job EXCEPT ![w].step = "asked", ![w].key = Seen(w).key]
    /\ UNCHANGED <<isolation, prov, link, owner>>

AfterCheck(w) == IF job[w].kind = "checkout" THEN "body" ELSE "done"

AccountRead(w) ==
    /\ job[w].step = "asked"
    /\ Writes(w, {"account"}, [Blank EXCEPT !.account = job[w].key], AfterCheck(w))

\* The stale copy is kept.
AccountUnread(w) ==
    /\ job[w].step = "asked"
    /\ Advance(w, AfterCheck(w))

-----------------------------------------------------------------------------
(* A registered shopper's checkout, and the customer it runs under.        *)

\* session_for, up to the account's payment methods.
Checkout(w) ==
    /\ prov.key # None
    /\ ~prov.incomplete
    /\ Old(prov) \/ prov.account # None
    /\ Begin(w, [Idle EXCEPT !.kind = "checkout",
                             !.step = IF Old(prov) THEN "due" ELSE "body",
                             !.key = prov.key, !.link = link])

Linked(w) == job[w].link[PlaneOf(job[w].key)]

\* _xpay_remember_customer and _xpay_forget_customer, on the column they read.
Remembered(ids, plane, c) == [ids EXCEPT ![plane] = c]
Forgotten(ids, plane) == [ids EXCEPT ![plane] = None]

\* Nothing can be asked for while no account says which methods it has.
MethodsKnown(w) == job[w].holds => Seen(w).account # None

SessionCreated(w) ==
    /\ job[w].step = "body"
    /\ MethodsKnown(w)
    /\ Linked(w) # None => owner[Linked(w)] = job[w].key
    /\ Advance(w, "done")

LinkMissing_WholeColumn(w) ==
    /\ job[w].step = "body"
    /\ MethodsKnown(w)
    /\ Linked(w) # None
    /\ owner[Linked(w)] # job[w].key
    /\ job' = [job EXCEPT ![w].step = "retry", ![w].relinks = TRUE, ![w].link = NoLink]
    /\ UNCHANGED <<isolation, prov, link, owner>>

\* RESOURCE_MISSING: the platform does not know the customer.  The link is
\* forgotten, and the session asked for once more without it.
LinkMissing(w) ==
    /\ job[w].step = "body"
    /\ MethodsKnown(w)
    /\ Linked(w) # None
    /\ owner[Linked(w)] # job[w].key
    /\ job' = [job EXCEPT ![w].step = "retry", ![w].relinks = TRUE,
                          ![w].link = Forgotten(@, PlaneOf(job[w].key))]
    /\ UNCHANGED <<isolation, prov, link, owner>>

RetryCreated(w) ==
    /\ job[w].step = "retry"
    /\ Advance(w, "done")

-----------------------------------------------------------------------------
(* Webhook deliveries: xpay_webhook with _record_health.                   *)

FailedDelivery_WholeSnapshot(w) ==
    /\ prov.key # None
    /\ Begin(w, [Idle EXCEPT !.kind = "webhook", !.step = "stamping",
                             !.draft = [prov EXCEPT !.health = "failure"],
                             !.columns = Column \ {"key"}])

FailedDelivery_StampsReason(w) ==
    /\ prov.key # None
    /\ Begin(w, [Idle EXCEPT !.kind = "webhook", !.step = "stamping",
                             !.draft.health = "apply_failed"])

\* A delivery that was refused or not applied.
FailedDelivery(w) ==
    /\ prov.key # None
    /\ Begin(w, [Idle EXCEPT !.kind = "webhook", !.step = "stamping",
                             !.draft.health = "failure"])

\* A paid session of the connected account, and its customer, if it has one.
PaidDelivery(w, c) ==
    /\ prov.key # None
    /\ c = None \/ (c \in Customer /\ owner[c] = prov.key)
    /\ LET new == IF c = None THEN link ELSE Remembered(link, PlaneOf(prov.key), c)
       IN  Begin(w, [Idle EXCEPT !.kind = "webhook", !.step = "stamping",
                                 !.draft.health = "success",
                                 !.link = IF new = link THEN NoLink ELSE new,
                                 !.relinks = new # link])

StampHealth(w) ==
    /\ job[w].step = "stamping"
    /\ Writable(w)
    /\ Writes(w, {"health"}, job[w].draft, "done")

-----------------------------------------------------------------------------
(* Consents, Complete setup and Disconnect.                                *)

\* A consent whose code was exchanged for a key.
Consent(w, key) ==
    Begin(w, [Idle EXCEPT !.kind = "consent", !.step = "locking", !.key = key])

CompleteSetup(w) ==
    /\ prov.key # None
    /\ prov.incomplete
    /\ Begin(w, [Idle EXCEPT !.kind = "setup", !.step = "locking"])

\* _lock_provider: refused, that is aborted, when another holds the row.
LockProvider(w) ==
    /\ job[w].step = "locking"
    /\ Writable(w)
    /\ job' = [job EXCEPT ![w].step = "provisioning", ![w].holds = TRUE,
                          ![w].key = IF @ = None THEN prov.key ELSE @]
    /\ UNCHANGED <<isolation, prov, link, owner>>

Provisioned_KeepsAccount(w) ==
    /\ job[w].step = "provisioning"
    /\ Writes(w, Column \ {"account"},
              [key |-> job[w].key, account |-> None, fetched_at |-> "fresh",
               health |-> None, incomplete |-> FALSE], "done")

\* _finish_provisioning; a setup that finds itself disconnected has no client.
Provisioned(w) ==
    /\ job[w].step = "provisioning"
    /\ job[w].key # None
    /\ Writes(w, Column,
              [key |-> job[w].key, account |-> job[w].key, fetched_at |-> "fresh",
               health |-> None, incomplete |-> FALSE], "done")

\* A step failed on the plane already connected: the new key is kept, and
\* setup is flagged.  Any other failure of a consent changes nothing.
SetupIncomplete(w) ==
    /\ job[w].step = "provisioning"
    /\ job[w].kind = "consent"
    /\ prov.key # None
    /\ PlaneOf(prov.key) = PlaneOf(job[w].key)
    /\ Writes(w, {"key", "incomplete"},
              [Blank EXCEPT !.key = job[w].key, !.incomplete = TRUE], "done")

\* Complete setup fails again, and flags the step it came to.
StillIncomplete(w) ==
    /\ job[w].step = "provisioning"
    /\ job[w].kind = "setup"
    /\ job[w].key # None
    /\ Writes(w, {"incomplete"}, [Blank EXCEPT !.incomplete = TRUE], "done")

Disconnect(w) ==
    /\ prov.key # None
    /\ Begin(w, [Idle EXCEPT !.kind = "disconnect", !.step = "clearing"])

Cleared(w) ==
    /\ job[w].step = "clearing"
    /\ Writable(w)
    /\ Writes(w, Column, Blank, "done")

-----------------------------------------------------------------------------
Next ==
    \/ Expire
    \/ \E w \in Worker :
        \/ RenderPage(w) \/ RefreshAccount(w)
        \/ StampCheck(w) \/ AskAccount(w) \/ AccountRead(w) \/ AccountUnread(w)
        \/ Checkout(w) \/ SessionCreated(w) \/ LinkMissing(w) \/ RetryCreated(w)
        \/ FailedDelivery(w) \/ StampHealth(w)
        \/ \E c \in Customer \cup {None} : PaidDelivery(w, c)
        \/ \E key \in Key : Consent(w, key)
        \/ CompleteSetup(w) \/ LockProvider(w) \/ Provisioned(w)
        \/ SetupIncomplete(w) \/ StillIncomplete(w)
        \/ Disconnect(w) \/ Cleared(w)
        \/ Commit(w) \/ Abort(w)

Spec == Init /\ [][Next]_vars

-----------------------------------------------------------------------------
(***************************************************************************)
(* Properties.                                                             *)
(***************************************************************************)

\* The cached account, which says what shoppers are offered, is the one the
\* stored key belongs to, whatever consents, refreshes and Disconnect do to the
\* row meanwhile; only a flagged setup may still show the previous one.
AccountFitsKey ==
    prov.account # None => prov.account = prov.key \/ prov.incomplete

\* The columns each kind of request is about.
About(kind) ==
    CASE kind \in {"page", "checkout", "refresh"} -> {"fetched_at", "account"}
      [] kind = "webhook" -> {"health"}
      [] OTHER -> Column

\* _xpay_snapshot: two writers "never clobber each other".  A request that
\* commits leaves what others wrote of the row as it finds it.
NoClobber ==
    [][\A w \in Worker : Commit(w) =>
          \A c \in Column \ About(job[w].kind) : prov'[c] = prov[c]]_vars

Passive(w) == job[w].kind \in {"page", "checkout"}

\* _xpay_refresh_account: a platform that is down costs shoppers one call per
\* cache window.  Two calls are never made at a time and, where the database
\* shows a request one state of the row, none sooner than the window after the
\* last committed check.  (A request that is rolled back takes its stamp along.)
PassiveCallsAreRare ==
    [][\A w \in Worker : AskAccount(w) /\ Passive(w) =>
          /\ \A v \in Worker \ {w} : job[v].step # "asked"
          /\ Repeatable => Old(prov)]_vars

\* _xpay_forget_customer: a shopper only loses the customer of a plane when the
\* account they check out with does not know it, and never that of the other
\* plane, where the database shows a request one state of the partner.
LiveLinkKept ==
    [][Repeatable => \A p \in Plane :
          link[p] # None /\ link'[p] = None =>
              \E w \in Worker :
                  /\ Commit(w)
                  /\ PlaneOf(job[w].key) = p
                  /\ owner[link[p]] # job[w].key]_vars
=============================================================================
