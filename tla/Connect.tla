------------------------------ MODULE Connect ------------------------------
(* Connecting a provider to XPay: services/connect_service.py with          *)
(* services/webhook_configurator.py, services/connect_errors.py, the        *)
(* callback of controllers/connect.py and the actions of                    *)
(* models/payment_provider.py.                                              *)
(*                                                                          *)
(* A worker is an administrator's browser: its session holds one flow and   *)
(* it makes one request at a time.  prov is the committed provider record.  *)
(* A request that holds the record's lock writes to a draft, which its end  *)
(* commits and a failure of a button, or a crash, drops; what it did at the *)
(* platform stays done.                                                     *)
EXTENDS Naturals

CONSTANTS
    None,
    Worker,
    Key,          \* restricted keys the platform can issue
    Endpoint,     \* webhook endpoints it can create, in that order
    Op,           \* operation ids, uuid4 in the code
    MaxClient,    \* OAuth client registrations
    LostExchange, \* may the answer to a token exchange be lost or unreadable
    Capped,       \* may the platform refuse an endpoint for its cap
    Crashes       \* may a request die

ASSUME ConnectAssumption ==
    /\ Endpoint \subseteq Nat \ {0}
    /\ MaxClient \in Nat
    /\ None \notin Worker \cup Key \cup Endpoint \cup Op
    /\ None \notin {"account", "permissions", "webhook"}
    /\ {LostExchange, Capped, Crashes} \subseteq BOOLEAN

VARIABLES
    prov,       \* the provider record
    lock,       \* the worker that holds its row
    client,     \* the OAuth client in ir.config_parameter
    flow,       \* request.session[SESSION_KEY], by worker
    job,        \* the request a worker makes
    issued,     \* at the platform: the keys
    endpoint,   \* at the platform: the webhook endpoints
    answer,     \* at the platform: what a create was answered, by operation id
    validated   \* ghost: keys whose account was read and found sufficient

vars == <<prov, lock, client, flow, job, issued, endpoint, answer, validated>>
platform == <<issued, endpoint, answer>>

Plane == {"test", "live"}
Rejected == 0

\* The secret is named by the endpoint it was issued with.  error stands for
\* connect_error_*, step for setup_incomplete_step.
Blank ==
    [ key |-> None, state |-> "disabled", published |-> FALSE,
      secret |-> None, endpoint |-> None, op |-> None,
      step |-> None, error |-> FALSE ]

Record ==
    [ key : Key \cup {None}, state : {"disabled", "test", "enabled"}, published : BOOLEAN,
      secret : Endpoint \cup {None}, endpoint : Endpoint \cup {None}, op : Op \cup {None},
      step : {None, "account", "permissions", "webhook"}, error : BOOLEAN ]

Idle == [step |-> "idle"]

\* kind is what was asked for; before and draft are set once the lock is held.
Active ==
    [ kind : {"callback", "setup", "reconfigure", "disconnect"},
      step : {"exchanging", "failing", "locking", "account", "creating", "freeing",
              "recreating", "cleaning", "finishing", "clearing"},
      plane : Plane \cup {None}, client : 0..MaxClient, marks : BOOLEAN,
      key : Key \cup {None}, before : Record, draft : Record ]

Job == {Idle} \cup Active

Request(kind, step, plane, id) ==
    [ kind |-> kind, step |-> step, plane |-> plane, client |-> id, marks |-> FALSE,
      key |-> None, before |-> Blank, draft |-> Blank ]

Init ==
    /\ prov = Blank
    /\ lock = None
    /\ client = [id |-> 0, completed |-> FALSE]
    /\ flow = [w \in Worker |-> None]
    /\ job = [w \in Worker |-> Idle]
    /\ issued = [k \in Key |-> [status |-> "none", plane |-> "test", client |-> 0]]
    /\ endpoint = [e \in Endpoint |-> [status |-> "none", plane |-> "test"]]
    /\ answer = [o \in Op |-> [p \in Plane |-> None]]
    /\ validated = {}

\* _xpay_plane: the key is the plane authority.
PlaneOf(k) == IF k = None THEN None ELSE issued[k].plane

Works(k) == k # None /\ issued[k].status = "active"

\* _check_xpay_state_matches_connection.
StateFits(rec) ==
    /\ rec.state # "disabled" => rec.key # None
    /\ rec.state = "enabled" => PlaneOf(rec.key) = "live"
    /\ rec.state = "test" => PlaneOf(rec.key) = "test"

-----------------------------------------------------------------------------
(* The end of a request.                                                    *)

\* Commits rec; the mark of a completed client goes with it.
Commit(w, rec) ==
    /\ lock \in {None, w}
    /\ prov' = rec
    /\ lock' = None
    /\ client' = [client EXCEPT !.completed = @ \/ job[w].marks]
    /\ job' = [job EXCEPT ![w] = Idle]

\* Commits nothing.
Rollback(w) ==
    /\ job' = [job EXCEPT ![w] = Idle]
    /\ lock' = IF lock = w THEN None ELSE lock
    /\ UNCHANGED <<prov, client>>

Crash(w) ==
    /\ Crashes
    /\ job[w] # Idle
    /\ Rollback(w)
    /\ UNCHANGED <<flow, platform, validated>>

-----------------------------------------------------------------------------
(* The handshake.                                                           *)

\* _ensure_client: a client is registered when there is none, and again when
\* it is old and has not completed a consent.
EnsuredClient ==
    {c \in {client} \cup {[id |-> client.id + 1, completed |-> FALSE]} :
        /\ c.id \in 1..MaxClient
        /\ client.completed => c = client}

\* start and _xpay_connect_action.
Start(w, plane) ==
    /\ job[w] = Idle
    /\ \E c \in EnsuredClient :
          /\ client' = c
          /\ flow' = [flow EXCEPT ![w] = [plane |-> plane, client |-> c.id]]
    /\ UNCHANGED <<prov, lock, job, platform, validated>>

\* xpay_connect_callback: the flow is popped before anything is looked at.
Callback(w) ==
    /\ job[w] = Idle
    /\ flow[w] # None
    /\ flow' = [flow EXCEPT ![w] = None]
    /\ job' = [job EXCEPT ![w] = Request("callback", "exchanging", flow[w].plane, flow[w].client)]
    /\ UNCHANGED <<prov, lock, client, platform, validated>>

\* The callback brings an error, or a state that does not match.
CallbackRefused(w) ==
    /\ job[w] = Idle
    /\ flow[w] # None
    /\ lock = None
    /\ flow' = [flow EXCEPT ![w] = None]
    /\ prov' = [prov EXCEPT !.error = TRUE]
    /\ UNCHANGED <<lock, client, job, platform, validated>>

\* The platform issues a key and retires the others of its plane and client.
IssueKey(k, plane, id) ==
    /\ issued[k].status = "none"
    /\ issued' = [j \in Key |->
          IF j = k THEN [status |-> "active", plane |-> plane, client |-> id]
          ELSE IF issued[j].plane = plane /\ issued[j].client = id /\ issued[j].status = "active"
               THEN [issued[j] EXCEPT !.status = "retired"]
               ELSE issued[j]]
    /\ UNCHANGED <<endpoint, answer>>

\* complete: the exchange, and the mark of the client that completed it.
Exchange(w) ==
    /\ job[w].step = "exchanging"
    /\ \E k \in Key :
          /\ IssueKey(k, job[w].plane, job[w].client)
          /\ job' = [job EXCEPT ![w].step = "locking", ![w].key = k,
                                ![w].marks = (client.id = job[w].client)]
    /\ UNCHANGED <<prov, lock, client, flow, validated>>

\* No key is issued, or one is and the answer is lost or not valid.
ExchangeFails(w) ==
    /\ job[w].step = "exchanging"
    /\ job' = [job EXCEPT ![w].step = "failing"]
    /\ \/ UNCHANGED platform
       \/ LostExchange /\ \E k \in Key : IssueKey(k, job[w].plane, job[w].client)
    /\ UNCHANGED <<prov, lock, client, flow, validated>>

\* record_error, in the callback's except: the row may be held by another.
RecordError(w) ==
    /\ job[w].step = "failing"
    /\ Commit(w, [prov EXCEPT !.error = TRUE])
    /\ UNCHANGED <<flow, platform, validated>>

-----------------------------------------------------------------------------
(* Provisioning, under the lock of the record.                              *)

\* complete_setup reads the plane and the flag before the lock.
CompleteSetup(w) ==
    /\ job[w] = Idle
    /\ prov.key # None
    /\ prov.step # None
    /\ job' = [job EXCEPT ![w] = Request("setup", "locking", PlaneOf(prov.key), 0)]
    /\ UNCHANGED <<prov, lock, client, flow, platform, validated>>

ReconfigureWebhook(w) ==
    /\ job[w] = Idle
    /\ job' = [job EXCEPT ![w] = Request("reconfigure", "locking", None, 0)]
    /\ UNCHANGED <<prov, lock, client, flow, platform, validated>>

\* A consent for the plane already connected: its previous key is retired.
SamePlane(w) == PlaneOf(job[w].before.key) = job[w].plane

WithKey(rec, k, plane) ==
    [rec EXCEPT !.key = k, !.state = IF plane = "live" THEN "enabled" ELSE "test"]

LockProvider_StoresLate(w) ==
    /\ job[w].step = "locking"
    /\ lock = None
    /\ LET kind == job[w].kind
           k    == IF kind = "callback" THEN job[w].key ELSE prov.key
       IN  /\ k # None
           /\ job' = [job EXCEPT
                 ![w].step   = IF kind = "reconfigure" THEN "creating" ELSE "account",
                 ![w].key    = k,
                 ![w].before = prov,
                 ![w].draft  = prov]
    /\ lock' = w
    /\ UNCHANGED <<prov, client, flow, platform, validated>>

\* The callback brings its key, the buttons use the stored one.
LockProvider(w) ==
    /\ job[w].step = "locking"
    /\ lock = None
    /\ LET kind    == job[w].kind
           k       == IF kind = "callback" THEN job[w].key ELSE prov.key
           renewed == kind = "callback" /\ PlaneOf(prov.key) = job[w].plane
       IN  /\ k # None
           /\ job' = [job EXCEPT
                 ![w].step   = IF kind = "reconfigure" THEN "creating" ELSE "account",
                 ![w].key    = k,
                 ![w].before = prov,
                 ![w].draft  = IF renewed THEN WithKey(prov, k, job[w].plane) ELSE prov]
    /\ lock' = w
    /\ UNCHANGED <<prov, client, flow, platform, validated>>

\* The row is held, which the callback reports and a button shows; or, for a
\* button, there is no key any more.
LockRefused(w) ==
    /\ job[w].step = "locking"
    /\ \/ /\ lock # None
          /\ job[w].kind = "callback"
          /\ job' = [job EXCEPT ![w].step = "failing"]
          /\ UNCHANGED <<prov, lock, client>>
       \/ /\ lock # None \/ prov.key = None
          /\ job[w].kind # "callback"
          /\ Rollback(w)
    /\ UNCHANGED <<flow, platform, validated>>

Failed_UnlistedStep(w, rec, step) ==
    IF SamePlane(w)
    THEN [rec EXCEPT !.step = "exchange"]
    ELSE [rec EXCEPT !.key = job[w].before.key, !.state = job[w].before.state, !.error = TRUE]

Failed_KeyOnly(w, rec, step) ==
    IF SamePlane(w)
    THEN [rec EXCEPT !.step = step]
    ELSE [rec EXCEPT !.key = job[w].before.key, !.error = TRUE]

Failed_Unflagged(w, rec, step) ==
    IF SamePlane(w)
    THEN rec
    ELSE [rec EXCEPT !.key = job[w].before.key, !.state = job[w].before.state, !.error = TRUE]

Failed_NotRestored(w, rec, step) ==
    IF SamePlane(w) THEN [rec EXCEPT !.step = step] ELSE [rec EXCEPT !.error = TRUE]

\* What a failed consent leaves: the new key and a flag on the same plane,
\* whose old key is dead, and the previous connection otherwise.
Failed(w, rec, step) ==
    IF SamePlane(w)
    THEN [rec EXCEPT !.step = step]
    ELSE [rec EXCEPT !.key = job[w].before.key, !.state = job[w].before.state, !.error = TRUE]

\* The callback catches the failure and commits; a button's is rolled back.
Fail(w, rec, step) ==
    IF job[w].kind = "callback" THEN Commit(w, Failed(w, rec, step)) ELSE Rollback(w)

\* get_account fails, as it does with a key that is retired.
AccountUnread(w) ==
    /\ job[w].step = "account"
    /\ Fail(w, job[w].draft, "account")
    /\ UNCHANGED <<flow, platform, validated>>

\* _require_permissions or _require_live_activation refuses.
AccountRefused(w) ==
    /\ job[w].step = "account"
    /\ Works(job[w].key)
    /\ Fail(w, job[w].draft, "permissions")
    /\ UNCHANGED <<flow, platform, validated>>

\* The key is found to grant what the module needs; a consent for another
\* plane stores it only now.
AccountAccepted(w) ==
    /\ job[w].step = "account"
    /\ Works(job[w].key)
    /\ validated' = validated \cup {job[w].key}
    /\ job' = [job EXCEPT
          ![w].step  = "creating",
          ![w].draft = IF job[w].kind = "callback" THEN WithKey(@, job[w].key, job[w].plane) ELSE @]
    /\ UNCHANGED <<prov, lock, client, flow, platform>>

-----------------------------------------------------------------------------
(* webhook_configurator.ensure_endpoint.                                    *)

Unused(o) ==
    /\ \A p \in Plane : answer[o][p] = None
    /\ o # prov.op
    /\ \A w \in Worker : job[w] # Idle => job[w].draft.op # o

OpFor_StoredIfAny(w) ==
    LET rec == job[w].draft
    IN  IF job[w].step = "recreating" \/ rec.op = None
        THEN {o \in Op : Unused(o)}
        ELSE {rec.op}

\* An operation id is used again only for a create not known to have worked.
OpFor(w) ==
    LET rec == job[w].draft
    IN  IF job[w].step = "recreating" \/ rec.op = None \/ rec.endpoint # None
        THEN {o \in Op : Unused(o)}
        ELSE {rec.op}

NextEndpoint ==
    {e \in Endpoint : /\ endpoint[e].status = "none"
                      /\ \A f \in Endpoint : f < e => endpoint[f].status # "none"}

\* The platform answers a create with what it answered the operation before.
\* Test and live answers are kept apart.
Created(o, e, plane) ==
    /\ \/ answer[o][plane] = e /\ UNCHANGED endpoint
       \/ /\ answer[o][plane] = None
          /\ e \in NextEndpoint
          /\ endpoint' = [endpoint EXCEPT ![e] = [status |-> "alive", plane |-> plane]]
    /\ answer' = [answer EXCEPT ![o][plane] = e]
    /\ UNCHANGED issued

Refused(o, plane) ==
    /\ answer[o][plane] \in {None, Rejected}
    /\ answer' = [answer EXCEPT ![o][plane] = Rejected]
    /\ UNCHANGED <<issued, endpoint>>

Creates(w, o) ==
    /\ job[w].step \in {"creating", "recreating"}
    /\ o \in OpFor(w)

\* The secret and the id are stored.
CreateAnswered(w) ==
    \E o \in Op, e \in Endpoint :
        /\ Creates(w, o)
        /\ Works(job[w].key)
        /\ Created(o, e, PlaneOf(job[w].key))
        /\ job' = [job EXCEPT ![w].step = "cleaning", ![w].draft.op = o,
                              ![w].draft.secret = e, ![w].draft.endpoint = e]
        /\ UNCHANGED <<prov, lock, client, flow, validated>>

\* The create does not arrive, is refused, or its answer is lost or not valid.
CreateFails(w) ==
    \E o \in Op :
        /\ Creates(w, o)
        /\ \/ UNCHANGED platform
           \/ /\ Works(job[w].key)
              /\ \/ Refused(o, PlaneOf(job[w].key))
                 \/ \E e \in Endpoint : Created(o, e, PlaneOf(job[w].key))
        /\ Fail(w, [job[w].draft EXCEPT !.op = o], "webhook")
        /\ UNCHANGED <<flow, validated>>

\* The first create is refused for the platform's cap.
CreateCapped(w) ==
    \E o \in Op :
        /\ Capped
        /\ job[w].step = "creating"
        /\ Creates(w, o)
        /\ Works(job[w].key)
        /\ Refused(o, PlaneOf(job[w].key))
        /\ job' = [job EXCEPT ![w].step = "freeing", ![w].draft.op = o]
        /\ UNCHANGED <<prov, lock, client, flow, validated>>

\* This store's endpoints, all of them aimed at one URL.
Own(plane) == {e \in Endpoint : endpoint[e].status = "alive" /\ endpoint[e].plane = plane}

Delete(D) ==
    /\ endpoint' = [e \in Endpoint |->
          IF e \in D THEN [endpoint[e] EXCEPT !.status = "deleted"] ELSE endpoint[e]]
    /\ UNCHANGED <<issued, answer>>

\* Deletions are best effort: any of them may fail.
Deletable(k, E) == IF Works(k) THEN {e \in E : e \in Own(PlaneOf(k))} ELSE {}

\* _free_a_slot.
FreeSlot(w) ==
    /\ job[w].step = "freeing"
    /\ LET own == Own(PlaneOf(job[w].key))
       IN  \E D \in SUBSET {e \in Deletable(job[w].key, own) : \A f \in own : e <= f} : Delete(D)
    /\ job' = [job EXCEPT ![w].step = "recreating"]
    /\ UNCHANGED <<prov, lock, client, flow, validated>>

\* _dedupe_endpoints and then, but for Complete setup, decommission of the
\* previous endpoint, with its own key if that is of the other plane.
Cleanup(w) ==
    /\ job[w].step = "cleaning"
    /\ LET before   == job[w].before
           others   == Deletable(job[w].key, Own(PlaneOf(job[w].key)) \ {job[w].draft.endpoint})
           deleter  == IF job[w].kind = "callback" /\ ~SamePlane(w) THEN before.key ELSE job[w].key
           previous == IF job[w].kind = "setup" THEN {} ELSE Deletable(deleter, {before.endpoint})
       IN  \E D \in SUBSET (others \cup previous) : Delete(D)
    /\ job' = [job EXCEPT ![w].step = "finishing"]
    /\ UNCHANGED <<prov, lock, client, flow, validated>>

\* _finish_provisioning; reconfiguring has no such tail.
Finish(w) ==
    /\ job[w].step = "finishing"
    /\ IF job[w].kind = "reconfigure"
       THEN Commit(w, job[w].draft)
       ELSE Commit(w, [job[w].draft EXCEPT !.published = (job[w].plane = "live"),
                                           !.step = None, !.error = FALSE])
    /\ UNCHANGED <<flow, platform, validated>>

-----------------------------------------------------------------------------
(* Disconnecting, without the lock, and the provider form.                  *)

DisconnectStart(w) ==
    /\ job[w] = Idle
    /\ \E D \in SUBSET Deletable(prov.key, {prov.endpoint}) : Delete(D)
    /\ job' = [job EXCEPT ![w] = Request("disconnect", "clearing", None, 0)]
    /\ UNCHANGED <<prov, lock, client, flow, validated>>

DisconnectClear_KeepsSnapshot(w) ==
    /\ job[w].step = "clearing"
    /\ Commit(w, [Blank EXCEPT !.endpoint = prov.endpoint, !.op = prov.op])
    /\ UNCHANGED <<flow, platform, validated>>

DisconnectClear(w) ==
    /\ job[w].step = "clearing"
    /\ Commit(w, Blank)
    /\ UNCHANGED <<flow, platform, validated>>

\* The merchant saves the form: the constraint decides.
SaveForm(state, published) ==
    /\ lock = None
    /\ prov' = [prov EXCEPT !.state = state, !.published = published]
    /\ StateFits(prov')
    /\ UNCHANGED <<lock, client, flow, job, platform, validated>>

-----------------------------------------------------------------------------

Connecting(w) ==
    \/ \E plane \in Plane : Start(w, plane)
    \/ Callback(w) \/ CallbackRefused(w)
    \/ Exchange(w) \/ ExchangeFails(w) \/ RecordError(w)

Provisioning(w) ==
    \/ LockProvider(w) \/ LockRefused(w)
    \/ AccountUnread(w) \/ AccountRefused(w) \/ AccountAccepted(w)
    \/ CreateAnswered(w) \/ CreateFails(w) \/ CreateCapped(w)
    \/ FreeSlot(w) \/ Cleanup(w) \/ Finish(w)

Next ==
    \/ \E w \in Worker :
          \/ Connecting(w) \/ Provisioning(w)
          \/ CompleteSetup(w) \/ ReconfigureWebhook(w)
          \/ DisconnectStart(w) \/ DisconnectClear(w)
          \/ Crash(w)
    \/ \E state \in {"disabled", "test", "enabled"}, published \in BOOLEAN :
          SaveForm(state, published)

Spec == Init /\ [][Next]_vars

-----------------------------------------------------------------------------
(* Properties.                                                              *)

TypeOK ==
    /\ prov \in Record
    /\ lock \in Worker \cup {None}
    /\ client \in [id : 0..MaxClient, completed : BOOLEAN]
    /\ flow \in [Worker -> [plane : Plane, client : 1..MaxClient] \cup {None}]
    /\ job \in [Worker -> Job]
    /\ issued \in [Key -> [status : {"none", "active", "retired"}, plane : Plane,
                           client : 0..MaxClient]]
    /\ endpoint \in [Endpoint -> [status : {"none", "alive", "deleted"}, plane : Plane]]
    /\ answer \in [Op -> [Plane -> Endpoint \cup {None, Rejected}]]
    /\ validated \subseteq Key

\* _check_xpay_state_matches_connection, of whatever a request commits.
StateFitsKey == StateFits(prov)

\* ensure_endpoint stores the secret and the id of one endpoint, whatever was
\* restored, retried or rolled back since.
SecretOfEndpoint == prov.secret = prov.endpoint

\* _xpay_require_setup_complete lets money move only with a key whose account
\* was read and found sufficient, and with a webhook endpoint of its plane.
GateMeansSetUp ==
    prov.key # None /\ prov.step = None =>
        /\ prov.key \in validated
        /\ prov.endpoint # None
        /\ endpoint[prov.endpoint].plane = PlaneOf(prov.key)

SameConnection(a, b) ==
    [a EXCEPT !.op = None, !.error = FALSE] = [b EXCEPT !.op = None, !.error = FALSE]

\* complete: a consent that ends with an error leaves the connection, the
\* flag of an unfinished setup included, as it was.
FailureKeepsConnection ==
    [][prov'.error /\ ~prov.error => SameConnection(prov, prov')]_vars

Settled == lock = None /\ \A w \in Worker : job[w].step \notin {"clearing", "locking", "failing"}

\* Where no request dies and the cap is not reached, the endpoint on record
\* is one the platform delivers to: it is never a replayed answer about the
\* endpoint that is being replaced.
EndpointAlive ==
    Settled /\ prov.endpoint # None => endpoint[prov.endpoint].status = "alive"

\* With one administrator at a time, and an exchange that is always answered,
\* the stored key works: on the same plane it is stored whatever fails after
\* the exchange.
KeyWorks == Settled /\ prov.key # None => Works(prov.key)

-----------------------------------------------------------------------------
(* The inductive invariant.                                                 *)

Locked(w) ==
    job[w].step \in {"account", "creating", "freeing", "recreating", "cleaning", "finishing"}

LockInv == \A w \in Worker : Locked(w) <=> lock = w

\* Keys and endpoints on record exist, and so do those a request holds.
KnownKey(k) == k \in Key /\ issued[k].status # "none"
KnownEndpoint(e, plane) ==
    e \in Endpoint /\ endpoint[e].status # "none" /\ endpoint[e].plane = plane

ProvInv ==
    /\ prov.key # None => KnownKey(prov.key)
    /\ prov.endpoint # None => endpoint[prov.endpoint].status # "none"

AnswerInv == \A o \in Op, p \in Plane : answer[o][p] \in Endpoint => KnownEndpoint(answer[o][p], p)

\* Once a consent has its key, the key is of the plane that was asked for.
ConsentOk(w) ==
    /\ job[w].step = "exchanging" => job[w].plane \in Plane
    /\ job[w].step \notin {"idle", "exchanging", "failing"} /\ job[w].kind = "callback" =>
          KnownKey(job[w].key) /\ job[w].plane = PlaneOf(job[w].key)

\* What a draft changes of the committed record, which nobody else writes.
WithoutEndpoint(rec) == [rec EXCEPT !.op = None, !.secret = None, !.endpoint = None]

Intended(w) ==
    IF job[w].kind = "callback" /\ (SamePlane(w) \/ job[w].step # "account")
    THEN WithKey(prov, job[w].key, job[w].plane)
    ELSE prov

DraftOk(w) ==
    Locked(w) =>
        LET j == job[w] IN
        /\ KnownKey(j.key)
        /\ j.before = prov
        /\ j.kind # "callback" => j.key = prov.key
        /\ WithoutEndpoint(j.draft) = WithoutEndpoint(Intended(w))
        /\ IF j.step \in {"cleaning", "finishing"}
           THEN j.draft.secret = j.draft.endpoint /\ KnownEndpoint(j.draft.endpoint, PlaneOf(j.key))
           ELSE j.draft.secret = prov.secret /\ j.draft.endpoint = prov.endpoint
        /\ j.step # "account" => j.kind = "reconfigure" \/ j.key \in validated
        /\ j.step = "account" => j.kind # "reconfigure"

RequestInv == \A w \in Worker : ConsentOk(w) /\ DraftOk(w)

IInv ==
    /\ TypeOK
    /\ LockInv /\ ProvInv /\ AnswerInv /\ RequestInv
    /\ StateFitsKey /\ SecretOfEndpoint /\ GateMeansSetUp

=============================================================================
