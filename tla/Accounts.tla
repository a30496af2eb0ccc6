------------------------------ MODULE Accounts ------------------------------
(*****************************************************************************)
(* Social accounts (apps/platforms) and the encrypted token store            *)
(* (integrations/platforms/encrypted_token_store.py): authorization and      *)
(* its callback, the choice of an account, hand-made changes, probing,       *)
(* refreshing, disconnecting and the rotation of the encryption key.         *)
(*                                                                           *)
(* A reference of the token store is the number of its row; 0 is a secret    *)
(* reference typed by a user, which names no row.  A credential is the       *)
(* number of its row; 0 is no credential.  Of a time only what the code      *)
(* tests is kept: a token is fresh, due (at most 15 minutes left) or         *)
(* expired.  Web requests are cut where they commit.                         *)
(*****************************************************************************)
EXTENDS Naturals, Sequences, FiniteSets

CONSTANTS Accounts,    \* accounts of one platform, by external id
          Attempts,    \* authorization attempts; each yields one session
          Requests,    \* confirmation requests
          MaxRefs,     \* bound on the rows of the token store
          MaxCreds,    \* bound on the credential rows
          MaxEdits,    \* bound on the changes users make by hand
          KeyRotation  \* whether the operator rotates the encryption key

ASSUME AccountsAssumption ==
    /\ MaxRefs \in Nat /\ MaxCreds \in Nat /\ MaxEdits \in Nat /\ KeyRotation \in BOOLEAN
    /\ 0 \notin Accounts

VARIABLES attempt,   \* OAuthConnectionAttempt rows
          callback,  \* a callback between its transactions
          session,   \* AccountConnectionSession rows
          token,     \* EncryptedOAuthCredential rows
          cred,      \* ConnectorCredential rows
          account,   \* SocialAccount rows
          confirm,   \* a confirmation between its transactions
          patch,     \* an account PATCH that has read its row and not saved it
          sweep,     \* refresh_due_credentials between its transactions
          rotation,  \* rotate_social_oauth_keys between its transactions
          serverKey, \* the key version the web processes and workers run with
          lost,      \* history: references whose process died, or that were typed over
          reused,    \* history: <<account, credential>> that a PATCH attached, or saved
                     \* back over a newer row
          severed,   \* history: <<account, credential>> of the accounts disconnected
          edits      \* how many changes users made by hand

accountVars == <<attempt, callback, session, token, cred, account, confirm, patch,
                 sweep, rotation, serverKey, lost, reused, severed, edits>>

---------------------------------------------------------------------------
(* Rows.  Definitions named *_mut are plausible mistakes in the definition   *)
(* that follows them; the specification uses none of them.                   *)

Lives == {"fresh", "due", "expired"}
Modes == {"API_AUTO", "API_CONFIRM", "MANUAL"}
Connections == {"CONFIGURATION_REQUIRED", "CONNECTED", "REAUTHORIZATION_REQUIRED",
                "PROVIDER_UNAVAILABLE", "DISCONNECTED"}
TokenRow == [status: {"ACTIVE", "ROTATED", "DISCONNECTED"}, kind: {"bundle", "token"},
             from: Attempts, life: Lives, key: {0, 1}]
CredentialRow == [ref: 0..MaxRefs, life: Lives]
AccountRow == [cred: 0..MaxCreds, mode: Modes \cup {"NONE"}, active: BOOLEAN,
               conn: Connections, official: BOOLEAN]
SessionRow == [ref: 1..MaxRefs, expired: BOOLEAN, offers: SUBSET Accounts,
               chosen: Accounts \cup {0}]
NoSession == [ref |-> 0, expired |-> TRUE, offers |-> {}, chosen |-> 0]
NoAccount == [cred |-> 0, mode |-> "NONE", active |-> FALSE,
              conn |-> "CONFIGURATION_REQUIRED", official |-> FALSE]
Exists(a) == account[a] # NoAccount
Idle == [step |-> "idle"]

(* The store decrypts an active, unexpired row of its own key version. *)
Resolves(r) ==
    /\ r \in 1..Len(token)
    /\ token[r].status = "ACTIVE" /\ token[r].key = serverKey /\ token[r].life # "expired"

Reference(a) == IF account[a].cred = 0 THEN 0 ELSE cred[account[a].cred].ref

NewToken(kind, from, life) ==
    [status |-> "ACTIVE", kind |-> kind, from |-> from, life |-> life, key |-> serverKey]
Retired_mut(tokens, r, status) == tokens
Retired(tokens, r, status) == [tokens EXCEPT ![r].status = status]

(* What the connection list shows of an account. *)
Shown(a) ==
    LET row == account[a] IN
    IF ~row.active THEN "NOT_CONNECTED"
    ELSE IF row.conn \in {"REAUTHORIZATION_REQUIRED", "PROVIDER_UNAVAILABLE"} THEN row.conn
    ELSE IF ~row.official \/ row.mode = "MANUAL" \/ row.cred = 0
    THEN "CONFIGURATION_REQUIRED"
    ELSE IF cred[row.cred].life = "expired" THEN "REAUTHORIZATION_REQUIRED"
    ELSE "CONNECTED"

AccountsInit ==
    /\ attempt = [t \in Attempts |-> "none"]
    /\ callback = [t \in Attempts |-> Idle]
    /\ session = [t \in Attempts |-> NoSession]
    /\ token = <<>> /\ cred = <<>>
    /\ account = [a \in Accounts |-> NoAccount]
    /\ confirm = [q \in Requests |-> Idle]
    /\ patch = Idle /\ sweep = Idle
    /\ rotation = [step |-> "idle", list |-> {}] /\ serverKey = 0
    /\ lost = {} /\ reused = {} /\ severed = {} /\ edits = 0

---------------------------------------------------------------------------
(* Authorization: an attempt is used once, by one callback. *)

others == <<patch, sweep, rotation, serverKey, reused, severed, edits>>

Authorize(t) ==
    /\ attempt[t] = "none"
    /\ attempt' = [attempt EXCEPT ![t] = "open"]
    /\ UNCHANGED <<callback, session, token, cred, account, confirm, lost, others>>

AttemptExpires(t) ==
    /\ attempt[t] = "open"
    /\ attempt' = [attempt EXCEPT ![t] = "expired"]
    /\ UNCHANGED <<callback, session, token, cred, account, confirm, lost, others>>

(* The platform sends the user back; a refusal ends the callback here. *)
ConsumeAttempt(t) ==
    /\ attempt[t] = "open"
    /\ attempt' = [attempt EXCEPT ![t] = "consumed"]
    /\ \E next \in {Idle, [step |-> "exchanging"]} : callback' = [callback EXCEPT ![t] = next]
    /\ UNCHANGED <<session, token, cred, account, confirm, lost, others>>

(* The code is exchanged and the managed accounts are listed: any of them,   *)
(* or a classified error that the redirect reports.                          *)
Offers == (SUBSET Accounts) \ {{}}

StoreBundle_mut(t) ==
    /\ callback[t].step = "exchanging" /\ Len(token) < MaxRefs
    /\ \E offers \in Offers :
          callback' = [callback EXCEPT ![t] =
                          [step |-> "stored", ref |-> Len(token) + 1, offers |-> offers]]
    /\ UNCHANGED <<attempt, session, token, cred, account, confirm, lost, others>>
StoreBundle(t) ==
    /\ callback[t].step = "exchanging" /\ Len(token) < MaxRefs
    /\ token' = Append(token, NewToken("bundle", t, "fresh"))
    /\ \E offers \in Offers :
          callback' = [callback EXCEPT ![t] =
                          [step |-> "stored", ref |-> Len(token'), offers |-> offers]]
    /\ UNCHANGED <<attempt, session, cred, account, confirm, lost, others>>

ExchangeFails(t) ==
    /\ callback[t].step = "exchanging"
    /\ callback' = [callback EXCEPT ![t] = Idle]
    /\ UNCHANGED <<attempt, session, token, cred, account, confirm, lost, others>>

CreateSession(t) ==
    /\ callback[t].step = "stored"
    /\ session' = [session EXCEPT ![t] = [ref |-> callback[t].ref, expired |-> FALSE,
                                          offers |-> callback[t].offers, chosen |-> 0]]
    /\ callback' = [callback EXCEPT ![t] = Idle]
    /\ UNCHANGED <<attempt, token, cred, account, confirm, lost, others>>

(* A list of accounts the session does not accept: the bundle is deleted.  *)
RejectSession(t) ==
    /\ callback[t].step = "stored"
    /\ token' = Retired(token, callback[t].ref, "DISCONNECTED")
    /\ callback' = [callback EXCEPT ![t] = Idle]
    /\ UNCHANGED <<attempt, session, cred, account, confirm, lost, others>>

CallbackDies(t) ==
    /\ callback[t] # Idle
    /\ lost' = lost \cup (IF callback[t].step = "stored" THEN {callback[t].ref} ELSE {})
    /\ callback' = [callback EXCEPT ![t] = Idle]
    /\ UNCHANGED <<attempt, session, token, cred, account, confirm, others>>

SessionExpires(t) ==
    /\ session[t] # NoSession /\ ~session[t].expired
    /\ session' = [session EXCEPT ![t].expired = TRUE]
    /\ UNCHANGED <<attempt, callback, token, cred, account, confirm, lost, others>>

---------------------------------------------------------------------------
(* Confirmation: the view reads the session without a lock, binds the        *)
(* chosen account's token in one transaction and confirms in another.        *)

ReadSession(q, t, a) ==
    /\ confirm[q] = Idle
    /\ session[t] # NoSession /\ a \in session[t].offers
    /\ confirm' = [confirm EXCEPT ![q] =
          [step |-> IF session[t].chosen = 0 THEN "unbound" ELSE "seen",
           of |-> t, pick |-> a, ref |-> session[t].ref]]
    /\ UNCHANGED <<attempt, callback, session, token, cred, account, lost, others>>

Bindable(r) == Resolves(r) /\ token[r].kind = "bundle"

Bind(q) ==
    /\ confirm[q].step = "unbound" /\ Bindable(confirm[q].ref) /\ Len(token) < MaxRefs
    /\ token' = Append(Retired(token, confirm[q].ref, "ROTATED"),
                       NewToken("token", confirm[q].of, token[confirm[q].ref].life))
    /\ confirm' = [confirm EXCEPT ![q].step = "bound", ![q].ref = Len(token')]
    /\ UNCHANGED <<attempt, callback, session, cred, account, lost, others>>

BindRefused(q) ==
    /\ confirm[q].step = "unbound" /\ ~Bindable(confirm[q].ref)
    /\ confirm' = [confirm EXCEPT ![q] = Idle]
    /\ UNCHANGED <<attempt, callback, session, token, cred, account, lost, others>>

(* confirm_connection_session under the session's lock: expiry first, then   *)
(* a session that was already confirmed.                                     *)
SessionAccepts(t, a) ==
    ~session[t].expired /\ (session[t].chosen = 0 \/ session[t].chosen = a)

ConnectedRow(c) ==
    [cred |-> c, mode |-> "API_CONFIRM", active |-> TRUE, conn |-> "CONNECTED",
     official |-> TRUE]

ConfirmSession(q) ==
    LET t == confirm[q].of  a == confirm[q].pick IN
    /\ confirm[q].step \in {"bound", "seen"} /\ SessionAccepts(t, a)
    /\ IF session[t].chosen = 0
       THEN /\ Len(cred) < MaxCreds
            /\ cred' = Append(cred, [ref |-> confirm[q].ref,
                                     life |-> token[confirm[q].ref].life])
            /\ account' = [account EXCEPT ![a] = ConnectedRow(Len(cred'))]
            /\ session' = [session EXCEPT ![t].chosen = a]
       ELSE UNCHANGED <<cred, account, session>>
    /\ confirm' = [confirm EXCEPT ![q] = Idle]
    /\ UNCHANGED <<attempt, callback, token, lost, others>>

ConfirmRejected(q) ==
    /\ confirm[q].step \in {"bound", "seen"}
    /\ ~SessionAccepts(confirm[q].of, confirm[q].pick)
    /\ token' = IF confirm[q].step = "bound"
                THEN Retired(token, confirm[q].ref, "DISCONNECTED") ELSE token
    /\ confirm' = [confirm EXCEPT ![q] = Idle]
    /\ UNCHANGED <<attempt, callback, session, cred, account, lost, others>>

ConfirmDies(q) ==
    /\ confirm[q] # Idle
    /\ lost' = lost \cup (IF confirm[q].step = "bound" THEN {confirm[q].ref} ELSE {})
    /\ confirm' = [confirm EXCEPT ![q] = Idle]
    /\ UNCHANGED <<attempt, callback, session, token, cred, account, others>>

---------------------------------------------------------------------------
(* Changes made by hand.  A PATCH of an account reads the row, applies its   *)
(* fields and later saves the whole row, as the serializer does.             *)

byHand == <<attempt, callback, session, confirm, sweep, rotation, serverKey, severed>>

(* API_AUTO needs a credential that may publish; every credential here has   *)
(* that scope.                                                               *)
ModeAllowed(row) == row.mode = "API_AUTO" => row.cred # 0

ByHand(c, mode, active) ==
    [cred |-> c, mode |-> mode, active |-> active, conn |-> "CONFIGURATION_REQUIRED",
     official |-> FALSE]

(* The connection form makes a credential of its own for API_AUTO. *)
CreateAccount(a) ==
    /\ ~Exists(a) /\ edits < MaxEdits
    /\ \E mode \in {"API_AUTO", "MANUAL"}, active \in BOOLEAN :
          /\ mode = "API_AUTO" => Len(cred) < MaxCreds
          /\ cred' = IF mode = "API_AUTO"
                     THEN Append(cred, [ref |-> 0, life |-> "fresh"]) ELSE cred
          /\ account' = [account EXCEPT
                ![a] = ByHand(IF mode = "API_AUTO" THEN Len(cred') ELSE 0, mode, active)]
    /\ edits' = edits + 1
    /\ UNCHANGED <<token, patch, lost, reused, byHand>>

(* A POST of an account takes any credential of the platform, that of another *)
(* account included, and a POST of a credential a reference typed by hand: no *)
(* API shows one, so it names no row of the token store.                      *)
PostAccount(a) ==
    /\ ~Exists(a) /\ edits < MaxEdits
    /\ \E c \in 0..Len(cred), mode \in Modes, active \in BOOLEAN :
          /\ ModeAllowed(ByHand(c, mode, active))
          /\ account' = [account EXCEPT ![a] = ByHand(c, mode, active)]
    /\ edits' = edits + 1
    /\ UNCHANGED <<token, cred, patch, lost, reused, byHand>>

PostCredential ==
    /\ Len(cred) < MaxCreds /\ edits < MaxEdits
    /\ cred' = Append(cred, [ref |-> 0, life |-> "fresh"])
    /\ edits' = edits + 1
    /\ UNCHANGED <<token, account, patch, lost, reused, byHand>>

Patched(row) ==
    {[row EXCEPT !.active = b] : b \in BOOLEAN} \cup {[row EXCEPT !.mode = m] : m \in Modes}
    \cup {[row EXCEPT !.cred = c] : c \in 0..Len(cred)}

PatchReads(a) ==
    /\ patch = Idle /\ Exists(a) /\ edits < MaxEdits
    /\ \E row \in Patched(account[a]) :
          /\ ModeAllowed(row)
          /\ patch' = [step |-> "read", of |-> a, row |-> row, seen |-> account[a]]
    /\ edits' = edits + 1
    /\ UNCHANGED <<token, cred, account, lost, reused, byHand>>

PatchSaves ==
    /\ patch # Idle
    /\ account' = [account EXCEPT ![patch.of] = patch.row]
    /\ reused' = IF account[patch.of] # patch.seen \/ patch.row.cred # patch.seen.cred
                 THEN reused \cup {<<patch.of, patch.row.cred>>} ELSE reused
    /\ patch' = Idle
    /\ UNCHANGED <<token, cred, edits, lost, byHand>>

(* A PATCH of a credential saves the fields it was given. *)
PatchCredential(c) ==
    /\ edits < MaxEdits
    /\ \E next \in {[cred[c] EXCEPT !.ref = 0], [cred[c] EXCEPT !.life = "fresh"]} :
          /\ cred' = [cred EXCEPT ![c] = next]
          /\ lost' = lost \cup ({cred[c].ref} \ {next.ref})
    /\ edits' = edits + 1
    /\ UNCHANGED <<token, account, patch, reused, byHand>>

---------------------------------------------------------------------------
(* The life of a connection *)

held == <<attempt, callback, session, confirm, patch, rotation, serverKey, lost, reused, edits>>
quiet == <<held, severed>>

(* A failed probe leaves no trace: what it saves is rolled back. *)
Probe(a) ==
    /\ account[a].official /\ account[a].cred # 0 /\ Resolves(Reference(a))
    /\ account' = [account EXCEPT ![a].conn = "CONNECTED"]
    /\ UNCHANGED <<token, cred, sweep, quiet>>

StartReauthorization(a) ==
    /\ account[a].official
    /\ account' = [account EXCEPT ![a].conn = "REAUTHORIZATION_REQUIRED"]
    /\ UNCHANGED <<token, cred, sweep, quiet>>

(* Revoking at the platform may fail; the row is deleted if there is one,    *)
(* whoever else holds the credential.                                        *)
Disconnect_mut(a) ==
    /\ Exists(a)
    /\ token' = IF Reference(a) # 0 THEN Retired(token, Reference(a), "DISCONNECTED") ELSE token
    /\ severed' = severed \cup {<<a, account[a].cred>>}
    /\ UNCHANGED <<cred, account, sweep, held>>
Disconnect(a) ==
    /\ Exists(a)
    /\ token' = IF Reference(a) # 0 THEN Retired(token, Reference(a), "DISCONNECTED") ELSE token
    /\ account' = [account EXCEPT ![a].active = FALSE, ![a].conn = "DISCONNECTED"]
    /\ severed' = severed \cup {<<a, account[a].cred>>}
    /\ UNCHANGED <<cred, sweep, held>>

(* refresh_due_credentials lists the due accounts, then takes them one by    *)
(* one.  An error is recorded after the account's lock was given up.         *)
RefreshDue(a) ==
    /\ account[a].active /\ account[a].official
    /\ account[a].cred # 0 /\ cred[account[a].cred].life = "due"

SweepLists ==
    /\ sweep = Idle
    /\ {a \in Accounts : RefreshDue(a)} # {}
    /\ sweep' = [step |-> "next", left |-> {a \in Accounts : RefreshDue(a)}]
    /\ UNCHANGED <<token, cred, account, quiet>>

Continue(a) ==
    sweep' = IF sweep.left = {a} THEN Idle
             ELSE [step |-> "next", left |-> sweep.left \ {a}]

SweepTakes(a) == sweep.step = "next" /\ a \in sweep.left

SweepSkips(a) ==
    /\ SweepTakes(a) /\ account[a].cred # 0 /\ cred[account[a].cred].life = "fresh"
    /\ Continue(a)
    /\ UNCHANGED <<token, cred, account, quiet>>

SweepRefreshes(a) ==
    LET c == account[a].cred IN
    /\ SweepTakes(a) /\ c # 0 /\ cred[c].life # "fresh" /\ Resolves(cred[c].ref)
    /\ Len(token) < MaxRefs
    /\ token' = Append(Retired(token, cred[c].ref, "ROTATED"),
                       NewToken("token", token[cred[c].ref].from, "fresh"))
    /\ cred' = [cred EXCEPT ![c] = [ref |-> Len(token'), life |-> "fresh"]]
    /\ account' = [account EXCEPT ![a].conn = "CONNECTED"]
    /\ Continue(a)
    /\ UNCHANGED quiet

(* No adapter, a grant the platform refuses, a token that does not resolve *)
SweepFails(a) ==
    LET c == account[a].cred IN
    /\ SweepTakes(a) /\ c # 0 /\ cred[c].life # "fresh"
    /\ \E conn \in IF Resolves(cred[c].ref)
                   THEN {"REAUTHORIZATION_REQUIRED", "PROVIDER_UNAVAILABLE"}
                   ELSE {"CONFIGURATION_REQUIRED", "PROVIDER_UNAVAILABLE"} :
          sweep' = [step |-> "failed", of |-> a, conn |-> conn, left |-> sweep.left]
    /\ UNCHANGED <<token, cred, account, quiet>>

SweepCondemns ==
    /\ sweep.step = "failed"
    /\ account' = [account EXCEPT ![sweep.of].conn = sweep.conn]
    /\ Continue(sweep.of)
    /\ UNCHANGED <<token, cred, quiet>>

(* An account that lost its credential meanwhile, or a worker that dies.   *)
SweepEnds ==
    /\ sweep # Idle
    /\ sweep' = Idle
    /\ UNCHANGED <<token, cred, account, quiet>>

TokenAges(r) ==
    /\ token[r].status = "ACTIVE" /\ token[r].life # "expired"
    /\ LET older == IF token[r].life = "fresh" THEN "due" ELSE "expired" IN
       /\ token' = [token EXCEPT ![r].life = older]
       /\ cred' = [c \in DOMAIN cred |->
             IF cred[c] = [ref |-> r, life |-> token[r].life]
             THEN [cred[c] EXCEPT !.life = older] ELSE cred[c]]
    /\ UNCHANGED <<account, sweep, quiet>>

---------------------------------------------------------------------------
(* Rotation of the encryption key: rows of the old version are listed and    *)
(* re-encrypted one transaction each.  A row that is no longer active, or    *)
(* that expired, ends the command.                                           *)

ToRotate == {r \in 1..Len(token) : token[r].status = "ACTIVE" /\ token[r].key = 0}
steady == <<attempt, callback, session, cred, account, confirm, patch, sweep, lost, reused,
            severed, edits>>

ListKeys ==
    /\ KeyRotation /\ serverKey = 0 /\ rotation.list = {} /\ rotation.step \in {"idle", "running"}
    /\ rotation' = [step |-> IF ToRotate = {} THEN "done" ELSE "running", list |-> ToRotate]
    /\ UNCHANGED <<token, serverKey, steady>>

Rotatable(r) == r \in ToRotate /\ token[r].life # "expired"

RotateKey(r) ==
    /\ rotation.step = "running" /\ r \in rotation.list
    /\ IF Rotatable(r)
       THEN /\ token' = [token EXCEPT ![r].key = 1]
            /\ rotation' = [rotation EXCEPT !.list = @ \ {r}]
       ELSE rotation' = [step |-> "failed", list |-> {}] /\ UNCHANGED token
    /\ UNCHANGED <<serverKey, steady>>

(* The processes restart with the new version, whatever the command did.   *)
Redeploy ==
    /\ rotation.step \in {"done", "failed"} /\ serverKey = 0
    /\ serverKey' = 1
    /\ UNCHANGED <<token, rotation, steady>>

---------------------------------------------------------------------------
AuthorizationStep ==
    \E t \in Attempts :
       Authorize(t) \/ AttemptExpires(t) \/ ConsumeAttempt(t) \/ StoreBundle(t) \/ ExchangeFails(t)
       \/ CreateSession(t) \/ RejectSession(t) \/ CallbackDies(t) \/ SessionExpires(t)

ConfirmStep ==
    \E q \in Requests :
       Bind(q) \/ BindRefused(q) \/ ConfirmSession(q) \/ ConfirmRejected(q) \/ ConfirmDies(q)
       \/ \E t \in Attempts, a \in Accounts : ReadSession(q, t, a)

HandStep ==
    \/ \E a \in Accounts : CreateAccount(a) \/ PostAccount(a) \/ PatchReads(a)
    \/ PatchSaves \/ PostCredential
    \/ \E c \in DOMAIN cred : PatchCredential(c)

LifecycleStep ==
    \/ \E a \in Accounts : Probe(a) \/ StartReauthorization(a) \/ Disconnect(a) \/ SweepSkips(a)
                           \/ SweepRefreshes(a) \/ SweepFails(a)
    \/ SweepLists \/ SweepCondemns \/ SweepEnds
    \/ \E r \in DOMAIN token : TokenAges(r) \/ RotateKey(r)
    \/ ListKeys \/ Redeploy

AccountsNext == AuthorizationStep \/ ConfirmStep \/ HandStep \/ LifecycleStep

AccountsSpec == AccountsInit /\ [][AccountsNext]_accountVars

---------------------------------------------------------------------------
(* Properties *)

(* The types, and what the rows owe one another: a session was offered a     *)
(* choice and names a row of the store; an account's credential exists; an   *)
(* official account has been confirmed by a session.                         *)
AccountsTypeOK ==
    /\ attempt \in [Attempts -> {"none", "open", "consumed", "expired"}]
    /\ session \in [Attempts -> SessionRow \cup {NoSession}]
    /\ token \in Seq(TokenRow) /\ Len(token) <= MaxRefs
    /\ cred \in Seq(CredentialRow) /\ Len(cred) <= MaxCreds
    /\ account \in [Accounts -> AccountRow]
    /\ \A t \in Attempts : session[t] # NoSession => session[t].ref <= Len(token)
    /\ \A a \in Accounts : account[a].cred <= Len(cred)
    /\ serverKey \in {0, 1} /\ edits \in 0..MaxEdits

(* However many callbacks, confirmations, refreshes and crashes race, one    *)
(* authorization never leaves two usable tokens: binding and replacing       *)
(* retire the row they start from, in the transaction that makes the next.   *)
(* And a usable token is not forgotten: a session, a credential or a         *)
(* request under way names it, unless its process died holding it or a       *)
(* user typed another reference over it.                                     *)
Live == {r \in DOMAIN token : token[r].status = "ACTIVE"}
Held(r) ==
    \/ \E t \in Attempts : session[t].ref = r
    \/ \E t \in Attempts : callback[t].step = "stored" /\ callback[t].ref = r
    \/ \E q \in Requests : confirm[q].step = "bound" /\ confirm[q].ref = r
    \/ \E c \in DOMAIN cred : cred[c].ref = r

TokensAreAccounted ==
    /\ \A r1, r2 \in Live : token[r1].from = token[r2].from => r1 = r2
    /\ \A r \in Live : Held(r) \/ r \in lost

(* An official account listed as CONNECTED has a token that resolves.  The   *)
(* exceptions: another account with the same credential was disconnected,    *)
(* which deletes the token both use and changes only the other's row; a      *)
(* credential that a PATCH attached to this account, or saved back over a    *)
(* newer row; a rotated key; a secret or an expiry typed by hand; a sweep    *)
(* that found the token gone, whose verdict the list ignores; and an account *)
(* switched on again after it was disconnected itself.                       *)
SeveredElsewhere(a) ==
    \E b \in Accounts \ {a} : <<b, account[a].cred>> \in severed

ShownConnectedWorks ==
    \A a \in Accounts :
       Shown(a) = "CONNECTED" /\ ~Resolves(Reference(a)) =>
          \/ SeveredElsewhere(a)
          \/ <<a, account[a].cred>> \in reused
          \/ Reference(a) = 0
          \/ token[Reference(a)].key # serverKey
          \/ token[Reference(a)].life # cred[account[a].cred].life
          \/ account[a].conn \in {"CONFIGURATION_REQUIRED", "DISCONNECTED"}

=============================================================================
