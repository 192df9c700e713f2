------------------------------ MODULE Settings ------------------------------
(***************************************************************************)
(* The secrets of one tenant: the row of tenant_secrets, the scripts and   *)
(* the API call that write it, the workers that read it, and the settings  *)
(* page of the portal, whose requests go through its proxy to the API.     *)
(*                                                                         *)
(* The row keeps two ciphertexts but one nonce and one version; the API    *)
(* writes only one of the ciphertexts.  The master key is read from the    *)
(* environment of each process, so a staged deploy changes it in one       *)
(* process after the other.                                                *)
(***************************************************************************)
EXTENDS Naturals, FiniteSets

CONSTANTS
    Key,          \* values of TENANT_SECRET_KEY
    Null,         \* SQL NULL, and no usable TENANT_SECRET_KEY
    Failure,      \* the outcome of a call that throws
    Request,      \* the requests one page can have open at the same time
    MaxSaves,     \* how many tokens are sent to the API
    MaxDeploys    \* how many processes are restarted with another key

ASSUME SettingsAssumption ==
    /\ Null \notin Key
    /\ MaxSaves \in Nat
    /\ MaxDeploys \in Nat

Process == {"api", "worker"}
MaybeKey == Key \cup {Null}
Nonce == 1..MaxSaves + 2

(***************************************************************************)
(* A text as the database or a caller has it: the secret as it is, or what *)
(* the cipher made of it under a key and a nonce.  What the secret is does *)
(* not matter.                                                             *)
(***************************************************************************)
Plain == [key |-> Null, nonce |-> 0]
Sealed(k, n) == [key |-> k, nonce |-> n]
Text == [key : MaybeKey, nonce : Nat]
Secrets == [ghl : Text \cup {Null}, pdp : Text \cup {Null}]

\* NULL is no text, and a call that throws returns nothing.
ASSUME TextAssumption ==
    /\ Null \notin Text
    /\ Failure \notin Text \cup {Null}
    /\ Failure \notin Secrets

\* enc_nonce is "" without a master key.
encryptSecret(k, n) ==
    IF k = Null THEN [text |-> Plain, nonce |-> 0, version |-> 0]
                ELSE [text |-> Sealed(k, n), nonce |-> n, version |-> 1]

\* Version 0 returns the text as it is.  A wrong key, a wrong nonce, or a text
\* that is no ciphertext fails the check of the authentication tag.
decryptSecret(text, nonce, version, k) ==
    CASE text = Null                             -> Null
      [] text # Null /\ version = 0              -> text
      [] text # Null /\ version = 1 /\ k # Null
           /\ text.key = k /\ text.nonce = nonce -> Plain
      [] OTHER                                   -> Failure

VARIABLES
    tenant,      \* who made the tenant: "create-tenant" or "seed"
    row,         \* the tenant's row of tenant_secrets; all Null and 0 if none
    nonces,      \* random nonces drawn so far; each is new
    key,         \* key[p]: TENANT_SECRET_KEY of process p
    deploys,     \* restarts with another key so far
    entered,     \* the tenant API token in the page's form: "" or "right", where
                 \* one that the API refuses counts as none
    remembered,  \* the same in the browser's localStorage
    shown,       \* what the page says of the PDP token
    status,      \* the page's status line: "loading", "loaded", "saved" or "other"
    open,        \* open[r]: a request of the page and its answer
    confirmed,   \* has the page received the answer to a successful save, and
    overtaken    \* was an older answer "not set" still under way then?

rowVars == <<tenant, row, nonces>>
keyVars == <<key, deploys>>
formVars == <<entered, remembered>>
pageVars == <<entered, remembered, shown, status, open, confirmed, overtaken>>
vars == <<tenant, row, nonces, key, deploys, entered, remembered, shown, status,
          open, confirmed, overtaken>>

\* getTenantSecrets, called by process p: one failure fails the call.
getTenantSecrets(p) ==
    LET read(text) == decryptSecret(text, row.nonce, row.version, key[p])
    IN IF Failure \in {read(row.ghl), read(row.pdp)} THEN Failure
       ELSE [ghl |-> read(row.ghl), pdp |-> read(row.pdp)]

-----------------------------------------------------------------------------
Closed == [kind |-> "none", right |-> FALSE, reply |-> "none"]

EmptyRow == [ghl |-> Null, pdp |-> Null, nonce |-> 0, version |-> 0]

\* Mutant: both secrets are sealed with one nonce.
seedDemoTenantOneNonce(k) ==
    LET ghl == encryptSecret(k, 1)
        pdp == encryptSecret(k, 1)
    IN [ghl |-> ghl.text, pdp |-> pdp.text, nonce |-> ghl.nonce, version |-> ghl.version]

\* Both secrets are sealed with nonces of their own, and the first one's is kept.
seedDemoTenant(k) ==
    LET ghl == encryptSecret(k, 1)
        pdp == encryptSecret(k, 2)
    IN [ghl |-> ghl.text, pdp |-> pdp.text, nonce |-> ghl.nonce, version |-> ghl.version]

\* create-tenant.ts writes no secrets.  The scripts load the same environment
\* as the processes.
Init ==
    /\ \E k \in MaybeKey :
          /\ key = [p \in Process |-> k]
          /\ \/ tenant = "create-tenant" /\ row = EmptyRow
             \/ tenant = "seed" /\ row = seedDemoTenant(k)
    /\ nonces = 2
    /\ deploys = 0
    /\ entered = "" /\ remembered = ""
    /\ shown = "unknown"
    /\ status = "other"
    /\ open = [r \in Request |-> Closed]
    /\ confirmed = FALSE /\ overtaken = FALSE

-----------------------------------------------------------------------------
(***************************************************************************)
(* POST /api/v1/settings/pdp, past the checks: INSERT ... ON CONFLICT DO   *)
(* UPDATE of the token, the version and the nonce.                         *)
(***************************************************************************)

\* Mutant: DO UPDATE leaves out enc_version.
StorePdpTokenOldVersion ==
    LET secret == encryptSecret(key["api"], nonces + 1) IN
    /\ nonces' = nonces + 1
    /\ row' = [row EXCEPT !.pdp = secret.text, !.nonce = secret.nonce]

\* Mutant: DO UPDATE leaves out enc_nonce.
StorePdpTokenOldNonce ==
    LET secret == encryptSecret(key["api"], nonces + 1) IN
    /\ nonces' = nonces + 1
    /\ row' = [row EXCEPT !.pdp = secret.text, !.version = secret.version]

StorePdpToken ==
    LET secret == encryptSecret(key["api"], nonces + 1) IN
    /\ nonces' = nonces + 1
    /\ row' = [row EXCEPT !.pdp = secret.text,
                          !.nonce = secret.nonce, !.version = secret.version]

\* requireTenant: the page names its tenant by location, which the seed does not
\* set, and has to send the API token of the tenant.
requireTenant(r) == tenant = "create-tenant" /\ open[r].right

Unserved == {r \in Request : open[r].kind = "save" /\ open[r].reply = "none"}
MaySave == nonces + Cardinality(Unserved) < MaxSaves + 2

\* The API answers; or its answer is lost, by the API or by the proxy, before or
\* after the query took effect.
Reply(r, answer) ==
    \E reply \in {answer, "failed"} : open' = [open EXCEPT ![r].reply = reply]

ServeSave(r) ==
    /\ r \in Unserved
    /\ IF requireTenant(r)
       THEN \/ StorePdpToken /\ Reply(r, "ok")
            \/ Reply(r, "failed") /\ UNCHANGED <<row, nonces>>
       ELSE Reply(r, "refused") /\ UNCHANGED <<row, nonces>>
    /\ UNCHANGED <<tenant, keyVars, formVars, shown, status, confirmed, overtaken>>

\* GET /api/v1/settings tells whether the column is empty and decrypts nothing.
ServeRefresh(r) ==
    /\ open[r].kind = "refresh" /\ open[r].reply = "none"
    /\ Reply(r, IF ~requireTenant(r) THEN "refused"
                ELSE IF row.pdp # Null THEN "configured" ELSE "not set")
    /\ UNCHANGED <<rowVars, keyVars, formVars, shown, status, confirmed, overtaken>>

\* A save by another page, or by a caller that names the tenant by its id; also
\* one sent by this page before it was reloaded.
SaveElsewhere ==
    /\ MaySave
    /\ StorePdpToken
    /\ UNCHANGED <<tenant, keyVars, pageVars>>

\* Process p is restarted with another TENANT_SECRET_KEY.
Deploy(p, k) ==
    /\ deploys < MaxDeploys
    /\ k # key[p]
    /\ key' = [key EXCEPT ![p] = k]
    /\ deploys' = deploys + 1
    /\ UNCHANGED <<rowVars, pageVars>>

-----------------------------------------------------------------------------
(***************************************************************************)
(* The page.  The buttons are never disabled, so requests overlap.         *)
(***************************************************************************)
Load ==
    /\ entered' = remembered
    /\ shown' = "unknown"
    /\ status' = "other"
    /\ open' = [r \in Request |-> Closed]
    /\ confirmed' = FALSE /\ overtaken' = FALSE
    /\ UNCHANGED <<rowVars, keyVars, remembered>>

EnterTenantToken(text) ==
    /\ entered' = text
    /\ UNCHANGED <<rowVars, keyVars, remembered, shown, status, open, confirmed, overtaken>>

Send(r, kind, token) ==
    open' = [open EXCEPT ![r] = [kind |-> kind, right |-> token = "right",
                                 reply |-> "none"]]

refreshSettings(r) ==
    /\ open[r].kind = "none"
    /\ Send(r, "refresh", entered)
    /\ status' = "loading"
    /\ UNCHANGED <<rowVars, keyVars, formVars, shown, confirmed, overtaken>>

\* The tenant token is remembered before the API has accepted it.
savePdpToken(r, remember) ==
    /\ open[r].kind = "none"
    /\ MaySave
    /\ Send(r, "save", entered)
    /\ status' = "loading"
    /\ remembered' = IF remember /\ entered # "" THEN entered ELSE remembered
    /\ UNCHANGED <<rowVars, keyVars, entered, shown, confirmed, overtaken>>

\* savePdpToken with nothing pasted.
SaveNothing ==
    /\ status' = "other"
    /\ UNCHANGED <<rowVars, keyVars, formVars, shown, open, confirmed, overtaken>>

forgetToken ==
    /\ remembered' = "" /\ entered' = ""
    /\ status' = "other"
    /\ UNCHANGED <<rowVars, keyVars, shown, open, confirmed, overtaken>>

Close(r) == open' = [open EXCEPT ![r] = Closed]

\* Mutant: an answer that cannot be read is not caught.
RefreshAnsweredUncaught(r) ==
    /\ open[r].kind = "refresh" /\ open[r].reply # "none"
    /\ Close(r)
    /\ CASE open[r].reply = "failed"  -> UNCHANGED <<shown, status>>
         [] open[r].reply = "refused" -> shown' = "unknown" /\ status' = "other"
         [] OTHER                     -> shown' = open[r].reply /\ status' = "loaded"
    /\ UNCHANGED <<rowVars, keyVars, formVars, confirmed, overtaken>>

\* A refusal replaces the settings as well; a failed request leaves them.
RefreshAnswered(r) ==
    /\ open[r].kind = "refresh" /\ open[r].reply # "none"
    /\ Close(r)
    /\ CASE open[r].reply = "failed"  -> status' = "other" /\ UNCHANGED shown
         [] open[r].reply = "refused" -> shown' = "unknown" /\ status' = "other"
         [] OTHER                     -> shown' = open[r].reply /\ status' = "loaded"
    /\ UNCHANGED <<rowVars, keyVars, formVars, confirmed, overtaken>>

\* Mutant: the settings are not read again after a save.
SaveAnsweredOnly(r) ==
    /\ open[r].kind = "save" /\ open[r].reply # "none"
    /\ Close(r)
    /\ IF open[r].reply = "ok"
       THEN /\ status' = "saved"
            /\ confirmed' = TRUE
            /\ overtaken' = (overtaken \/ \E q \in Request : open[q].reply = "not set")
       ELSE status' = "other" /\ UNCHANGED <<confirmed, overtaken>>
    /\ UNCHANGED <<rowVars, keyVars, formVars, shown>>

\* After a successful save the page reads the settings again, with the token that was
\* in the form when the save was sent; its message "saved" gives way to "loading" in
\* the same step.
SaveAnswered(r) ==
    /\ open[r].kind = "save" /\ open[r].reply # "none"
    /\ IF open[r].reply = "ok"
       THEN /\ open' = [open EXCEPT ![r] = [@ EXCEPT !.kind = "refresh", !.reply = "none"]]
            /\ status' = "loading"
            /\ confirmed' = TRUE
            /\ overtaken' = (overtaken \/ \E q \in Request : open[q].reply = "not set")
       ELSE /\ Close(r)
            /\ status' = "other"
            /\ UNCHANGED <<confirmed, overtaken>>
    /\ UNCHANGED <<rowVars, keyVars, formVars, shown>>

Serve(r) == ServeSave(r) \/ ServeRefresh(r)
Answered(r) == RefreshAnswered(r) \/ SaveAnswered(r)

Next ==
    \/ \E r \in Request :
          \/ Serve(r) \/ Answered(r)
          \/ refreshSettings(r)
          \/ \E remember \in BOOLEAN : savePdpToken(r, remember)
    \/ \E text \in {"", "right"} : EnterTenantToken(text)
    \/ SaveElsewhere
    \/ \E p \in Process, k \in MaybeKey : Deploy(p, k)
    \/ SaveNothing
    \/ forgetToken
    \/ Load

Spec == Init /\ [][Next]_vars

-----------------------------------------------------------------------------
TypeOK ==
    /\ tenant \in {"create-tenant", "seed"}
    /\ row \in [ghl : Text \cup {Null}, pdp : Text \cup {Null},
                nonce : Nonce \cup {0}, version : {0, 1}]
    /\ row.version = 0 <=> row.nonce = 0
    /\ nonces \in 2..MaxSaves + 2
    /\ key \in [Process -> MaybeKey]
    /\ deploys \in 0..MaxDeploys
    /\ {entered, remembered} \subseteq {"", "right"}
    /\ shown \in {"unknown", "configured", "not set"}
    /\ status \in {"loading", "loaded", "saved", "other"}
    /\ open \in [Request ->
          [kind : {"none", "refresh", "save"}, right : BOOLEAN,
           reply : {"none", "ok", "configured", "not set", "refused", "failed"}]]
    /\ {confirmed, overtaken} \subseteq BOOLEAN

Meant(text) == IF text = Null THEN Null ELSE Plain

(***************************************************************************)
(* The row: the GHL key is the seed's, under the first nonce; the PDP      *)
(* token is the last one saved, with its own nonce and version in the row, *)
(* or the seed's, with the other nonce.                                    *)
(***************************************************************************)
RowFits ==
    /\ nonces \in Nat \ {0, 1}
    /\ row.ghl \in {Null, Plain} \cup {Sealed(k, 1) : k \in Key}
    /\ \/ /\ row.version = 0 /\ row.nonce = 0
          /\ row.pdp = Plain \/ (row.pdp = Null /\ row.ghl = Null)
       \/ /\ row.version = 1
          /\ \E k \in Key, n \in 2..nonces :
                /\ row.pdp = Sealed(k, n)
                /\ row.nonce = n \/ (row.nonce = 1 /\ row.ghl \notin {Null, Plain})

(***************************************************************************)
(* A worker reads the secrets of a tenant as they were stored exactly when *)
(* no key was in use, or when there is one secret and the worker has the   *)
(* key it was stored under: through all orders of saves, seeds and         *)
(* restarts with another key.  Two secrets, one of them sealed, are never  *)
(* readable, as they share the nonce and the version of the last write.    *)
(***************************************************************************)
SecretsReadableExactly ==
    LET stored == {row.ghl, row.pdp} \ {Null} IN
    getTenantSecrets("worker") = [ghl |-> Meant(row.ghl), pdp |-> Meant(row.pdp)]
       <=> \/ \A text \in stored : text.key = Null
           \/ Null \in {row.ghl, row.pdp} /\ \A text \in stored : text.key = key["worker"]

(***************************************************************************)
(* A worker never takes a ciphertext for the PDP token: the read fails or  *)
(* gives the token that was stored.  (Of the GHL key this is not true: a   *)
(* save without a master key turns the version back.)                      *)
(***************************************************************************)
PdpTokenIsNeverGarbled ==
    LET secrets == getTenantSecrets("worker") IN
    secrets # Failure => secrets.pdp = Meant(row.pdp)

(***************************************************************************)
(* When a save was confirmed and the page says that it has loaded the      *)
(* settings, it shows them with the token, unless an answer given before   *)
(* the save was still under way: requests of the page may overlap.         *)
(***************************************************************************)
SaveIsShown ==
    confirmed /\ ~overtaken /\ status \in {"saved", "loaded"} => shown = "configured"

(***************************************************************************)
(* The page says that it is loading or saving only while a request is      *)
(* under way, whatever becomes of its requests and however they overlap.   *)
(***************************************************************************)
LoadingMeansWaiting ==
    status = "loading" => \E r \in Request : open[r] # Closed

(***************************************************************************)
(* The inductive invariant of the row and the page together.  A save that  *)
(* waits has a nonce left, a save that was served has filled the column,   *)
(* and from then on the page hears "not set" only from before.             *)
(***************************************************************************)
SavesFit ==
    /\ IsFiniteSet(Unserved)
    /\ nonces + Cardinality(Unserved) <= MaxSaves + 2

RequestFits(r) ==
    /\ open[r].kind = "none" => open[r] = Closed
    /\ open[r].kind = "refresh" => open[r].reply # "ok"
    /\ open[r].kind = "save" => open[r].reply \notin {"configured", "not set"}
    /\ open[r].reply = "ok" => row.pdp # Null

PageFits ==
    /\ \A r \in Request : RequestFits(r)
    /\ confirmed => row.pdp # Null
    /\ confirmed /\ ~overtaken => \A r \in Request : open[r].reply # "not set"

SettingsInv ==
    /\ TypeOK
    /\ RowFits /\ SavesFit
    /\ PageFits /\ SaveIsShown /\ LoadingMeansWaiting
=============================================================================
