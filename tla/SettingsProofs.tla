---------------------------- MODULE SettingsProofs ----------------------------
(***************************************************************************)
(* Proofs about the row of tenant_secrets and the settings page, for any   *)
(* keys and any number of requests, saves and restarts.                    *)
(***************************************************************************)
EXTENDS Settings, FiniteSetTheorems, TLAPS

Rows == [ghl : Text \cup {Null}, pdp : Text \cup {Null}, nonce : Nat, version : {0, 1}]

Typed == row \in Rows /\ key \in [Process -> MaybeKey]

RowInv == RowFits /\ Typed

\* What the cipher makes of a secret can be told from NULL, and the key tells it from
\* a secret that is not sealed.
LEMMA TextFacts ==
  /\ Plain \in Text /\ Plain # Null /\ Plain.key = Null
  /\ \A k \in Key, n \in Nat : /\ Sealed(k, n) \in Text
                               /\ Sealed(k, n) # Null /\ Sealed(k, n) # Plain
                               /\ Sealed(k, n).key = k /\ Sealed(k, n).nonce = n
<1>1. Plain \in Text /\ Plain.key = Null
  BY DEF Plain, Text, MaybeKey
<1>2. ASSUME NEW k \in Key, NEW n \in Nat
      PROVE  Sealed(k, n) \in Text /\ Sealed(k, n).key = k /\ Sealed(k, n).nonce = n
  BY DEF Sealed, Text, MaybeKey
<1> QED
  BY <1>1, <1>2, SettingsAssumption, TextAssumption

LEMMA InitEstablishesRow == Init => RowInv
<1> SUFFICES ASSUME Init PROVE RowInv
  OBVIOUS
<1>1. key \in [Process -> MaybeKey] /\ nonces = 2
  BY DEF Init
<1>2. CASE row = EmptyRow
  <2>1. row.ghl = Null /\ row.pdp = Null /\ row.nonce = 0 /\ row.version = 0 /\ row \in Rows
    BY <1>2 DEF EmptyRow, Rows
  <2> QED
    BY <1>1, <2>1 DEF RowFits, RowInv, Typed
<1>3. ASSUME NEW k \in MaybeKey, row = seedDemoTenant(k)
      PROVE  RowFits /\ row \in Rows
  <2>1. CASE k = Null
    <3>1. row.ghl = Plain /\ row.pdp = Plain /\ row.nonce = 0 /\ row.version = 0
      BY <1>3, <2>1 DEF seedDemoTenant, encryptSecret
    <3>2. row \in Rows
      BY <1>3, <2>1, TextFacts DEF seedDemoTenant, encryptSecret, Rows
    <3> QED
      BY <1>1, <3>1, <3>2 DEF RowFits
  <2>2. CASE k \in Key
    <3>1. row = [ghl |-> Sealed(k, 1), pdp |-> Sealed(k, 2), nonce |-> 1, version |-> 1]
      BY <1>3, <2>2, SettingsAssumption DEF seedDemoTenant, encryptSecret
    <3>2. /\ Sealed(k, 1) \in Text /\ Sealed(k, 2) \in Text
          /\ Sealed(k, 1) \notin {Null, Plain}
      BY <2>2, TextFacts
    <3>3. row \in Rows
      BY <3>1, <3>2 DEF Rows
    <3>4. 2 \in 2..nonces
      BY <1>1
    <3>5. row.ghl = Sealed(k, 1) /\ row.pdp = Sealed(k, 2) /\ row.nonce = 1 /\ row.version = 1
      BY <3>1
    <3> QED
      BY <1>1, <2>2, <3>2, <3>3, <3>4, <3>5 DEF RowFits
  <2> QED
    BY <2>1, <2>2 DEF MaybeKey
<1>4. row = EmptyRow \/ \E k \in MaybeKey : row = seedDemoTenant(k)
  BY DEF Init
<1> QED
  BY <1>1, <1>2, <1>3, <1>4 DEF RowInv, Typed

\* A save writes the token with its own nonce and version and leaves the GHL key alone.
LEMMA StoreKeepsFit ==
  ASSUME RowInv, StorePdpToken
  PROVE  RowFits' /\ row' \in Rows
<1> DEFINE k == key["api"]
           n == nonces + 1
           secret == encryptSecret(k, n)
<1>1. k \in MaybeKey
  BY DEF RowInv, Typed, Process
<1>2. nonces \in Nat \ {0, 1} /\ nonces' = n
  BY DEF RowInv, RowFits, StorePdpToken
<1>3. row' = [row EXCEPT !.pdp = secret.text, !.nonce = secret.nonce,
                         !.version = secret.version]
  BY DEF StorePdpToken
<1>4. row \in Rows /\ row.ghl \in {Null, Plain} \cup {Sealed(c, 1) : c \in Key}
  BY DEF RowInv, Typed, RowFits
<1>5. CASE k = Null
  <2>1. secret = [text |-> Plain, nonce |-> 0, version |-> 0]
    BY <1>5 DEF encryptSecret
  <2> HIDE DEF secret
  <2>2. /\ row'.ghl = row.ghl /\ row'.pdp = Plain /\ row'.nonce = 0 /\ row'.version = 0
        /\ row' \in Rows
    BY <1>3, <1>4, <2>1, TextFacts DEF Rows
  <2> QED
    BY <1>2, <1>4, <2>2 DEF RowFits
<1>6. CASE k \in Key
  <2>1. secret = [text |-> Sealed(k, n), nonce |-> n, version |-> 1]
    BY <1>6, SettingsAssumption DEF encryptSecret
  <2>2. n \in Nat /\ n \in 2..nonces' /\ nonces' \in Nat \ {0, 1}
    BY <1>2
  <2> HIDE DEF secret, k, n
  <2>3. Sealed(k, n) \in Text
    BY <1>6, <2>2, TextFacts
  <2>4. /\ row'.ghl = row.ghl /\ row'.pdp = Sealed(k, n) /\ row'.nonce = n /\ row'.version = 1
        /\ row' \in Rows
    BY <1>3, <1>4, <2>1, <2>2, <2>3 DEF Rows
  <2> QED
    BY <1>4, <1>6, <2>2, <2>4 DEF RowFits
<1> QED
  BY <1>1, <1>5, <1>6 DEF MaybeKey

LEMMA NextKeepsRow == RowInv /\ [Next]_vars => RowInv'
<1> SUFFICES ASSUME RowInv, [Next]_vars PROVE RowInv'
  OBVIOUS
<1>1. ASSUME UNCHANGED <<row, nonces, key>>
      PROVE  RowInv'
  BY <1>1 DEF RowInv, RowFits, Typed
<1>2. ASSUME StorePdpToken, UNCHANGED key
      PROVE  RowInv'
  BY <1>2, StoreKeepsFit DEF RowInv, Typed
<1>3. ASSUME NEW r \in Request, ServeSave(r)
      PROVE  RowInv'
  BY <1>1, <1>2, <1>3 DEF ServeSave, keyVars
<1>4. ASSUME NEW r \in Request,
             \/ ServeRefresh(r) \/ Answered(r) \/ refreshSettings(r)
             \/ \E remember \in BOOLEAN : savePdpToken(r, remember)
      PROVE  RowInv'
  BY <1>1, <1>4 DEF ServeRefresh, Answered, RefreshAnswered, SaveAnswered, refreshSettings,
                    savePdpToken, rowVars, keyVars
<1>5. ASSUME NEW text \in {"", "right"}, EnterTenantToken(text)
      PROVE  RowInv'
  BY <1>1, <1>5 DEF EnterTenantToken, rowVars, keyVars
<1>6. CASE SaveElsewhere
  BY <1>2, <1>6 DEF SaveElsewhere, keyVars
<1>7. ASSUME NEW p \in Process, NEW k \in MaybeKey, Deploy(p, k)
      PROVE  RowInv'
  BY <1>7 DEF Deploy, rowVars, RowInv, RowFits, Typed
<1>8. CASE SaveNothing \/ forgetToken \/ Load \/ UNCHANGED vars
  BY <1>1, <1>8 DEF SaveNothing, forgetToken, Load, vars, rowVars, keyVars
<1> QED
  BY <1>3, <1>4, <1>5, <1>6, <1>7, <1>8 DEF Next, Serve

-----------------------------------------------------------------------------
\* What getTenantSecrets of the worker makes of one of the two texts.
Read(text) == decryptSecret(text, row.nonce, row.version, key["worker"])

LEMMA ReadsInVersionZero ==
  ASSUME row.version = 0, NEW text \in Text \cup {Null}
  PROVE  Read(text) = text
  BY DEF Read, decryptSecret

LEMMA ReadsInVersionOne ==
  ASSUME row.version = 1, NEW text \in Text \cup {Null}
  PROVE  Read(text) = IF text = Null THEN Null
                      ELSE IF /\ key["worker"] # Null /\ text.key = key["worker"]
                              /\ text.nonce = row.nonce
                           THEN Plain ELSE Failure
  BY DEF Read, decryptSecret

\* A call that returns has read both texts.
LEMMA SecretsRead ==
  ASSUME NEW ghl \in Text \cup {Null}, NEW pdp \in Text \cup {Null}
  PROVE  getTenantSecrets("worker") = [ghl |-> ghl, pdp |-> pdp]
           <=> Read(row.ghl) = ghl /\ Read(row.pdp) = pdp
<1> DEFINE g == Read(row.ghl)
           p == Read(row.pdp)
<1>1. getTenantSecrets("worker") = IF Failure \in {g, p} THEN Failure
                                   ELSE [ghl |-> g, pdp |-> p]
  BY DEF getTenantSecrets, Read
<1>2. [ghl |-> ghl, pdp |-> pdp] # Failure
  BY TextAssumption DEF Secrets
<1> HIDE DEF g, p
<1>3. CASE Failure \in {g, p}
  <2>1. ghl # Failure /\ pdp # Failure
    BY TextAssumption
  <2> QED
    BY <1>1, <1>2, <1>3, <2>1 DEF g, p
<1>4. CASE Failure \notin {g, p}
  <2>1. getTenantSecrets("worker") = [ghl |-> g, pdp |-> p]
    BY <1>1, <1>4
  <2>2. [ghl |-> g, pdp |-> p].ghl = g /\ [ghl |-> g, pdp |-> p].pdp = p
    OBVIOUS
  <2>3. [ghl |-> ghl, pdp |-> pdp].ghl = ghl /\ [ghl |-> ghl, pdp |-> pdp].pdp = pdp
    OBVIOUS
  <2> QED
    BY <2>1, <2>2, <2>3 DEF g, p
<1> QED
  BY <1>3, <1>4

\* With a row that is not sealed, the worker reads what the row has.
LEMMA ReadableInVersionZero ==
  ASSUME RowInv, row.version = 0
  PROVE  SecretsReadableExactly
<1>1. /\ row.ghl \in {Null, Plain} \cup {Sealed(k, 1) : k \in Key}
      /\ row.pdp = Plain \/ (row.pdp = Null /\ row.ghl = Null)
  BY DEF RowInv, RowFits
<1>2. row.ghl \in Text \cup {Null} /\ row.pdp \in Text \cup {Null}
  BY DEF RowInv, Typed, Rows
<1>3. Read(row.ghl) = row.ghl /\ Read(row.pdp) = row.pdp
  BY <1>2, ReadsInVersionZero
<1>4. Meant(row.ghl) \in Text \cup {Null} /\ Meant(row.pdp) \in Text \cup {Null}
  BY TextFacts DEF Meant
<1>5. getTenantSecrets("worker") = [ghl |-> Meant(row.ghl), pdp |-> Meant(row.pdp)]
        <=> row.ghl = Meant(row.ghl)
  <2>1. row.pdp = Meant(row.pdp)
    BY <1>1, TextFacts DEF Meant
  <2> QED
    BY <1>3, <1>4, <2>1, SecretsRead
<1>6. CASE row.ghl \in {Null, Plain}
  <2>1. \A text \in {row.ghl, row.pdp} \ {Null} : text.key = Null
    BY <1>1, <1>6, TextFacts
  <2>2. row.ghl = Meant(row.ghl)
    BY <1>6, TextFacts DEF Meant
  <2> QED
    BY <1>5, <2>1, <2>2 DEF SecretsReadableExactly
<1>7. ASSUME NEW k \in Key, row.ghl = Sealed(k, 1)
      PROVE  SecretsReadableExactly
  <2>1. row.ghl # Null /\ row.ghl # Plain /\ row.ghl.key # Null
    BY <1>7, TextFacts, SettingsAssumption
  <2>2. row.pdp # Null
    BY <1>1, <2>1, TextFacts
  <2>3. row.ghl # Meant(row.ghl)
    BY <2>1 DEF Meant
  <2> QED
    BY <1>5, <2>1, <2>2, <2>3 DEF SecretsReadableExactly
<1> QED
  BY <1>1, <1>6, <1>7

\* With a sealed token, the worker reads it with its key and nonce, and the GHL key
\* only when there is none.
LEMMA ReadableInVersionOne ==
  ASSUME RowInv, row.version = 1
  PROVE  SecretsReadableExactly
<1> DEFINE worker == key["worker"]
<1>1. PICK k \in Key, n \in 2..nonces :
        /\ row.pdp = Sealed(k, n)
        /\ row.nonce = n \/ (row.nonce = 1 /\ row.ghl \notin {Null, Plain})
  BY DEF RowInv, RowFits
<1>2. n \in Nat /\ n # 1
  BY DEF RowInv, RowFits
<1>3. /\ row.pdp \in Text /\ row.pdp # Null /\ row.pdp # Plain
      /\ row.pdp.key = k /\ row.pdp.nonce = n /\ k # Null
  BY <1>1, <1>2, TextFacts, SettingsAssumption
<1>4. row.ghl \in {Null, Plain} \cup {Sealed(c, 1) : c \in Key} /\ row.ghl \in Text \cup {Null}
  BY DEF RowInv, RowFits, Typed, Rows
<1>5. Plain # Failure /\ Null # Failure
  BY TextFacts, TextAssumption
<1>6. Meant(row.ghl) \in Text \cup {Null} /\ Meant(row.pdp) = Plain /\ Plain \in Text
  BY <1>3, TextFacts DEF Meant
<1>7. Read(row.pdp) = IF worker = k /\ row.nonce = n THEN Plain ELSE Failure
  BY <1>3, ReadsInVersionOne
<1>8. getTenantSecrets("worker") = [ghl |-> Meant(row.ghl), pdp |-> Meant(row.pdp)]
        <=> Read(row.ghl) = Meant(row.ghl) /\ worker = k /\ row.nonce = n
  BY <1>5, <1>6, <1>7, SecretsRead
<1> HIDE DEF worker
<1>9. CASE row.ghl = Null
  <2>1. row.nonce = n /\ Read(row.ghl) = Meant(row.ghl)
    BY <1>1, <1>9, ReadsInVersionOne DEF Meant
  <2>2. {row.ghl, row.pdp} \ {Null} = {row.pdp}
    BY <1>3, <1>9
  <2> QED
    BY <1>3, <1>8, <1>9, <2>1, <2>2 DEF SecretsReadableExactly, worker
<1>10. CASE row.ghl # Null
  <2>1. row.ghl \in Text /\ Meant(row.ghl) = Plain
    BY <1>4, <1>10 DEF Meant
  <2>2. ~(worker = k /\ row.nonce = n /\ Read(row.ghl) = Plain)
    <3>1. CASE row.ghl = Plain
      <4>1. Plain.key # k
        BY <1>3, TextFacts
      <4> QED
        BY <1>4, <1>5, <1>10, <3>1, <4>1, ReadsInVersionOne DEF worker
    <3>2. ASSUME NEW c \in Key, row.ghl = Sealed(c, 1)
          PROVE  row.ghl.nonce = 1
      BY <3>2, TextFacts
    <3>3. CASE row.ghl.nonce = 1
      BY <1>2, <1>4, <1>5, <1>10, <3>3, ReadsInVersionOne
    <3> QED
      BY <1>4, <1>10, <3>1, <3>2, <3>3
  <2>3. row.pdp \in {row.ghl, row.pdp} \ {Null} /\ Null \notin {row.ghl, row.pdp}
    BY <1>3, <1>10
  <2> QED
    BY <1>3, <1>8, <2>1, <2>2, <2>3 DEF SecretsReadableExactly
<1> QED
  BY <1>9, <1>10

(***************************************************************************)
(* A worker reads the secrets of a tenant exactly when none is sealed, or  *)
(* when there is one and the worker has its key, through all saves by the  *)
(* API, seeds and staged changes of the master key.                        *)
(***************************************************************************)
THEOREM ReadableHolds == Spec => []SecretsReadableExactly
<1>1. RowInv => SecretsReadableExactly
  BY ReadableInVersionZero, ReadableInVersionOne DEF RowInv, RowFits
<1> QED
  BY <1>1, InitEstablishesRow, NextKeepsRow, PTL DEF Spec

(***************************************************************************)
(* A worker never takes a ciphertext for the PDP token: what               *)
(* getTenantSecrets returns is the token, or there is none.                *)
(***************************************************************************)
THEOREM NeverGarbledHolds == Spec => []PdpTokenIsNeverGarbled
<1>1. ASSUME RowInv PROVE PdpTokenIsNeverGarbled
  <2>1. row.pdp \in Text \cup {Null}
    BY <1>1 DEF RowInv, Typed, Rows
  <2>2. Read(row.pdp) = Failure \/ Read(row.pdp) = Meant(row.pdp)
    <3>1. CASE row.version = 0
      <4>1. row.pdp = Plain \/ row.pdp = Null
        BY <1>1, <3>1 DEF RowInv, RowFits
      <4> QED
        BY <2>1, <3>1, <4>1, TextFacts, ReadsInVersionZero DEF Meant
    <3>2. CASE row.version = 1
      BY <2>1, <3>2, ReadsInVersionOne DEF Meant
    <3> QED
      BY <1>1, <3>1, <3>2 DEF RowInv, RowFits
  <2>3. ASSUME getTenantSecrets("worker") # Failure
        PROVE  /\ Read(row.pdp) # Failure
               /\ getTenantSecrets("worker").pdp = Read(row.pdp)
    BY <2>3 DEF getTenantSecrets, Read
  <2> QED
    BY <2>2, <2>3 DEF PdpTokenIsNeverGarbled
<1> QED
  BY <1>1, InitEstablishesRow, NextKeepsRow, PTL DEF Spec

-----------------------------------------------------------------------------
(***************************************************************************)
(* The page and its requests.                                              *)
(***************************************************************************)
Requests == [kind : {"none", "refresh", "save"}, right : BOOLEAN,
             reply : {"none", "ok", "configured", "not set", "refused", "failed"}]

Counted == nonces \in 2..MaxSaves + 2 /\ deploys \in 0..MaxDeploys

FormTyped == {entered, remembered} \subseteq {"", "right"}

ScreenTyped ==
    /\ tenant \in {"create-tenant", "seed"}
    /\ shown \in {"unknown", "configured", "not set"}
    /\ status \in {"loading", "loaded", "saved", "other"}

FlagsTyped == {confirmed, overtaken} \subseteq BOOLEAN

PageInv ==
    /\ Counted /\ FormTyped /\ ScreenTyped /\ FlagsTyped
    /\ open \in [Request -> Requests]
    /\ SavesFit /\ PageFits /\ SaveIsShown /\ LoadingMeansWaiting

LEMMA PartsOfInv ==
  ASSUME RowInv, PageInv
  PROVE  SettingsInv
<1>1. row.nonce \in Nat /\ row.version \in {0, 1} /\ row.ghl \in Text \cup {Null}
      /\ row.pdp \in Text \cup {Null} /\ row \in Rows
  BY DEF RowInv, Typed, Rows
<1>2. (row.version = 0 <=> row.nonce = 0) /\ row.nonce <= nonces
  BY <1>1 DEF RowInv, RowFits
<1>3. row.nonce \in Nonce \cup {0}
  BY <1>1, <1>2, SettingsAssumption DEF PageInv, Counted, Nonce
<1>4. row \in [ghl : Text \cup {Null}, pdp : Text \cup {Null},
               nonce : Nonce \cup {0}, version : {0, 1}]
  BY <1>1, <1>3 DEF Rows
<1>5. key \in [Process -> MaybeKey]
  BY DEF RowInv, Typed
<1>6. TypeOK
  BY <1>2, <1>4, <1>5, Zenon
  DEF TypeOK, PageInv, Counted, FormTyped, ScreenTyped, FlagsTyped, Requests
<1> QED
  BY <1>6 DEF SettingsInv, RowInv, PageInv

LEMMA InitEstablishesPage == Init => PageInv
<1> SUFFICES ASSUME Init PROVE PageInv
  OBVIOUS
<1>1. /\ nonces = 2 /\ deploys = 0 /\ open = [r \in Request |-> Closed] /\ status = "other"
      /\ confirmed = FALSE
  BY Zenon DEF Init
<1>2. Counted
  BY <1>1, SettingsAssumption DEF Counted
<1>3. FormTyped /\ ScreenTyped /\ FlagsTyped
  BY Zenon DEF Init, FormTyped, ScreenTyped, FlagsTyped
<1>4. open \in [Request -> Requests]
  BY <1>1 DEF Requests, Closed
<1>5. Unserved = {}
  BY <1>1 DEF Unserved, Closed
<1>6. SavesFit
  <2>1. IsFiniteSet(Unserved) /\ Cardinality(Unserved) = 0
    BY <1>5, FS_EmptySet
  <2> QED
    BY <1>1, <2>1, SettingsAssumption DEF SavesFit
<1>7. PageFits
  BY <1>1 DEF PageFits, RequestFits, Closed
<1> QED
  BY <1>1, <1>2, <1>3, <1>4, <1>6, <1>7 DEF PageInv, SaveIsShown, LoadingMeansWaiting

\* No token is sent and no nonce is drawn.
LEMMA SavesKept ==
  ASSUME PageInv, Unserved' \subseteq Unserved, UNCHANGED nonces
  PROVE  SavesFit'
<1>1. IsFiniteSet(Unserved) /\ nonces + Cardinality(Unserved) <= MaxSaves + 2 /\ nonces \in Nat
  BY DEF PageInv, SavesFit, Counted
<1>2. /\ IsFiniteSet(Unserved') /\ Cardinality(Unserved') <= Cardinality(Unserved)
      /\ Cardinality(Unserved) \in Nat /\ Cardinality(Unserved') \in Nat
  BY <1>1, FS_Subset, FS_CardinalityType
<1> QED
  BY <1>1, <1>2, SettingsAssumption DEF SavesFit

\* The column of the token, once filled, is never emptied.
LEMMA StoreFills ==
  ASSUME RowInv, StorePdpToken
  PROVE  row'.pdp # Null /\ nonces' = nonces + 1
<1> DEFINE secret == encryptSecret(key["api"], nonces + 1)
<1>1. secret.text # Null
  <2>1. nonces + 1 \in Nat /\ key["api"] \in Key \cup {Null}
    BY DEF RowInv, RowFits, Typed, Process, MaybeKey
  <2>2. secret.text \in {Plain, Sealed(key["api"], nonces + 1)}
    BY DEF encryptSecret
  <2>3. CASE key["api"] = Null
    BY <2>3, TextFacts DEF encryptSecret
  <2>4. CASE key["api"] \in Key
    <3>1. Sealed(key["api"], nonces + 1) # Null
      BY <2>1, <2>4, TextFacts
    <3> HIDE DEF secret
    <3> QED
      BY <2>2, <3>1, TextFacts
  <2> QED
    BY <2>1, <2>3, <2>4
<1> HIDE DEF secret
<1>2. row' = [row EXCEPT !.pdp = secret.text, !.nonce = secret.nonce, !.version = secret.version]
  BY DEF StorePdpToken, secret
<1>3. row \in Rows
  BY DEF RowInv, Typed
<1> QED
  BY <1>1, <1>2, <1>3 DEF StorePdpToken, Rows

LEMMA FormKept ==
  ASSUME FormTyped, entered' = entered, remembered' = remembered
  PROVE  FormTyped'
  BY Zenon DEF FormTyped

LEMMA FlagsKept ==
  ASSUME FlagsTyped, confirmed' = confirmed, overtaken' = overtaken
  PROVE  FlagsTyped'
  BY Zenon DEF FlagsTyped

LEMMA RequestKept ==
  ASSUME PageInv, NEW q \in Request, open'[q] = open[q], row.pdp # Null => row'.pdp # Null
  PROVE  RequestFits(q)'
  BY DEF PageInv, PageFits, RequestFits

-----------------------------------------------------------------------------
\* What the API and the database do is not seen by the page until it is answered.
Unseen == UNCHANGED <<tenant, entered, remembered, shown, status, confirmed, overtaken>>

\* The API answers request r, or the answer is lost.
LEMMA ReplyKeepsPage ==
  ASSUME PageInv, NEW r \in Request,
         NEW reply \in {"ok", "configured", "not set", "refused", "failed"},
         open[r].reply = "none", open[r].kind # "none",
         open' = [open EXCEPT ![r].reply = reply],
         reply = "ok" => open[r].kind = "save" /\ row'.pdp # Null,
         reply \in {"configured", "not set"} => open[r].kind = "refresh",
         reply = "not set" => row.pdp = Null,
         row.pdp # Null => row'.pdp # Null,
         Counted', SavesFit', Unseen
  PROVE  PageInv'
<1>1. UNCHANGED <<tenant, entered, remembered, shown, status, confirmed, overtaken>>
  BY DEF Unseen
<1>2. open \in [Request -> Requests]
  BY DEF PageInv
<1>3. /\ open'[r].kind = open[r].kind /\ open'[r].right = open[r].right
      /\ open'[r].reply = reply /\ open'[r] \in Requests
  BY <1>2 DEF Requests
<1>4. \A q \in Request \ {r} : open'[q] = open[q]
  BY <1>2
<1>5. open' \in [Request -> Requests]
  BY <1>2, <1>3, <1>4
<1>6. ASSUME NEW q \in Request PROVE RequestFits(q)'
  <2>1. CASE q = r
    BY <1>3, <2>1 DEF RequestFits
  <2>2. CASE q # r
    BY <1>4, <2>2, RequestKept
  <2> QED
    BY <2>1, <2>2
<1>7. confirmed' => row'.pdp # Null
  BY <1>1 DEF PageInv, PageFits
<1>8. confirmed' /\ ~overtaken' => \A q \in Request : open'[q].reply # "not set"
  BY <1>1, <1>3, <1>4 DEF PageInv, PageFits
<1>9. LoadingMeansWaiting'
  BY <1>1, <1>3, <1>4 DEF PageInv, LoadingMeansWaiting, Closed
<1>10. SaveIsShown' /\ ScreenTyped'
  BY <1>1 DEF PageInv, SaveIsShown, ScreenTyped
<1>11. FormTyped' /\ FlagsTyped'
  BY <1>1, FormKept, FlagsKept DEF PageInv
<1> QED
  BY <1>5, <1>6, <1>7, <1>8, <1>9, <1>10, <1>11 DEF PageInv, PageFits

\* What is left of the saves that wait when one of them is answered.
LEMMA UnservedAnswered ==
  ASSUME PageInv, NEW r \in Request, NEW reply, reply # "none",
         open' = [open EXCEPT ![r].reply = reply]
  PROVE  Unserved' = Unserved \ {r}
<1>1. open \in [Request -> Requests]
  BY DEF PageInv
<1>2. open'[r].reply = reply /\ \A q \in Request \ {r} : open'[q] = open[q]
  BY <1>1 DEF Requests
<1> QED
  BY <1>2 DEF Unserved

LEMMA ServeSaveKeepsPage ==
  ASSUME RowInv, PageInv, NEW r \in Request, ServeSave(r)
  PROVE  PageInv'
<1>1. /\ r \in Unserved /\ open[r].kind = "save" /\ open[r].reply = "none"
      /\ Unseen /\ UNCHANGED deploys
  BY DEF ServeSave, Unserved, keyVars, formVars, Unseen
<1>2. PICK reply \in {"ok", "refused", "failed"} :
        /\ open' = [open EXCEPT ![r].reply = reply]
        /\ StorePdpToken \/ (UNCHANGED <<row, nonces>> /\ reply # "ok")
  BY DEF ServeSave, Reply
<1>3. Unserved' = Unserved \ {r}
  BY <1>2, UnservedAnswered
<1>4. CASE StorePdpToken
  <2>1. row'.pdp # Null /\ nonces' = nonces + 1
    BY <1>4, StoreFills
  <2>2. /\ IsFiniteSet(Unserved') /\ Cardinality(Unserved') = Cardinality(Unserved) - 1
        /\ Cardinality(Unserved) \in Nat /\ Cardinality(Unserved') \in Nat
        /\ nonces + Cardinality(Unserved) <= MaxSaves + 2
        /\ nonces \in 2..MaxSaves + 2 /\ deploys \in 0..MaxDeploys
    BY <1>1, <1>3, FS_RemoveElement, FS_CardinalityType DEF PageInv, SavesFit, Counted
  <2>3. Counted' /\ SavesFit'
    BY <1>1, <2>1, <2>2, SettingsAssumption DEF Counted, SavesFit
  <2> QED
    BY <1>1, <1>2, <2>1, <2>3, ReplyKeepsPage
<1>5. CASE UNCHANGED <<row, nonces>> /\ reply # "ok"
  <2>1. SavesFit'
    BY <1>3, <1>5, SavesKept
  <2>2. Counted'
    BY <1>1, <1>5 DEF PageInv, Counted
  <2> QED
    BY <1>1, <1>2, <1>5, <2>1, <2>2, ReplyKeepsPage
<1> QED
  BY <1>2, <1>4, <1>5

LEMMA ServeRefreshKeepsPage ==
  ASSUME PageInv, NEW r \in Request, ServeRefresh(r)
  PROVE  PageInv'
<1>1. /\ open[r].kind = "refresh" /\ open[r].reply = "none"
      /\ Unseen /\ UNCHANGED <<row, nonces, deploys>>
  BY DEF ServeRefresh, rowVars, keyVars, formVars, Unseen
<1>2. PICK reply \in {"refused", "configured", "not set", "failed"} :
        /\ open' = [open EXCEPT ![r].reply = reply]
        /\ reply = "not set" => row.pdp = Null
  BY DEF ServeRefresh, Reply
<1>3. SavesFit'
  BY <1>1, <1>2, UnservedAnswered, SavesKept
<1>4. Counted'
  BY <1>1 DEF PageInv, Counted
<1> QED
  BY <1>1, <1>2, <1>3, <1>4, ReplyKeepsPage

-----------------------------------------------------------------------------
\* The page closes request r, sends it, or turns it into another one.
LEMMA RequestSet ==
  ASSUME PageInv, NEW r \in Request, NEW x \in Requests, open' = [open EXCEPT ![r] = x],
         UNCHANGED row, x.reply = "none", x.kind = "none" => x = Closed
  PROVE  /\ open' \in [Request -> Requests]
         /\ open'[r] = x
         /\ \A q \in Request \ {r} : open'[q] = open[q]
         /\ \A q \in Request : RequestFits(q)'
         /\ \A q \in Request : open'[q].reply = "not set" => open[q].reply = "not set"
<1>1. open \in [Request -> Requests]
  BY DEF PageInv
<1>2. open' \in [Request -> Requests] /\ open'[r] = x
  BY <1>1
<1>3. \A q \in Request \ {r} : open'[q] = open[q]
  BY <1>1
<1>4. ASSUME NEW q \in Request PROVE RequestFits(q)'
  <2>1. CASE q = r
    BY <1>2, <2>1 DEF RequestFits
  <2>2. CASE q # r
    BY <1>3, <2>2, RequestKept
  <2> QED
    BY <2>1, <2>2
<1> QED
  BY <1>2, <1>3, <1>4

LEMMA ClosedFacts == Closed \in Requests /\ Closed.reply = "none" /\ Closed.kind = "none"
  BY DEF Closed, Requests

LEMMA RefreshAnsweredKeepsPage ==
  ASSUME PageInv, NEW r \in Request, RefreshAnswered(r)
  PROVE  PageInv'
<1>1. /\ open[r].kind = "refresh" /\ open[r].reply # "none"
      /\ open' = [open EXCEPT ![r] = Closed]
      /\ UNCHANGED <<tenant, row, nonces, deploys, entered, remembered, confirmed, overtaken>>
  BY DEF RefreshAnswered, Close, rowVars, keyVars, formVars
<1>2. /\ open' \in [Request -> Requests]
      /\ \A q \in Request : RequestFits(q)'
      /\ \A q \in Request : open'[q].reply = "not set" => open[q].reply = "not set"
      /\ open'[r] = Closed /\ \A q \in Request \ {r} : open'[q] = open[q]
  BY <1>1, ClosedFacts, RequestSet
<1>3. SavesFit' /\ Counted'
  <2>1. Unserved' \subseteq Unserved
    BY <1>2, ClosedFacts DEF Unserved
  <2> QED
    BY <1>1, <2>1, SavesKept DEF PageInv, Counted
<1>4. /\ open[r].reply \in {"configured", "not set", "refused", "failed"}
      /\ confirmed /\ ~overtaken => open[r].reply # "not set"
  BY <1>1 DEF PageInv, PageFits, RequestFits, Requests
<1>5. \/ status' = "other" /\ shown' \in {shown, "unknown"}
      \/ /\ status' = "loaded" /\ shown' = open[r].reply
         /\ open[r].reply \in {"configured", "not set"}
  <2>1. CASE open[r].reply = "failed"
    BY <2>1 DEF RefreshAnswered
  <2>2. CASE open[r].reply = "refused"
    BY <2>2 DEF RefreshAnswered
  <2>3. CASE open[r].reply \in {"configured", "not set"}
    BY <2>3 DEF RefreshAnswered
  <2> QED
    BY <1>4, <2>1, <2>2, <2>3
<1>6. ScreenTyped' /\ LoadingMeansWaiting' /\ SaveIsShown'
  BY <1>1, <1>4, <1>5 DEF PageInv, ScreenTyped, LoadingMeansWaiting, SaveIsShown
<1>7. FormTyped' /\ FlagsTyped'
  BY <1>1, FormKept, FlagsKept DEF PageInv
<1>8. PageFits'
  BY <1>1, <1>2 DEF PageInv, PageFits
<1> QED
  BY <1>2, <1>3, <1>6, <1>7, <1>8 DEF PageInv

LEMMA SaveAnsweredKeepsPage ==
  ASSUME PageInv, NEW r \in Request, SaveAnswered(r)
  PROVE  PageInv'
<1>1. /\ open[r].kind = "save" /\ open[r].reply # "none"
      /\ UNCHANGED <<tenant, row, nonces, deploys, entered, remembered, shown>>
      /\ open[r] \in Requests
  BY DEF SaveAnswered, rowVars, keyVars, formVars, PageInv
<1>2. FormTyped' /\ Counted'
  BY <1>1, FormKept DEF PageInv, Counted
<1>3. CASE open[r].reply = "ok"
  <2> DEFINE x == [open[r] EXCEPT !.kind = "refresh", !.reply = "none"]
  <2>1. /\ open' = [open EXCEPT ![r] = x] /\ status' = "loading" /\ confirmed' = TRUE
        /\ overtaken' = (overtaken \/ \E q \in Request : open[q].reply = "not set")
    <3>1. open[r] = open[r]
      OBVIOUS
    <3> QED
      BY <1>3, Zenon DEF SaveAnswered
  <2>2. x \in Requests /\ x.kind = "refresh" /\ x.reply = "none"
    BY <1>1 DEF Requests
  <2> HIDE DEF x
  <2>3. /\ open' \in [Request -> Requests]
        /\ \A q \in Request : RequestFits(q)'
        /\ \A q \in Request : open'[q].reply = "not set" => open[q].reply = "not set"
        /\ open'[r] = x /\ \A q \in Request \ {r} : open'[q] = open[q]
    BY <1>1, <2>1, <2>2, RequestSet
  <2>4. SavesFit'
    <3>1. Unserved' \subseteq Unserved
      BY <2>2, <2>3 DEF Unserved
    <3> QED
      BY <1>1, <3>1, SavesKept
  <2>5. ScreenTyped' /\ LoadingMeansWaiting' /\ SaveIsShown'
    BY <1>1, <2>1, <2>2, <2>3, ClosedFacts
    DEF PageInv, ScreenTyped, LoadingMeansWaiting, SaveIsShown
  <2>6. overtaken' \in BOOLEAN /\ confirmed' \in BOOLEAN
    <3>1. overtaken \in BOOLEAN
      BY Zenon DEF PageInv, FlagsTyped
    <3> QED
      BY <2>1, <3>1
  <2>7. FlagsTyped'
    BY <2>6, Zenon DEF FlagsTyped
  <2>8. row'.pdp # Null
    BY <1>1, <1>3 DEF PageInv, PageFits, RequestFits
  <2>9. ASSUME ~overtaken' PROVE \A q \in Request : open'[q].reply # "not set"
    <3>1. \A q \in Request : open[q].reply # "not set"
      BY <2>1, <2>9
    <3> QED
      BY <2>3, <3>1
  <2>10. PageFits'
    BY <2>3, <2>8, <2>9 DEF PageFits
  <2> QED
    BY <1>2, <2>3, <2>4, <2>5, <2>7, <2>10 DEF PageInv
<1>4. CASE open[r].reply # "ok"
  <2>1. /\ open' = [open EXCEPT ![r] = Closed] /\ status' = "other"
        /\ UNCHANGED <<confirmed, overtaken>>
    BY <1>4 DEF SaveAnswered, Close
  <2>2. /\ open' \in [Request -> Requests]
        /\ \A q \in Request : RequestFits(q)'
        /\ \A q \in Request : open'[q].reply = "not set" => open[q].reply = "not set"
        /\ open'[r] = Closed /\ \A q \in Request \ {r} : open'[q] = open[q]
    BY <1>1, <2>1, ClosedFacts, RequestSet
  <2>3. SavesFit'
    <3>1. Unserved' \subseteq Unserved
      BY <2>2, ClosedFacts DEF Unserved
    <3> QED
      BY <1>1, <3>1, SavesKept
  <2>4. ScreenTyped' /\ LoadingMeansWaiting' /\ SaveIsShown'
    BY <1>1, <2>1 DEF PageInv, ScreenTyped, LoadingMeansWaiting, SaveIsShown
  <2>5. FlagsTyped' /\ PageFits'
    BY <1>1, <2>1, <2>2, FlagsKept DEF PageInv, PageFits
  <2> QED
    BY <1>2, <2>2, <2>3, <2>4, <2>5 DEF PageInv
<1> QED
  BY <1>3, <1>4

\* The page sends a request with the token that is in its form.
LEMMA SendKeepsPage ==
  ASSUME PageInv, NEW r \in Request, NEW kind \in {"refresh", "save"},
         Send(r, kind, entered), status' = "loading",
         open[r].kind = "none", kind = "save" => MaySave,
         FormTyped', UNCHANGED <<rowVars, keyVars, shown>>,
         confirmed' = confirmed /\ overtaken' = overtaken
  PROVE  PageInv'
<1> DEFINE x == [kind |-> kind, right |-> entered = "right", reply |-> "none"]
<1>1. open' = [open EXCEPT ![r] = x]
  BY DEF Send
<1>2. x \in Requests /\ x.kind = kind /\ x.reply = "none"
  BY DEF Requests
<1> HIDE DEF x
<1>3. UNCHANGED <<tenant, row, nonces, deploys>>
  BY DEF rowVars, keyVars
<1>4. /\ open' \in [Request -> Requests]
      /\ \A q \in Request : RequestFits(q)'
      /\ \A q \in Request : open'[q].reply = "not set" => open[q].reply = "not set"
      /\ open'[r] = x /\ \A q \in Request \ {r} : open'[q] = open[q]
  BY <1>1, <1>2, <1>3, RequestSet
<1>5. SavesFit'
  <2>1. CASE kind = "refresh"
    <3>1. Unserved' \subseteq Unserved
      BY <1>2, <1>4, <2>1 DEF Unserved
    <3> QED
      BY <1>3, <3>1, SavesKept
  <2>2. CASE kind = "save"
    <3>1. Unserved' = Unserved \cup {r} /\ r \notin Unserved
      BY <1>2, <1>4, <2>2 DEF Unserved
    <3>2. /\ IsFiniteSet(Unserved') /\ Cardinality(Unserved') = Cardinality(Unserved) + 1
          /\ Cardinality(Unserved) \in Nat
      BY <3>1, FS_AddElement, FS_CardinalityType DEF PageInv, SavesFit
    <3>3. nonces + Cardinality(Unserved) < MaxSaves + 2 /\ nonces \in 2..MaxSaves + 2
      BY <2>2 DEF MaySave, PageInv, Counted
    <3> QED
      BY <1>3, <3>2, <3>3, SettingsAssumption DEF SavesFit
  <2> QED
    BY <2>1, <2>2
<1>6. Counted' /\ ScreenTyped' /\ SaveIsShown' /\ LoadingMeansWaiting'
  BY <1>2, <1>3, <1>4, ClosedFacts
  DEF PageInv, Counted, ScreenTyped, SaveIsShown, LoadingMeansWaiting
<1>7. FlagsTyped'
  BY FlagsKept DEF PageInv
<1>8. PageFits'
  BY <1>3, <1>4 DEF PageInv, PageFits
<1> QED
  BY <1>4, <1>5, <1>6, <1>7, <1>8 DEF PageInv

\* A save by someone else, a restart, and what the page does without a request.
LEMMA OtherStepKeepsPage ==
  ASSUME RowInv, PageInv, FormTyped',
         \/ StorePdpToken /\ MaySave
         \/ UNCHANGED <<row, nonces>>,
         deploys' \in 0..MaxDeploys,
         status' = status \/ status' = "other",
         UNCHANGED <<tenant, shown, open>>,
         confirmed' = confirmed /\ overtaken' = overtaken
  PROVE  PageInv'
<1>1. Unserved' = Unserved
  BY DEF Unserved
<1>2. Counted' /\ SavesFit' /\ (row.pdp # Null => row'.pdp # Null)
  <2>1. CASE StorePdpToken /\ MaySave
    <3>1. row'.pdp # Null /\ nonces' = nonces + 1
      BY <2>1, StoreFills
    <3>2. /\ IsFiniteSet(Unserved) /\ Cardinality(Unserved) \in Nat
          /\ nonces \in 2..MaxSaves + 2 /\ nonces + Cardinality(Unserved) < MaxSaves + 2
      BY <2>1, FS_CardinalityType DEF PageInv, SavesFit, Counted, MaySave
    <3> QED
      BY <1>1, <3>1, <3>2, SettingsAssumption DEF Counted, SavesFit
  <2>2. CASE UNCHANGED <<row, nonces>>
    BY <1>1, <2>2 DEF PageInv, Counted, SavesFit
  <2> QED
    BY <2>1, <2>2
<1>3. FlagsTyped'
  BY FlagsKept DEF PageInv
<1>4. ScreenTyped' /\ SaveIsShown' /\ LoadingMeansWaiting'
  BY DEF PageInv, ScreenTyped, SaveIsShown, LoadingMeansWaiting
<1>5. \A q \in Request : RequestFits(q)'
  BY <1>2, RequestKept
<1>6. PageFits'
  BY <1>2, <1>5 DEF PageInv, PageFits
<1> QED
  BY <1>2, <1>3, <1>4, <1>6 DEF PageInv

LEMMA LoadKeepsPage ==
  ASSUME PageInv, Load
  PROVE  PageInv'
<1>1. /\ open' = [q \in Request |-> Closed] /\ status' = "other" /\ shown' = "unknown"
      /\ UNCHANGED <<tenant, row, nonces, deploys>> /\ confirmed' = FALSE
  BY Zenon DEF Load, rowVars, keyVars
<1>2. FormTyped'
  BY Zenon DEF PageInv, FormTyped, Load
<1>3. FlagsTyped'
  BY Zenon DEF FlagsTyped, Load
<1>4. SavesFit'
  <2>1. Unserved' \subseteq Unserved
    BY <1>1, ClosedFacts DEF Unserved
  <2> QED
    BY <1>1, <2>1, SavesKept
<1>5. Counted' /\ ScreenTyped'
  BY <1>1 DEF PageInv, Counted, ScreenTyped
<1>6. open' \in [Request -> Requests]
  BY <1>1, ClosedFacts
<1>7. PageFits' /\ SaveIsShown' /\ LoadingMeansWaiting'
  BY <1>1, ClosedFacts DEF PageFits, RequestFits, SaveIsShown, LoadingMeansWaiting
<1> QED
  BY <1>2, <1>3, <1>4, <1>5, <1>6, <1>7 DEF PageInv

LEMMA NextKeepsPage == RowInv /\ PageInv /\ [Next]_vars => PageInv'
<1> SUFFICES ASSUME RowInv, PageInv, [Next]_vars PROVE PageInv'
  OBVIOUS
<1>1. deploys \in 0..MaxDeploys /\ FormTyped
  BY DEF PageInv, Counted
<1>2. ASSUME NEW r \in Request, Serve(r) \/ Answered(r)
      PROVE  PageInv'
  BY <1>2, ServeSaveKeepsPage, ServeRefreshKeepsPage, RefreshAnsweredKeepsPage,
     SaveAnsweredKeepsPage DEF Serve, Answered
<1>3. ASSUME NEW r \in Request, refreshSettings(r)
      PROVE  PageInv'
  <2>1. /\ open[r].kind = "none" /\ Send(r, "refresh", entered) /\ status' = "loading"
        /\ UNCHANGED <<rowVars, keyVars, shown>> /\ UNCHANGED <<entered, remembered>>
        /\ confirmed' = confirmed /\ overtaken' = overtaken
    BY <1>3 DEF refreshSettings, formVars
  <2>2. FormTyped'
    BY <1>1, <2>1, FormKept
  <2> QED
    BY <2>1, <2>2, SendKeepsPage
<1>4. ASSUME NEW r \in Request, NEW remember \in BOOLEAN, savePdpToken(r, remember)
      PROVE  PageInv'
  <2>1. /\ open[r].kind = "none" /\ Send(r, "save", entered) /\ status' = "loading" /\ MaySave
        /\ UNCHANGED <<rowVars, keyVars, entered, shown>>
        /\ confirmed' = confirmed /\ overtaken' = overtaken
    BY <1>4, Zenon DEF savePdpToken
  <2>2. remembered' \in {entered, remembered}
    BY <1>4, Zenon DEF savePdpToken
  <2>3. entered' = entered
    BY <2>1
  <2>4. FormTyped'
    BY <1>1, <2>2, <2>3, Zenon DEF FormTyped
  <2> QED
    BY <2>1, <2>4, SendKeepsPage
<1>5. ASSUME NEW text \in {"", "right"}, EnterTenantToken(text)
      PROVE  PageInv'
  <2>1. /\ UNCHANGED <<tenant, row, nonces, deploys, shown, status, open, remembered>>
        /\ entered' = text /\ confirmed' = confirmed /\ overtaken' = overtaken
    BY <1>5, Zenon DEF EnterTenantToken, rowVars, keyVars
  <2>2. remembered' = remembered
    BY <2>1
  <2>3. FormTyped'
    BY <1>1, <1>5, <2>1, <2>2, Zenon DEF FormTyped
  <2> QED
    BY <1>1, <2>1, <2>3, OtherStepKeepsPage
<1>6. CASE SaveElsewhere
  <2>1. /\ MaySave /\ StorePdpToken /\ UNCHANGED <<tenant, deploys, shown, status, open>>
        /\ UNCHANGED <<entered, remembered>> /\ confirmed' = confirmed /\ overtaken' = overtaken
    BY <1>6 DEF SaveElsewhere, keyVars, pageVars
  <2>2. FormTyped'
    BY <1>1, <2>1, FormKept
  <2> QED
    BY <1>1, <2>1, <2>2, OtherStepKeepsPage
<1>7. ASSUME NEW p \in Process, NEW k \in MaybeKey, Deploy(p, k)
      PROVE  PageInv'
  <2>1. /\ deploys < MaxDeploys /\ deploys' = deploys + 1
        /\ UNCHANGED <<tenant, row, nonces, shown, status, open>>
        /\ UNCHANGED <<entered, remembered>> /\ confirmed' = confirmed /\ overtaken' = overtaken
    BY <1>7 DEF Deploy, rowVars, pageVars
  <2>2. deploys' \in 0..MaxDeploys
    BY <1>1, <2>1, SettingsAssumption
  <2>3. FormTyped'
    BY <1>1, <2>1, FormKept
  <2> QED
    BY <2>1, <2>2, <2>3, OtherStepKeepsPage
<1>8. CASE SaveNothing
  <2>1. /\ UNCHANGED <<tenant, row, nonces, deploys, shown, open, entered, remembered>>
        /\ status' = "other" /\ confirmed' = confirmed /\ overtaken' = overtaken
    BY <1>8 DEF SaveNothing, rowVars, keyVars, formVars
  <2>2. FormTyped'
    BY <1>1, <2>1, FormKept
  <2> QED
    BY <1>1, <2>1, <2>2, OtherStepKeepsPage
<1>9. CASE forgetToken
  <2>1. /\ UNCHANGED <<tenant, row, nonces, deploys, shown, open>>
        /\ status' = "other" /\ confirmed' = confirmed /\ overtaken' = overtaken
    BY <1>9, Zenon DEF forgetToken, rowVars, keyVars
  <2>2. FormTyped'
    BY <1>9, Zenon DEF forgetToken, FormTyped
  <2> QED
    BY <1>1, <2>1, <2>2, OtherStepKeepsPage
<1>10. CASE UNCHANGED vars
  <2>1. /\ UNCHANGED <<tenant, row, nonces, deploys, shown, status, open, entered, remembered>>
        /\ confirmed' = confirmed /\ overtaken' = overtaken
    BY <1>10 DEF vars
  <2>2. FormTyped'
    BY <1>1, <2>1, FormKept
  <2> QED
    BY <1>1, <2>1, <2>2, OtherStepKeepsPage
<1> QED
  BY <1>2, <1>3, <1>4, <1>5, <1>6, <1>7, <1>8, <1>9, <1>10, LoadKeepsPage DEF Next

(***************************************************************************)
(* Whatever is saved, seeded and restarted, the row of tenant_secrets      *)
(* holds the seed's GHL key under the first nonce and the last token saved *)
(* with its own nonce and version, or both secrets of the seed; and the    *)
(* page knows of a save only what the row bears out.                       *)
(***************************************************************************)
THEOREM SettingsInvariant == Spec => []SettingsInv
<1>1. RowInv /\ PageInv => SettingsInv
  BY PartsOfInv
<1> QED
  BY <1>1, InitEstablishesRow, NextKeepsRow, InitEstablishesPage, NextKeepsPage, PTL DEF Spec

(***************************************************************************)
(* Type correctness of the row, the keys, the requests and the page: no    *)
(* more nonces are drawn than tokens are sent.                             *)
(***************************************************************************)
THEOREM TypeCorrectness == Spec => []TypeOK
<1>1. SettingsInv => TypeOK
  BY DEF SettingsInv
<1> QED
  BY <1>1, SettingsInvariant, PTL

(***************************************************************************)
(* A page that has heard of its successful save and says that it has       *)
(* loaded the settings shows a token, unless an answer from before the     *)
(* save was still under way.                                               *)
(***************************************************************************)
THEOREM SavesAreShown == Spec => []SaveIsShown
<1>1. SettingsInv => SaveIsShown
  BY DEF SettingsInv
<1> QED
  BY <1>1, SettingsInvariant, PTL

(***************************************************************************)
(* The page never says that it is loading when it waits for nothing, in    *)
(* whatever order its overlapping requests are answered or lost.           *)
(***************************************************************************)
THEOREM NoIdleLoading == Spec => []LoadingMeansWaiting
<1>1. SettingsInv => LoadingMeansWaiting
  BY DEF SettingsInv
<1> QED
  BY <1>1, SettingsInvariant, PTL
=============================================================================
