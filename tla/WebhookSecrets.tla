--------------------------- MODULE WebhookSecrets ---------------------------
(***************************************************************************)
(* The signing secrets of one endpoint: rotateSecret and verifyWithRotation *)
(* (webhooks.service.ts) against the delivery worker, which signs with the *)
(* secrets its SELECT has read.                                            *)
(*                                                                         *)
(* Abstractions.  A secret is the number of the rotation that made it, and *)
(* a signature is the secret it was made with (an HMAC over the same       *)
(* bytes).  Time is counted in hours.  In the committed file two versions  *)
(* of each method are interleaved, with hashed and with plain columns:     *)
(* they agree on the steps, which are what is modelled.                    *)
(***************************************************************************)
EXTENDS Integers

CONSTANTS
    Posters,    \* deliveries under way
    Rotations,  \* calls of rotateSecret
    Overlap,    \* ROTATION_OVERLAP_HOURS: 24
    MaxHours    \* bound: hours that pass

ASSUME SecretsAssumption == Overlap \in Nat \ {0} /\ MaxHours \in Nat

Never == -1
NoSecret == -1

VARIABLES
    hour,
    active,     \* webhooks.active
    secret, previous, rotatedAt,    \* the three columns
    fresh,      \* the last secret drawn
    rotation,   \* what each call of rotateSecret is doing
    poster      \* what each delivery has read and signed

secretsVars == <<hour, active, secret, previous, rotatedAt, fresh, rotation, poster>>

NoPoster == [pc |-> "idle", main |-> 0, prev |-> NoSecret, at |-> Never]

SecretsInit ==
    /\ hour = 0 /\ active = TRUE /\ fresh = 0
    /\ secret = 0 /\ previous = NoSecret /\ rotatedAt = Never
    /\ rotation = [r \in Rotations |-> "idle"]
    /\ poster = [d \in Posters |-> NoPoster]

Hour ==
    /\ hour < MaxHours /\ hour' = hour + 1
    /\ UNCHANGED <<active, secret, previous, rotatedAt, fresh, rotation, poster>>

TurnOff ==
    /\ active /\ active' = FALSE
    /\ UNCHANGED <<hour, secret, previous, rotatedAt, fresh, rotation, poster>>

\* The SELECT of an active webhook, then one UPDATE, which does not ask again
RotateCheck(r) ==
    /\ rotation[r] = "idle"
    /\ rotation' = [rotation EXCEPT ![r] = IF active THEN "update" ELSE "refused"]
    /\ UNCHANGED <<hour, active, secret, previous, rotatedAt, fresh, poster>>

\* Mutant: a second rotation keeps the previous secret it finds.
RotateKeepingOldest(r) ==
    /\ rotation[r] = "update"
    /\ fresh' = fresh + 1
    /\ previous' = IF previous = NoSecret THEN secret ELSE previous
    /\ secret' = fresh + 1 /\ rotatedAt' = hour
    /\ rotation' = [rotation EXCEPT ![r] = "done"]
    /\ UNCHANGED <<hour, active, poster>>

Rotate(r) ==
    /\ rotation[r] = "update"
    /\ fresh' = fresh + 1
    /\ previous' = secret /\ secret' = fresh + 1 /\ rotatedAt' = hour
    /\ rotation' = [rotation EXCEPT ![r] = "done"]
    /\ UNCHANGED <<hour, active, poster>>

InOverlap(prev, at) == prev # NoSecret /\ at # Never /\ hour - at < Overlap

\* deliverPending's SELECT joins the webhook.
SelectSecrets(d) ==
    /\ poster[d].pc = "idle" /\ active
    /\ poster' = [poster EXCEPT ![d] =
                     [pc |-> "selected", main |-> secret, prev |-> previous, at |-> rotatedAt]]
    /\ UNCHANGED <<hour, active, secret, previous, rotatedAt, fresh, rotation>>

\* deliver: x-stargate-signature, and x-stargate-signature-prev or none
Sign(d) ==
    /\ poster[d].pc = "selected"
    /\ poster' = [poster EXCEPT ![d] =
                     [poster[d] EXCEPT !.pc = "posted",
                         !.prev = IF InOverlap(poster[d].prev, poster[d].at)
                                  THEN poster[d].prev ELSE NoSecret]]
    /\ UNCHANGED <<hour, active, secret, previous, rotatedAt, fresh, rotation>>

\* verifyWithRotation, as the row stands now
VerifyWithRotation(signature) ==
    \/ signature = secret
    \/ InOverlap(previous, rotatedAt) /\ signature = previous

SecretsNext ==
    \/ Hour \/ TurnOff
    \/ \E r \in Rotations : RotateCheck(r) \/ Rotate(r)
    \/ \E d \in Posters : SelectSecrets(d) \/ Sign(d)

SecretsSpec == SecretsInit /\ [][SecretsNext]_secretsVars

-----------------------------------------------------------------------------
SecretsTypeOK ==
    /\ hour \in 0..MaxHours /\ active \in BOOLEAN /\ fresh \in Nat
    /\ secret \in 0..fresh /\ previous \in -1..fresh /\ rotatedAt \in -1..hour
    /\ rotation \in [Rotations -> {"idle", "update", "refused", "done"}]
    /\ poster \in [Posters -> [pc : {"idle", "selected", "posted"}, main : 0..fresh,
                               prev : -1..fresh, at : -1..hour]]

\* Rotations since a delivery read the secrets
Turned(d) == fresh - poster[d].main

\* A delivery under way stays valid through a rotation ("24-hour overlap
\* window so in-flight deliveries remain valid", CHANGELOG.md line 50), read
\* the secrets when it may: its first signature is accepted until the window
\* of the one rotation since closes; and with no rotation since, a merchant
\* who still has the previous secret finds its signature while the window is
\* open.
InFlightVerifies ==
    \A d \in Posters : poster[d].pc = "posted" =>
        /\ Turned(d) = 0 \/ (Turned(d) = 1 /\ hour - rotatedAt < Overlap)
              => VerifyWithRotation(poster[d].main)
        /\ Turned(d) = 0 /\ InOverlap(previous, rotatedAt) => poster[d].prev = previous
=============================================================================
