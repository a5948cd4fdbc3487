------------------------------ MODULE ApiKeys -------------------------------
(***************************************************************************)
(* API keys (api-keys.service.ts) and the guard that asks for them         *)
(* (api-key.guard.ts), with the arithmetic of address ranges on words of W *)
(* bits (32 in the code, where a shift counts modulo 32).  A word is the   *)
(* function of its bits, the leading one first.                            *)
(*                                                                         *)
(* Abstractions.  An entry of allowed_ips is a range with a prefix length  *)
(* or a single address; malformed addresses, and prefixes longer than W,   *)
(* are left out.  The UPDATE that finds a key by its hash is one step with *)
(* the checks on what it returns.                                          *)
(***************************************************************************)
EXTENDS Integers, Sequences, FiniteSets

CONSTANTS
    ApiKeyIds,
    W,              \* bits of an address
    MaxDecisions    \* bound: requests decided

ASSUME ApiKeysAssumption == W \in Nat \ {0} /\ MaxDecisions \in Nat

Addresses == [1..W -> {0, 1}]
Single == W + 1     \* the prefix length of an entry without one
AllowedEntries == [range : Addresses, bits : 0..Single]
ScopeRank == [read_only |-> 1, webhooks |-> 2, full_access |-> 3]
Scopes == DOMAIN ScopeRank

VARIABLES
    apiKey,     \* rows of api_keys
    decision    \* what the guard decided, in order

apiKeysVars == <<apiKey, decision>>

NoKeyYet == [state |-> "none", scope |-> "read_only", entry |-> {}]

ApiKeysInit ==
    /\ apiKey = [k \in ApiKeyIds |-> NoKeyYet]
    /\ decision = <<>>

\* allowed_ips is NULL or a list
CreateKey(k, scope, entry) ==
    /\ apiKey[k].state = "none"
    /\ apiKey' = [apiKey EXCEPT ![k] = [state |-> "live", scope |-> scope, entry |-> entry]]
    /\ UNCHANGED decision

\* revoke, or expires_at
EndKey(k, how) ==
    /\ apiKey[k].state = "live"
    /\ apiKey' = [apiKey EXCEPT ![k].state = how]
    /\ UNCHANGED decision

Ones == [i \in 1..W |-> 1]     \* ~0
Zero == [i \in 1..W |-> 0]
And(a, b) == [i \in 1..W |-> IF a[i] = 1 THEN b[i] ELSE 0]
ShiftLeft(a, n) == [i \in 1..W |-> IF i + (n % W) <= W THEN a[i + (n % W)] ELSE 0]

\* Mutant: a prefix of length zero is not set apart.
ShiftedMask(bits) == ShiftLeft(Ones, W - bits)

\* (~0 << (W - bits)) >>> 0
Mask(bits) == IF bits = 0 THEN Zero ELSE ShiftLeft(Ones, W - bits)

\* ipMatchesCidr
IpMatchesCidr(ip, entry) ==
    IF entry.bits = Single THEN ip = entry.range
    ELSE And(ip, Mask(entry.bits)) = And(entry.range, Mask(entry.bits))

IsIpAllowed(ip, entries) == entries = {} \/ \E x \in entries : IpMatchesCidr(ip, x)

\* validate: the UPDATE finds no row of a key that has ended.
Validates(k, ip) == apiKey[k].state = "live" /\ IsIpAllowed(ip, apiKey[k].entry)

\* canActivate
Decide(k, ip, required) ==
    /\ Len(decision) < MaxDecisions
    /\ decision' = Append(decision,
          [k |-> k, ip |-> ip, required |-> required, state |-> apiKey[k].state,
           let |-> /\ Validates(k, ip)
                   /\ ScopeRank[apiKey[k].scope] >= ScopeRank[required]])
    /\ UNCHANGED apiKey

ApiKeysNext ==
    \/ \E k \in ApiKeyIds :
          \/ \E scope \in Scopes, entry \in {{}} \union {{x} : x \in AllowedEntries} :
                CreateKey(k, scope, entry)
          \/ EndKey(k, "revoked") \/ EndKey(k, "expired")
          \/ \E ip \in Addresses, required \in Scopes : Decide(k, ip, required)

ApiKeysSpec == ApiKeysInit /\ [][ApiKeysNext]_apiKeysVars

-----------------------------------------------------------------------------
KeyStates == {"none", "live", "revoked", "expired"}
ApiKeyRows == [state : KeyStates, scope : Scopes, entry : SUBSET AllowedEntries]
Decisions == [k : ApiKeyIds, ip : Addresses, required : Scopes, state : KeyStates, let : BOOLEAN]

ApiKeysTypeOK ==
    /\ apiKey \in [ApiKeyIds -> ApiKeyRows]
    /\ decision \in Seq(Decisions) /\ Len(decision) <= MaxDecisions

\* Reference: two addresses share their first n bits.
SamePrefix(a, b, n) == \A i \in 1..n : a[i] = b[i]

\* A key lets an address through exactly when it has no list or the address
\* shares the leading bits of an entry, from none of them (/0) to all (/W),
\* where the shift by W or by 0 is the edge (ipMatchesCidr, line 30).
AddressesAsListed ==
    \A n \in DOMAIN decision :
        LET d == decision[n]
            listed == apiKey[d.k].entry
        IN d.state = "live" /\ ScopeRank[apiKey[d.k].scope] >= ScopeRank[d.required] =>
              d.let = (listed = {} \/ \E x \in listed : SamePrefix(d.ip, x.range,
                                         IF x.bits = Single THEN W ELSE x.bits))
=============================================================================
