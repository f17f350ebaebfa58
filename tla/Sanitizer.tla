----------------------------- MODULE Sanitizer -----------------------------
(***************************************************************************)
(* sanitize (server/audit/Sanitizer.cpp): which details an audit event may *)
(* carry.  A payload is the set of its leaves, each with the keys on the   *)
(* way to it; of a key its name in lower case and the denied words in it   *)
(* are kept, of a text its length and alphabet.  The walk ends at the      *)
(* first leaf it objects to, so its answer does not depend on their order. *)
(***************************************************************************)
EXTENDS Integers, Sequences

MAX_DEPTH == 8
MAX_TOTAL_BYTES == 64 * 1024

ALLOWED_KEYS ==
  {"userid", "sessionid", "accountid", "transactionid", "entityid", "tokenid", "subjectid",
   "actoruserid", "domain", "outcome", "action", "kind", "reason", "version", "seq", "ts",
   "count", "added", "modified", "removed", "httpstatus", "errorcode", "transports"}

\* Hex digits are base64 letters too; up to two '=' at the end count as base64.
Alphabets == {"hex", "base64", "other"}
Texts == [size : Nat, chars : Alphabets]

\* Variant: a key needs to be on the list ("closed by default").
ListedKey(key) == key.name \in ALLOWED_KEYS

\* has: which of DENY_KEY_SUBSTRINGS the name contains.
KeyAllowed(key) == key.name \in ALLOWED_KEYS \/ key.has = {}

LooksLikeToken(text) == text.size >= 32 /\ text.chars # "other"

Containers == {"object", "array"}

ValueAllowed(value) ==
  CASE value.kind = "string" -> ~LooksLikeToken(value.text)
    [] value.kind = "float"  -> value.finite
    [] OTHER -> value.kind \in {"null", "integer", "boolean"} \union Containers

\* The payload itself is at depth 0; a leaf that is a container is an empty one.
DepthOf(leaf) == Len(leaf.path) - (IF leaf.value.kind \in Containers THEN 0 ELSE 1)

LeafAllowed(leaf) ==
  /\ DepthOf(leaf) <= MAX_DEPTH
  /\ \A i \in DOMAIN leaf.path : KeyAllowed(leaf.path[i])
  /\ ValueAllowed(leaf.value)

Accepted(details) ==
  /\ details.isObject
  /\ \A leaf \in details.leaves : LeafAllowed(leaf)
  /\ details.bytes <= MAX_TOTAL_BYTES
=============================================================================
