---------------------------- MODULE SecurityEvents ----------------------------
(***************************************************************************)
(* What the log of security events stores of the metadata it is handed     *)
(* (security-events.service.ts): nested values are cut to a depth and a    *)
(* length, and what looks secret by its key or its text is redacted.       *)
(***************************************************************************)
EXTENDS Integers, Sequences

CONSTANTS
  MaxDepth,   \* values nested deeper are cut: 4 in the code
  MaxItems,   \* items of an array that are kept: 25 in the code
  InputDepth  \* bound: how deep the metadata handed in is nested

VARIABLES
  given,   \* the metadata of the event being recorded
  logged   \* what the row has of it

record == <<given, logged>>

\* A text is either harmless or looks like a token; a key names a secret or not.
Text(x) == [is |-> "TEXT", text |-> x]
List(xs) == [is |-> "LIST", items |-> xs]
Object(f) == [is |-> "OBJECT", fields |-> f]
Null == [is |-> "NULL"]
Redacted == Text("[REDACTED]")
Cut == Text("[TRUNCATED_DEPTH]")
NoKey == "errorMessage"
IsSensitiveKey(k) == k = "token"
LooksSensitive(x) == x = "JWT"

\* A key that names a secret hides all there is under it, whatever its shape.
RECURSIVE Normalize_LeavesOnly(_, _, _)
Normalize_LeavesOnly(v, depth, key) ==
  CASE depth > MaxDepth -> Cut
    [] v.is = "LIST" -> List([i \in DOMAIN v.items |->
         Normalize_LeavesOnly(v.items[i], depth + 1, NoKey)])
    [] v.is = "OBJECT" -> Object([k \in DOMAIN v.fields |->
         Normalize_LeavesOnly(v.fields[k], depth + 1, k)])
    [] v.is = "TEXT" /\ (IsSensitiveKey(key) \/ LooksSensitive(v.text)) -> Redacted
    [] OTHER -> v

RECURSIVE Normalize(_, _, _)
Normalize(v, depth, key) ==
  CASE depth > MaxDepth -> Cut
    [] depth <= MaxDepth /\ IsSensitiveKey(key) -> Redacted
    [] depth <= MaxDepth /\ ~IsSensitiveKey(key) ->
         CASE v.is = "LIST" -> List([i \in 1..(IF Len(v.items) < MaxItems THEN Len(v.items)
                                                ELSE MaxItems) |->
                Normalize(v.items[i], depth + 1, key)])
           [] v.is = "OBJECT" -> Object([k \in DOMAIN v.fields |->
                Normalize(v.fields[k], depth + 1, k)])
           [] v.is = "TEXT" -> IF LooksSensitive(v.text) THEN Redacted ELSE v
           [] v.is = "NULL" -> v

\* Nothing is stored of an empty list or object.
NormalizeEvent(v) ==
  LET n == Normalize(v, 0, NoKey)
  IN  IF (n.is = "LIST" /\ n.items = <<>>) \/ (n.is = "OBJECT" /\ DOMAIN n.fields = {})
      THEN Null ELSE n

-----------------------------------------------------------------------------
\* Bound: objects with one field, and lists of at most two items.
RECURSIVE Metadata(_)
Metadata(d) ==
  LET leaves == {Text("PLAIN"), Text("JWT")}
      inner == Metadata(d - 1)
  IN  IF d = 0 THEN leaves
      ELSE leaves \cup {Object(<<>>), List(<<>>)}
        \cup {Object([k \in {"note"} |-> v]) : v \in inner}
        \cup {Object([k \in {"token"} |-> v]) : v \in inner}
        \cup {List(<<v>>) : v \in inner} \cup {List(<<v, Text("PLAIN")>>) : v \in inner}

RecordEvent(v) ==
  /\ given = Null
  /\ given' = v
  /\ logged' = NormalizeEvent(v)

Init == given = Null /\ logged = Null

Next == \E v \in Metadata(InputDepth) \ {Null} : RecordEvent(v)

Spec == Init /\ [][Next]_record

-----------------------------------------------------------------------------
\* The texts in a value, with whether a key above them names a secret, and how
\* deep they are.
RECURSIVE Texts(_, _, _)
Texts(v, under, depth) ==
  CASE v.is = "TEXT" -> {[text |-> v.text, under |-> under, depth |-> depth]}
    [] v.is = "LIST" -> UNION {Texts(v.items[i], under, depth + 1) : i \in DOMAIN v.items}
    [] v.is = "OBJECT" -> UNION {Texts(v.fields[k], under \/ IsSensitiveKey(k), depth + 1) :
                                   k \in DOMAIN v.fields}
    [] v.is = "NULL" -> {}

\* docs/ADMIN_ROLE_PERMISSIONS.md:121: "audit metadata never contains passwords,
\* JWTs, TOTP/recovery codes or reauthentication tokens". However it is nested,
\* no stored text looks like a token or stands under a key that names a secret,
\* none is deeper than the cut, and no harmless text is stored that was not given.
SecretsStayOut ==
  \A t \in Texts(logged, FALSE, 0) :
    /\ ~LooksSensitive(t.text)
    /\ t.under => Text(t.text) \in {Redacted, Cut}
    /\ t.depth <= MaxDepth + 1
    /\ Text(t.text) \in {Redacted, Cut} \/ t \in Texts(given, FALSE, 0)
=============================================================================
