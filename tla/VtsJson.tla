------------------------------ MODULE VtsJson ------------------------------
(***************************************************************************)
(* The requests of the VTS clients as the server reads them: json_get_str  *)
(* of req_handler.c searches the text for "key", then for a colon, then    *)
(* for the next quoted string; it does not parse.  A payload is the        *)
(* sequence of its quoted strings, punctuation and bare numbers.           *)
(***************************************************************************)
EXTENDS Naturals, Sequences, FiniteSetsExt

Str(s) == <<"str", s>>
Punct(s) == <<"punct", s>>
Number == <<"number", "0">>
Colon == Punct(":")

\* The result when a field is not found; the callers test the return code.
None == "(none)"

\* strstr or strchr from position i on: the first of the tokens, or 0.
First(p, i, tokens) ==
  LET found == {k \in i .. Len(p) : p[k] \in tokens}
  IN  IF found = {} THEN 0 ELSE Min(found)

\* The quoted strings of a payload.
Strings(p) == {p[i] : i \in {k \in DOMAIN p : p[k][1] = "str"}}

json_get_str(p, key) ==
  LET k == First(p, 1, {Str(key)})
      colon == First(p, k, {Colon})
      q == First(p, colon, Strings(p))
  IN  IF k = 0 \/ colon = 0 \/ q = 0 THEN None ELSE p[q][2]

Has(p, key) == \E i \in DOMAIN p : p[i] = Str(key)

\* process_one: a payload with "cmd" anywhere is a CLI request.
IsCli(p) == Has(p, "cmd")

-----------------------------------------------------------------------------
(* What the clients send.                                                   *)

Field(key, val) == <<Str(key), Colon, Str(val)>>
Open == <<Punct("{")>>
Close == <<Punct("}")>>
Comma == <<Punct(",")>>

\* build_payload of system_monitor.c, without and with --set
CliPayload(cmd, target, name) ==
  Open \o Field("cmd", cmd) \o Comma \o Field("target", target) \o Comma
       \o Field("name", name) \o Close

EditPayload(target, name, key, val) ==
  Open \o Field("cmd", "edit") \o Comma \o Field("target", target) \o Comma
       \o Field("name", name) \o Comma \o Field("key", key) \o Comma
       \o Field("val", val) \o Close

\* vts_adapter.c: req_id is a number, not a string
ApplyPayload(id, type, state) ==
  Open \o Field("type", "room.apply") \o Comma
       \o <<Str("req_id"), Colon, Number>> \o Comma
       \o <<Str("room"), Colon>> \o Open \o Field("id", id) \o Comma
       \o Field("type", type) \o Comma \o Field("state", state) \o Close \o Close

RoomPayload(op, id) ==
  Open \o Field("type", op) \o Comma
       \o <<Str("req_id"), Colon, Number>> \o Comma \o Field("id", id) \o Close

\* The requests of the load generator (fields req_id and op, then one more).
LegacyPayload(req_id, op) ==
  Open \o Field("req_id", req_id) \o Comma \o Field("op", op) \o Comma
       \o Field("body", "hello") \o Close

=============================================================================
