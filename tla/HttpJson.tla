------------------------------- MODULE HttpJson -------------------------------
(***************************************************************************)
(* What the program makes of an HTTP request: access_http of               *)
(* CurlWrapper.cpp, its two callers in json_data.cpp, and the decoding of  *)
(* an answer in tele_task_consumer.cpp, down to what the threads tell      *)
(* apart.  A body is named for the first test it fails, or for its value.  *)
(*                                                                         *)
(* A body that is JSON but no object, or has a member that is no string,   *)
(* makes the JSON library throw.  Nothing catches that: the process ends,  *)
(* with all its threads, so that no thread goes on from such an answer.    *)
(* What remains of the process is what FetchLedger!Crash leaves.           *)
(***************************************************************************)
EXTENDS TeleTask

\* A handle, for the life of a thread; NULL when curl or its header failed.
CreateCurl == {"handle", "NULL"}

\* How a transfer ends: the time-out of the handle may cut it short.
Transfer == {"nothing", "cut_short", "complete"}

(* What has arrived, whatever curl's code and the HTTP status, which are   *)
(* only logged; the beginning of a JSON text is not a JSON text.           *)
access_http(transfer, body) ==
  CASE transfer = "nothing"   -> ""
    [] transfer = "cut_short" -> "not_json"
    [] transfer = "complete"  -> body

get_value_by_url(cu, transfer, body) ==
  IF cu = "NULL" THEN "" ELSE access_http(transfer, body)

-----------------------------------------------------------------------------
(* The token. *)

TokenBody ==
  Token \cup {"", "not_json", "no_object", "no_result", "no_string", "empty_result"}

get_toKen_by_url(cu, transfer, body) ==
  LET str == get_value_by_url(cu, transfer, body)
  IN  CASE str \in {"no_object", "no_string"} -> "throws"
        [] str \in Token                      -> str
        [] OTHER                              -> NoToken

TokenAnswer ==
  {get_toKen_by_url(cu, transfer, body) :
     cu \in CreateCurl, transfer \in Transfer, body \in TokenBody} \ {"throws"}

-----------------------------------------------------------------------------
(* The value. *)

\* Its error texts share the channel with the values.
GetJsonValue ==
  [not_json            |-> "error",
   no_object           |-> "throws",
   no_message          |-> "error",
   message_no_string   |-> "throws",
   message_not_ok      |-> "errortoken",
   no_result           |-> "",
   result_no_object    |-> "throws",
   no_value            |-> "",
   value_no_string     |-> "throws",
   length_0_or_100     |-> "",
   value_error         |-> "error",
   value_errortoken    |-> "errortoken",
   value_not_base64    |-> "not_base64",
   value_base64        |-> "base64"]

ValueBody == {""} \cup DOMAIN GetJsonValue

\* Uncompressbase64: how many bytes BIO_read may return for a value.
Uncompressbase64 == [not_base64 |-> {-1, 0}, base64 |-> {0, 1}]

(* The string DeBase64 may make of them.  For no bytes it reads and writes *)
(* beside its buffer, which it never initialised: any string may come out. *)
DeBase64(json_value) ==
  UNION {IF len > 0 THEN {"", "data"} ELSE {"", "garbage"} :
           len \in Uncompressbase64[json_value]}

\* What the thread is left with: an answer to fetch again ("fail") or to
\* drop, a refused token, or something it hands to Store.
Outcome(value) ==
  IF value = "" THEN {"fail"}
  ELSE LET json_value == GetJsonValue[value]
       IN  CASE json_value = "throws"        -> {"throws"}
             [] json_value \in {"", "error"} -> {"drop"}
             [] json_value = "errortoken"    -> {"refused"}
             [] OTHER -> {IF result = "" THEN "drop" ELSE "store" :
                            result \in DeBase64(json_value)}

FetchOutcome ==
  (UNION {Outcome(get_value_by_url(cu, transfer, body)) :
            cu \in CreateCurl, transfer \in Transfer, body \in ValueBody}) \ {"throws"}

=============================================================================
