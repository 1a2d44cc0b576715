---------------------------- MODULE OllamaClient ----------------------------
(***************************************************************************)
(* generate_json (narration/ollama_client.py): one POST to a local Ollama  *)
(* server.  What can happen on the wire, in the order the code meets it,   *)
(* and what the caller sees of it.                                         *)
(***************************************************************************)

(* The HTTP exchange: an error status; an OSError (refused, timeout, DNS); *)
(* a body cut short or a malformed status line, which http.client reports  *)
(* as an HTTPException that is no OSError.                                 *)
TransportFailures == {"http_error", "os_error", "protocol_error"}

(* The body: bytes that do not decode (UnicodeDecodeError), text that is   *)
(* not JSON, an envelope without a string "response".                      *)
EnvelopeFailures == {"undecodable", "not_json", "no_response"}

(* The model's own text: not JSON, JSON that is no object, an object.      *)
ModelTexts == {"inner_not_json", "inner_other", "inner_dict"}

Wire == TransportFailures \cup EnvelopeFailures \cup ModelTexts

(* "client_error" is OllamaClientError; "uncaught" is any other exception. *)
ClientResult(w) ==
  IF w \in {"http_error", "os_error", "not_json", "no_response", "inner_not_json"}
  THEN "client_error"
  ELSE IF w \in {"inner_dict", "inner_other"} THEN w
  ELSE "uncaught"

=============================================================================
