---------------------------- MODULE ModelAnswers ----------------------------
(***************************************************************************)
(* What a language model's adapter (providers/ollama.py, providers/openai.py) *)
(* makes of the reply to a request for JSON.                                 *)
(*                                                                          *)
(* A reply is [api, received, ...]: api is "ollama", "responses" (OpenAI's   *)
(* own server) or "chat" (any other behind the same interface); received is  *)
(* FALSE after a transport error, an HTTP error, a body that is not JSON or   *)
(* the timeout, on the last attempt.  A text in it is None or [json, answer], *)
(* json telling what it parses to: "object", "other" or "nothing".           *)
(***************************************************************************)
EXTENDS InvoiceExtraction

\* extract_ollama_output_text.
OllamaText(reply) == IF reply.message # None THEN reply.message ELSE reply.response

\* raise_for_openai_response_error; chat servers tell of an error alone.
Refused(reply) ==
  \/ reply.api # "ollama" /\ reply.error # None
  \/ reply.api = "responses" /\ reply.status \in {"failed", "cancelled", "incomplete"}

\* extract_openai_output_text: the text, or that of all the output items.
ResponsesText(reply) == IF reply.outputText # None THEN reply.outputText ELSE reply.chunks

\* Only the first choice counts, and nobody asks why it ended.
ChatText(reply) ==
  IF reply.choices = <<>> THEN None ELSE reply.choices[1]

OutputText(reply) ==
  CASE reply.api = "ollama"    -> OllamaText(reply)
    [] reply.api = "responses" -> ResponsesText(reply)
    [] OTHER                   -> ChatText(reply)

\* parse_structured_output wraps what is no object; without JSON there is no answer.
Structured(text) ==
  CASE text.json = "object" -> text.answer
    [] text.json = "other"  -> [shape |-> "invalid", body |-> None]
    [] OTHER                -> [shape |-> "error", body |-> "ERR_LLM_OUTPUT_MISSING"]

\* generate: whatever is raised ends as ERR_LLM_PROVIDER_FAILED.
AnswerTo(reply) ==
  IF ~reply.received \/ Refused(reply) \/ OutputText(reply) = None
  THEN [shape |-> "error", body |-> "ERR_LLM_PROVIDER_FAILED"]
  ELSE Structured(OutputText(reply))
=============================================================================
