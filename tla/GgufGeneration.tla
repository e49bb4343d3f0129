--------------------------- MODULE GgufGeneration ---------------------------
(* One inference from the request to its answer: the executor looks for a     *)
(* model file (executor/mod.rs), the back end loads it and runs the llama.cpp *)
(* loop (inference/gguf.rs).  Tokens are counted, not named: what matters is  *)
(* how many a batch and a context take, where the loop stops and what has     *)
(* been printed by then.                                                      *)
EXTENDS Naturals

CONSTANTS
  File,           \* the .gguf files that may be in models_dir
  Exact,          \* those named as the request names the model
  Similar,        \* those the substring test takes for it
  None,
  n_ctx,          \* GgufConfig::n_ctx
  BatchCapacity,  \* the 512 of LlamaBatch::new(512, 1)
  Prompts,        \* bound: prompt lengths, in tokens
  MaxTokens       \* bound: values of max_tokens

VARIABLES
  files,        \* what models_dir holds
  phase, path,  \* of the request
  prompt, max_tokens,
  kv,           \* cells of the llama context in use
  n_cur, token_count,
  text,         \* pieces in output
  streamed,     \* pieces given to the token callback
  finish_reason

request == <<path, prompt, max_tokens, kv, n_cur, token_count, text, streamed, finish_reason>>
vars == <<files, phase, request>>

Phase == {"idle", "found", "loaded", "sampling", "decoding", "done", "failed", "noModel"}
Reason == {"none", "Stop", "Length"}

TypeOK ==
  /\ files \subseteq File
  /\ phase \in Phase
  /\ path \in File \cup {None}
  /\ prompt \in Nat /\ max_tokens \in Nat /\ kv \in Nat
  /\ n_cur \in Nat /\ token_count \in Nat
  /\ text \in Nat /\ streamed \in Nat
  /\ finish_reason \in Reason

Init ==
  /\ files \in SUBSET File
  /\ phase = "idle" /\ path = None /\ prompt = 0 /\ max_tokens = 0
  /\ kv = 0 /\ n_cur = 0 /\ token_count = 0 /\ text = 0 /\ streamed = 0
  /\ finish_reason = "none"

Fail(how) == phase' = how /\ UNCHANGED <<files, request>>

\* Files come (models download) and go while requests run.
ModelsChange ==
  /\ files' \in SUBSET File
  /\ UNCHANGED <<phase, request>>

\* The exact name, else the first similar one, else the first of any name.
Candidates ==
  IF files \cap Exact # {} THEN files \cap Exact
  ELSE IF files \cap Similar # {} THEN files \cap Similar ELSE files

\* A tokenized prompt has at least its BOS token.
Ask ==
  /\ phase \in {"idle", "done", "failed", "noModel"}
  /\ prompt' \in Prompts /\ max_tokens' \in MaxTokens
  /\ IF Candidates = {} THEN phase' = "noModel" /\ path' = None
                        ELSE phase' = "found" /\ path' \in Candidates
  /\ kv' = 0 /\ n_cur' = 0 /\ token_count' = 0 /\ text' = 0 /\ streamed' = 0
  /\ finish_reason' = "none"
  /\ UNCHANGED files

load_model ==
  /\ phase = "found"
  /\ IF path \in files THEN phase' = "loaded" /\ UNCHANGED <<files, request>>
     ELSE Fail("noModel")

\* LlamaContext::decode: needs a cell for each token of the batch.
CanDecode(tokens) == kv + tokens <= n_ctx

\* Mutant: a batch with one slot too few.
DecodePromptShort ==
  /\ phase = "loaded"
  /\ IF prompt < BatchCapacity /\ CanDecode(prompt)
     THEN /\ phase' = "sampling"
          /\ kv' = kv + prompt /\ n_cur' = prompt
          /\ UNCHANGED <<files, path, prompt, max_tokens, token_count, text, streamed,
                         finish_reason>>
     ELSE Fail("failed")

\* The whole prompt is one batch.
DecodePrompt ==
  /\ phase = "loaded"
  /\ IF prompt <= BatchCapacity /\ CanDecode(prompt)
     THEN /\ phase' = "sampling"
          /\ kv' = kv + prompt /\ n_cur' = prompt
          /\ UNCHANGED <<files, path, prompt, max_tokens, token_count, text, streamed,
                         finish_reason>>
     ELSE Fail("failed")

\* Mutant: > for >= in the reason.
FinishAbove ==
  /\ phase' = "done"
  /\ finish_reason' = IF token_count > max_tokens THEN "Length" ELSE "Stop"
  /\ UNCHANGED <<files, path, prompt, max_tokens, kv, n_cur, token_count, text, streamed>>

\* The answer: Length when the count was reached, whatever ended the loop.
Finish ==
  /\ phase' = "done"
  /\ finish_reason' = IF token_count >= max_tokens THEN "Length" ELSE "Stop"
  /\ UNCHANGED <<files, path, prompt, max_tokens, kv, n_cur, token_count, text, streamed>>

LoopEnds == phase = "sampling" /\ token_count >= max_tokens /\ Finish
EndOfGeneration == phase = "sampling" /\ token_count < max_tokens /\ Finish

\* A sampled token: its piece is text, or bytes that are not UTF-8 on their own
\* (half a character) and are dropped.
Sample ==
  /\ phase = "sampling" /\ token_count < max_tokens
  /\ \E valid \in {0, 1} : text' = text + valid /\ streamed' = streamed + valid
  /\ token_count' = token_count + 1
  /\ phase' = "decoding"
  /\ UNCHANGED <<files, path, prompt, max_tokens, kv, n_cur, finish_reason>>

\* Mutant: the position is not advanced.
DecodeTokenInPlace ==
  /\ phase = "decoding"
  /\ IF CanDecode(1)
     THEN /\ phase' = "sampling" /\ kv' = kv + 1
          /\ UNCHANGED <<files, path, prompt, max_tokens, n_cur, token_count, text, streamed,
                         finish_reason>>
     ELSE Fail("failed")

\* Each sampled token is decoded, the last one too; an error loses the output.
DecodeToken ==
  /\ phase = "decoding"
  /\ IF CanDecode(1)
     THEN /\ phase' = "sampling"
          /\ kv' = kv + 1 /\ n_cur' = n_cur + 1
          /\ UNCHANGED <<files, path, prompt, max_tokens, token_count, text, streamed,
                         finish_reason>>
     ELSE Fail("failed")

Next ==
  \/ ModelsChange \/ Ask \/ load_model
  \/ DecodePrompt \/ Sample \/ DecodeToken \/ LoopEnds \/ EndOfGeneration

Spec == Init /\ [][Next]_vars

-----------------------------------------------------------------------------
\* A loaded model answers every request whose prompt fits one batch and whose
\* prompt and tokens fit the context: the last token is decoded although
\* nothing is sampled after it, and still has its cell.
SmallEnoughSucceeds ==
  phase = "failed" => prompt > BatchCapacity \/ prompt + max_tokens > n_ctx

\* Each token gets the position after the one before it, so the positions the
\* code counts are the cells the context has used; the count bounds the answer,
\* it says Length exactly when it is what ended the answer, and what was
\* streamed is the text.
AnswerCounted ==
  /\ n_cur = kv
  /\ token_count <= max_tokens
  /\ text <= token_count /\ streamed = text
  /\ phase = "done" =>
       (finish_reason = "Length" <=> token_count = max_tokens)
=============================================================================
