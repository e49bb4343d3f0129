----------------------------- MODULE SafetyLayer -----------------------------
(* What becomes of the output of a tool on its way to the model: its length,  *)
(* the secrets in it, the policy and the patterns of the sanitizer are looked *)
(* at in this order (safety/mod.rs).  Secrets are replaced from the last to   *)
(* the first by positions found before, though what a secret is named by      *)
(* may match together with it (safety/leak_detector.rs).                      *)
EXTENDS Naturals, Sequences, FiniteSets

CONSTANTS
  MaxLength,  \* bound on the length of an output
  Limits,     \* values of max_output_length
  MaxSecrets  \* matches with which the strict mode still redacts

VARIABLES
  output,     \* the output of the tool
  max_output_length, leak_detection_enabled, policy_enabled,
  injection_defense_enabled, \* SafetyConfig
  content,    \* the output as it stands
  sorted_matches, \* the matches still to be replaced, the last one first
  patterns,   \* the sanitizer's patterns still to be looked for
  at, action, \* the step, and SanitizedOutput::action
  warnings    \* the patterns that were found

config == <<max_output_length, leak_detection_enabled, policy_enabled, injection_defense_enabled>>
vars == <<output, config, content, sorted_matches, patterns, at, action, warnings>>

\* SECRET_PATTERNS: most match a secret by itself; the generic ones and those of
\* AWS and Heroku match a name (as api_key=) together with the secret after it;
\* of a private key they match the header line, and the lines below it, "body"
\* here, not (leak_detector.rs:90-104).
Secret == {"key", "token"}
Named == {"name"}

\* Matches that may have other characters than ASCII near their start: a URL with
\* a password, and spaces of any script after "bearer" or a name.
MayBeWide == {"token"} \cup Named

\* Rules that block and rules that only warn.
Blocking == {"policy"}
DEFAULT_RULES == Blocking \cup {"caps"}

\* One pattern for each action that changes the text or its fate, in the order
\* in which the first of each comes; the patterns that warn change nothing.
INJECTION_PATTERNS == <<"Remove", "Escape", "Block">>

\* An output is text with parts that a pattern or rule matches.
Kind == Secret \cup Named \cup DEFAULT_RULES
        \cup {"body", "Remove", "Escape", "Block", "text"}
Outputs == UNION {[1..n -> Kind] : n \in 0..MaxLength}

TypeOK ==
  /\ output \in Seq(Kind) /\ Len(output) <= MaxLength
  /\ content \in Seq(Kind \cup {"REDACTED", "escaped", "truncated", "blocked"})
  /\ sorted_matches \in Seq((1..MaxLength) \X (1..MaxLength))
  /\ at \in {"new", "ready", "length", "scan", "replace", "policy", "sanitize", "done", "panicked"}
  /\ action \in {"Allowed", "Modified", "Truncated", "Blocked"}
  /\ warnings \subseteq {"Remove", "Escape", "Block"}

Init ==
  /\ output = <<>> /\ max_output_length \in Limits
  /\ leak_detection_enabled = TRUE /\ policy_enabled = TRUE
  /\ injection_defense_enabled = TRUE
  /\ content = <<>> /\ sorted_matches = <<>> /\ warnings = {}
  /\ patterns = <<>> /\ at = "new" /\ action = "Allowed"

\* A layer with one of its parts switched off, or none.
Configure ==
  /\ at = "new"
  /\ \/ UNCHANGED config
     \/ leak_detection_enabled' = FALSE
          /\ UNCHANGED <<max_output_length, policy_enabled, injection_defense_enabled>>
     \/ policy_enabled' = FALSE
          /\ UNCHANGED <<max_output_length, leak_detection_enabled, injection_defense_enabled>>
     \/ injection_defense_enabled' = FALSE
          /\ UNCHANGED <<max_output_length, leak_detection_enabled, policy_enabled>>
  /\ at' = "ready"
  /\ UNCHANGED <<output, content, sorted_matches, patterns, action, warnings>>

Take ==
  /\ at = "ready"
  /\ \E o \in Outputs : output' = o /\ content' = o
  /\ patterns' = INJECTION_PATTERNS
  /\ at' = "length"
  /\ UNCHANGED <<config, sorted_matches, action, warnings>>

Result(text, verdict) ==
  content' = text /\ action' = verdict /\ at' = "done"

CheckLength ==
  /\ at = "length"
  /\ \/ /\ Len(content) > max_output_length
        /\ Result(SubSeq(content, 1, max_output_length) \o <<"truncated">>, "Truncated")
     \/ /\ Len(content) <= max_output_length
        /\ at' = IF leak_detection_enabled THEN "scan" ELSE "policy"
        /\ UNCHANGED <<content, action>>
  /\ UNCHANGED <<output, config, sorted_matches, patterns, warnings>>

\* A pattern matches a secret from its first character to its last.
Secrets(text) ==
  {<<a, b>> \in (DOMAIN text) \X (DOMAIN text) :
     /\ a <= b /\ text[a] \in Secret /\ \A i \in a..b : text[i] = text[a]
     /\ a = 1 \/ text[a - 1] # text[a]
     /\ b = Len(text) \/ text[b + 1] # text[a]}
Matches(text) ==
  LET whole == Secrets(text)
  IN  whole \cup {<<m[1] - 1, m[2]>> : m \in {n \in whole : n[1] > 1 /\ text[n[1] - 1] \in Named}}
Overlap(text) == Matches(text) # Secrets(text)
WideMatch(text) == \E m \in Matches(text) : text[m[1]] \in MayBeWide

LastFirst(S) ==
  CHOOSE q \in [1..Cardinality(S) -> S] :
    \A i, j \in DOMAIN q : i < j => q[i][1] > q[j][1]

\* The preview of a match is cut at its tenth byte, which panics inside a
\* character; too many matches block the output.
Scan ==
  /\ at = "scan"
  /\ LET found == Matches(content) IN
       \/ /\ WideMatch(content)
          /\ at' = "panicked" /\ UNCHANGED <<content, action, sorted_matches>>
       \/ /\ Cardinality(found) > MaxSecrets
          /\ Result(<<"blocked">>, "Blocked") /\ UNCHANGED sorted_matches
       \/ /\ Cardinality(found) <= MaxSecrets
          /\ sorted_matches' = LastFirst(found)
          /\ at' = "replace" /\ UNCHANGED <<content, action>>
  /\ UNCHANGED <<output, config, patterns, warnings>>

\* Mutant: the range leaves the last character of the match.
ReplaceShort ==
  /\ at = "replace" /\ sorted_matches # <<>>
  /\ LET m == Head(sorted_matches) IN
       IF m[2] > Len(content) THEN at' = "panicked" /\ UNCHANGED content
       ELSE /\ content' = SubSeq(content, 1, m[1] - 1) \o <<"REDACTED">>
                           \o SubSeq(content, m[2], Len(content))
            /\ UNCHANGED at
  /\ sorted_matches' = Tail(sorted_matches)
  /\ UNCHANGED <<output, config, patterns, action, warnings>>

\* replace_range by the positions of the match, though the text has changed: they
\* may be past its end, or inside a character.
Replace ==
  /\ at = "replace" /\ sorted_matches # <<>>
  /\ LET m == Head(sorted_matches) IN
       \/ /\ m[2] \notin {i \in DOMAIN content : content[i] \in Secret \cup {"REDACTED"}}
          /\ at' = "panicked" /\ UNCHANGED content
       \/ /\ m[2] <= Len(content)
          /\ content' = SubSeq(content, 1, m[1] - 1) \o <<"REDACTED">>
                           \o SubSeq(content, m[2] + 1, Len(content))
            /\ UNCHANGED at
  /\ sorted_matches' = Tail(sorted_matches)
  /\ UNCHANGED <<output, config, patterns, action, warnings>>

Replaced ==
  /\ at = "replace" /\ sorted_matches = <<>>
  /\ at' = "policy"
  /\ UNCHANGED <<output, config, content, sorted_matches, patterns, action, warnings>>

In(kind, text) == \E i \in DOMAIN text : text[i] = kind
Blocks(text) == \E rule \in Blocking : In(rule, text)

\* A rule's preview is cut at the thirtieth byte of what it matches, whatever the
\* rule does.
Policy ==
  /\ at = "policy"
  /\ \/ /\ policy_enabled /\ \E rule \in DEFAULT_RULES : In(rule, content)
        /\ at' = "panicked" /\ UNCHANGED <<content, action>>
     \/ /\ policy_enabled /\ Blocks(content)
        /\ Result(<<"blocked">>, "Blocked")
     \/ /\ ~(policy_enabled /\ Blocks(content))
        /\ at' = IF injection_defense_enabled THEN "sanitize" ELSE "done"
        /\ UNCHANGED <<content, action>>
  /\ UNCHANGED <<output, config, sorted_matches, patterns, warnings>>

\* Each pattern sees what the ones before it made of the text.
Sanitize ==
  /\ at = "sanitize" /\ patterns # <<>>
  /\ patterns' = Tail(patterns)
  /\ LET p == Head(patterns) IN
       \/ ~In(p, content) /\ UNCHANGED <<content, action, at, warnings>>
       \/ /\ In(p, content)
          /\ warnings' = warnings \cup {p}
          /\ \/ p = "Block" /\ Result(<<"blocked">>, "Blocked")
             \/ /\ p = "Remove" /\ action' = "Modified"
                /\ content' = SelectSeq(content, LAMBDA x : x # p)
                /\ UNCHANGED at
             \/ /\ p = "Escape" /\ action' = "Modified"
                /\ content' = [i \in DOMAIN content |-> IF content[i] = p THEN "escaped" ELSE content[i]]
                /\ UNCHANGED at
  /\ UNCHANGED <<output, config, sorted_matches>>

Sanitized ==
  /\ at = "sanitize" /\ patterns = <<>>
  /\ at' = "done"
  /\ UNCHANGED <<output, config, content, sorted_matches, patterns, action, warnings>>

Next ==
  \/ Configure \/ Take \/ CheckLength \/ Scan
  \/ Replace \/ Replaced \/ Policy \/ Sanitize \/ Sanitized
Spec == Init /\ [][Next]_vars

\* The output with each secret as one redaction, kept whole otherwise.
Redacted ==
  LET starts == {m[1] : m \in Secrets(output)}
      kept == SelectSeq([i \in DOMAIN output |-> i],
                        LAMBDA i : output[i] \notin Secret \/ i \in starts)
  IN  [i \in DOMAIN kept |-> IF output[kept[i]] \in Secret THEN "REDACTED" ELSE output[kept[i]]]

\* When every match is replaced nothing a pattern matches is left, and each is one
\* redaction and all other text is there, in order, whatever the lengths of the
\* secrets (leak_detector.rs:268: reverse order for safe replacement), unless a
\* name matched with its secret: then text after it may go too, or the positions
\* are no longer good and the call panics.  A match that is not ASCII or breaks a
\* rule may be a panic too, other text never is.
RedactionExact ==
  /\ at \in {"policy", "sanitize"} /\ leak_detection_enabled /\ warnings = {} =>
       content = Redacted \/ Overlap(output)
  /\ at = "panicked" =>
       \/ leak_detection_enabled /\ (Overlap(output) \/ WideMatch(output))
       \/ policy_enabled /\ \E rule \in DEFAULT_RULES : In(rule, output)

\* What comes out of a layer that looks for secrets has none that a pattern
\* matches, except an output above the limit: it is cut and returned before the
\* scan, with the secrets in what is left of it (safety/mod.rs:123-134, against
\* line 6, "Detect leaks and injection attempts before LLM sees them").  Below
\* it the body of a private key is what comes through.
SecretsComeOut ==
  at = "done" /\ leak_detection_enabled =>
    LET first == SubSeq(output, 1, max_output_length) IN
    \A k \in Secret \cup {"body"} :
      IF Len(output) > max_output_length THEN In(k, content) <=> In(k, first)
      ELSE In(k, content) => k = "body" /\ In(k, output)

\* A result that is neither blocked nor truncated lost only what the sanitizer
\* removes, and one that is shown as unchanged was not changed, redactions
\* apart, which are not reported in the action (safety/mod.rs:136).
ResultTells ==
  at = "done" /\ action \in {"Allowed", "Modified"}
      /\ ~(leak_detection_enabled /\ Overlap(output)) =>
    LET whole == IF leak_detection_enabled THEN Redacted ELSE output IN
    /\ action = "Allowed" => content = whole
    /\ SelectSeq(content, LAMBDA x : x # "escaped")
         = SelectSeq(whole, LAMBDA x : ~(x \in warnings))
=============================================================================
