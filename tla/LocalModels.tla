---------------------------- MODULE LocalModels -----------------------------
(* The models a node has at hand: files fetched by the command line        *)
(* (cli/models.rs), and those of Ollama (inference/ollama.rs).             *)
EXTENDS Naturals, FiniteSets, Sequences

CONSTANTS
  Downloader, Remover,         \* processes, by the command they run
  Name,                        \* file names, all matched by one model name
  Whole,                       \* pieces of a whole model
  MaxFiles,                     \* bound on the files created
  OllamaName,                \* of models: a sequence of letters and a tag
  MaxModels,           \* bound on the models Ollama has
  Local                \* names of the .gguf files in the models directory

VARIABLES
  dir,       \* of each name: the file under it, 0 if there is none
  content,   \* of each file: the pieces of the model in it
  created,   \* files created so far
  pullAt, name, handle, written, \* of each process: step, name, open file, offset
  began,     \* of each process: the files created before its check
  announced, \* files reported as complete
  left,      \* files that a download left when it failed or died
  recreated,  \* files emptied by a download that began before they were created
  registry,            \* ModelRegistry
  models,              \* in Ollama, in the order of its list
  use_ollama,
  ollamaAt, model,           \* the request: step and model
  listed,              \* the list it saw
  ollama_model,        \* what the name was resolved to
  model_id             \* GenerateResponse::model_id

-----------------------------------------------------------------------------
(* The .gguf files of the commands models and pull: a download checks for     *)
(* the file, asks for the model, creates the file and only then receives and  *)
(* writes the body; a removal finds a file by part of its name and asks       *)
(* before it removes (cli/models.rs, cli/run.rs).                             *)

pullVars == <<dir, content, created, pullAt, name, handle, written, began,
          announced, left, recreated>>
Process == Downloader \cup Remover
Files == 1..MaxFiles
Piece == 1..Whole

PullTypeOK ==
  /\ dir \in [Name -> 0..MaxFiles]
  /\ content \in [Files -> SUBSET Piece]
  /\ created \in 0..MaxFiles
  /\ pullAt \in [Process -> {"idle", "request", "create", "body", "copy", "confirm"}]
  /\ name \in [Process -> Name]
  /\ handle \in [Process -> 0..MaxFiles]
  /\ written \in [Process -> 0..Whole]
  /\ began \in [Process -> 0..MaxFiles]
  /\ announced \subseteq Files /\ left \subseteq Files /\ recreated \subseteq Files

PullInit ==
  /\ dir = [n \in Name |-> 0]
  /\ content = [f \in Files |-> {}]
  /\ created = 0
  /\ pullAt = [p \in Process |-> "idle"]
  /\ name = [p \in Process |-> CHOOSE n \in Name : TRUE]
  /\ handle = [p \in Process |-> 0] /\ written = [p \in Process |-> 0]
  /\ began = [p \in Process |-> 0]
  /\ announced = {} /\ left = {} /\ recreated = {}

Go(p, step) == pullAt' = [pullAt EXCEPT ![p] = step]
files == <<dir, content, created, announced, left, recreated>>

\* Mutant: a file that exists is downloaded again.
CheckNothing(p, n) ==
  /\ pullAt[p] = "idle"
  /\ name' = [name EXCEPT ![p] = n]
  /\ began' = [began EXCEPT ![p] = created]
  /\ Go(p, "request")
  /\ UNCHANGED <<files, handle, written>>

\* "Model already exists" ends the command.
Check(p, n) ==
  /\ pullAt[p] = "idle" /\ dir[n] = 0
  /\ name' = [name EXCEPT ![p] = n]
  /\ began' = [began EXCEPT ![p] = created]
  /\ Go(p, "request")
  /\ UNCHANGED <<files, handle, written>>

Respond(p) ==
  /\ pullAt[p] = "request"
  /\ Go(p, "create") \/ Go(p, "idle")
  /\ UNCHANGED <<files, name, handle, written, began>>

\* File::create takes the file that is there by then and empties it.
Create(p) ==
  /\ pullAt[p] = "create"
  /\ LET n == name[p] IN
       \/ /\ dir[n] = 0 /\ created < MaxFiles
          /\ created' = created + 1
          /\ dir' = [dir EXCEPT ![n] = created']
          /\ handle' = [handle EXCEPT ![p] = created']
          /\ UNCHANGED <<content, recreated>>
       \/ /\ dir[n] # 0
          /\ content' = [content EXCEPT ![dir[n]] = {}]
          /\ handle' = [handle EXCEPT ![p] = dir[n]]
          /\ recreated' = recreated \cup {f \in {dir[n]} : f > began[p]}
          /\ UNCHANGED <<created, dir>>
  /\ Go(p, "body")
  /\ UNCHANGED <<name, written, began, announced, left>>

\* The whole body is in memory before a byte of it is written.
Body(p) ==
  /\ pullAt[p] = "body" /\ Go(p, "copy")
  /\ UNCHANGED <<files, name, handle, written, began>>

\* What another process empties meanwhile stays empty before the offset.
Copy(p) ==
  /\ pullAt[p] = "copy" /\ written[p] < Whole
  /\ written' = [written EXCEPT ![p] = @ + 1]
  /\ content' = [content EXCEPT ![handle[p]] = @ \cup {written'[p]}]
  /\ UNCHANGED <<dir, created, pullAt, name, handle, began, announced, left, recreated>>

Close(p) ==
  /\ Go(p, "idle")
  /\ handle' = [handle EXCEPT ![p] = 0] /\ written' = [written EXCEPT ![p] = 0]

Announce(p) ==
  /\ pullAt[p] = "copy" /\ written[p] = Whole
  /\ announced' = announced \cup {handle[p]}
  /\ Close(p)
  /\ UNCHANGED <<dir, content, created, name, began, left, recreated>>

\* An error of the body or of the copy ends the command; so does the user.
PullFail(p) ==
  /\ pullAt[p] \in {"body", "copy"}
  /\ left' = left \cup {handle[p]}
  /\ Close(p)
  /\ UNCHANGED <<dir, content, created, name, began, announced, recreated>>

\* The first file that contains the name, in the order of the directory.
Find(p, n) ==
  /\ pullAt[p] = "idle" /\ dir[n] # 0
  /\ name' = [name EXCEPT ![p] = n]
  /\ Go(p, "confirm")
  /\ UNCHANGED <<files, handle, written, began>>

\* Whatever has the name when the user has answered is removed.
Confirm(p) ==
  /\ pullAt[p] = "confirm"
  /\ Go(p, "idle")
  /\ dir' = [dir EXCEPT ![name[p]] = 0] \/ UNCHANGED dir
  /\ UNCHANGED <<content, created, name, handle, written, began,
                 announced, left, recreated>>

PullNext ==
  \/ \E p \in Downloader : \/ \E n \in Name : Check(p, n)
                           \/ Respond(p) \/ Create(p) \/ Body(p) \/ Copy(p)
                           \/ Announce(p) \/ PullFail(p)
  \/ \E p \in Remover : (\E n \in Name : Find(p, n)) \/ Confirm(p)

Downloading(f) == \E p \in Downloader : pullAt[p] \in {"body", "copy"} /\ handle[p] = f

\* A file reported as complete is whole, whatever was removed or downloaded
\* beside it, unless another download of the name, begun before the file was
\* there, emptied it (cli/models.rs:152).
AnnouncedWhole == \A f \in announced : content[f] = Piece \/ f \in recreated

\* What is not whole is being downloaded or was left by a download that
\* failed: nothing removes it, and it keeps its name from being downloaded.
PartialExplained ==
  \A n \in Name : LET f == dir[n] IN
    f # 0 => content[f] = Piece \/ Downloading(f) \/ f \in left

-----------------------------------------------------------------------------
(* Which model answers a request to the inference engine                      *)
(* (inference/mod.rs, generate): one found by the scan, else whatever Ollama  *)
(* model the requested name is resolved to (inference/ollama.rs) on a list    *)
(* fetched before the request is sent, while models come and go.              *)

ollamaVars == <<registry, models, use_ollama, ollamaAt, model, listed, ollama_model, model_id>>

NoName == [base |-> <<>>, tag |-> "none"]
InList(q) == {q[i] : i \in DOMAIN q}

OllamaTypeOK ==
  /\ registry \subseteq OllamaName /\ use_ollama \in BOOLEAN
  /\ models \in Seq(OllamaName) /\ Len(models) <= MaxModels
  /\ listed \in Seq(OllamaName) /\ Len(listed) <= MaxModels
  /\ ollamaAt \in {"idle", "local", "list", "chat", "answered", "not found", "failed"}
  /\ {model, ollama_model, model_id} \subseteq OllamaName \cup {NoName}

OllamaInit ==
  /\ registry = {} /\ models = <<>> /\ use_ollama = TRUE
  /\ ollamaAt = "idle" /\ model = NoName /\ listed = <<>>
  /\ ollama_model = NoName /\ model_id = NoName

\* normalize_model_name: the tag goes, and with it what tells two sizes apart.
normalize_model_name(n) == n.base

starts_with(a, b) == Len(b) <= Len(a) /\ SubSeq(a, 1, Len(b)) = b

\* has_model: any of the three matches.
has_model(list, n) ==
  \E i \in DOMAIN list :
    LET a == normalize_model_name(list[i])
        b == normalize_model_name(n)
    IN  starts_with(a, b) \/ starts_with(b, a)

\* The entries of the list that are the model, as places in it.
Same(list, n) ==
  {i \in DOMAIN list : normalize_model_name(list[i]) = normalize_model_name(n)}
Longer(list, n) ==
  {i \in DOMAIN list : starts_with(normalize_model_name(list[i]), normalize_model_name(n))}
Shorter(list, n) ==
  {i \in DOMAIN list : starts_with(normalize_model_name(n), normalize_model_name(list[i]))}

First(list, places) ==
  list[CHOOSE i \in places : \A j \in places : i <= j]

\* Mutant: one pass that takes whatever is related.
resolve_model_in_one_pass(list, n) ==
  LET related == Longer(list, n) \cup Shorter(list, n)
  IN  IF related # {} THEN First(list, related) ELSE n

\* resolve_model, in three passes over the list; a name that nothing matches
\* is sent as it is.
resolve_model(list, n) ==
  IF Same(list, n) # {} THEN First(list, Same(list, n))
  ELSE IF Longer(list, n) # {} THEN First(list, Longer(list, n))
  ELSE IF Shorter(list, n) # {} THEN First(list, Shorter(list, n))
  ELSE n

\* scan_models puts what it finds into the registry.
Scan ==
  /\ registry' = registry \cup Local /\ registry' # registry
  /\ UNCHANGED <<models, use_ollama, ollamaAt, model, listed, ollama_model, model_id>>

Configure ==
  /\ ollamaAt = "idle" /\ use_ollama' = ~use_ollama
  /\ UNCHANGED <<registry, models, ollamaAt, model, listed, ollama_model, model_id>>

\* generate tries the registry first, then Ollama if that is enabled.
Generate ==
  /\ ollamaAt = "idle"
  /\ \E n \in OllamaName :
       /\ model' = n
       /\ ollamaAt' = IF n \in registry THEN "local" ELSE IF use_ollama THEN "list" ELSE "not found"
  /\ UNCHANGED <<registry, models, use_ollama, listed, ollama_model, model_id>>

\* A local model is loaded through the cache, and named in the answer.
AnswerLocally ==
  /\ ollamaAt = "local" /\ ollamaAt' = "answered" /\ model_id' = model
  /\ UNCHANGED <<registry, models, use_ollama, model, listed, ollama_model>>

\* An Ollama that cannot be reached has no list: the name is sent as it is.
Resolve ==
  /\ ollamaAt = "list" /\ ollamaAt' = "chat"
  /\ \E list \in {models, <<>>} :
       listed' = list /\ ollama_model' = resolve_model(list, model)
  /\ UNCHANGED <<registry, models, use_ollama, model, model_id>>

\* Ollama answers for a model that it has by then, and else with an error.
Chat ==
  /\ ollamaAt = "chat"
  /\ IF ollama_model \in InList(models)
     THEN ollamaAt' = "answered" /\ model_id' = ollama_model
     ELSE ollamaAt' = "failed" /\ UNCHANGED model_id
  /\ UNCHANGED <<registry, models, use_ollama, model, listed, ollama_model>>

OllamaFail ==
  /\ ollamaAt = "chat" /\ ollamaAt' = "failed"
  /\ UNCHANGED <<registry, models, use_ollama, model, listed, ollama_model, model_id>>

\* Someone pulls or removes a model; what was pulled last is listed first.
Pull ==
  /\ Len(models) < MaxModels
  /\ \E n \in OllamaName \ InList(models) : models' = <<n>> \o models
  /\ UNCHANGED <<registry, use_ollama, ollamaAt, model, listed, ollama_model, model_id>>
Remove ==
  /\ \E i \in DOMAIN models : models' = SubSeq(models, 1, i - 1) \o SubSeq(models, i + 1, Len(models))
  /\ UNCHANGED <<registry, use_ollama, ollamaAt, model, listed, ollama_model, model_id>>

OllamaNext ==
  \/ Scan \/ Configure \/ Generate \/ AnswerLocally \/ Resolve \/ Chat \/ OllamaFail \/ Pull \/ Remove
-----------------------------------------------------------------------------
\* An answer is from a model whose name is related to the one asked for, and
\* when that one was listed, from it or one that differs by its tag alone
\* (inference/ollama.rs:152: "Exact match first").
AnsweredByTheModelMeant ==
  ollamaAt = "answered" =>
    \/ model_id = model
    \/ /\ has_model(<<model_id>>, model)
       /\ model \in InList(listed) => normalize_model_name(model_id) = normalize_model_name(model)

\* What has_model says of a list is what resolve_model makes of it
\* (inference/ollama.rs:135, 148).
ResolvedIffThere ==
  ollamaAt \in {"chat", "answered"} /\ listed # <<>> =>
    (has_model(listed, model) <=> ollama_model \in InList(listed))

-----------------------------------------------------------------------------
\* The parts share no state and move one at a time.
vars == <<pullVars, ollamaVars>>

Init == PullInit /\ OllamaInit

TypeOK == PullTypeOK /\ OllamaTypeOK

Next ==
    \/ PullNext /\ UNCHANGED ollamaVars
    \/ OllamaNext /\ UNCHANGED pullVars

Spec == Init /\ [][Next]_vars
=============================================================================
