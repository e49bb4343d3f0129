------------------------------- MODULE Skills -------------------------------
(* The skills of a node (skills/, cli/skill.rs): the registry over the     *)
(* directory that processes share, and the choice of skills for a prompt.  *)
EXTENDS Integers, FiniteSets, Sequences, SequencesExt

CONSTANTS
  Process, Name, Version,
  Path,        \* the names of files, those of FileOf among them
  FileOf,      \* the file a skill is installed to: "{name}.md"
  NoSkill, Torn,
  Word,
  Part,        \* pairs <<k, w>>: the word w contains k
  Inputs,      \* sequences of words
  Shapes,      \* skills: [keywords, exclude_keywords, patterns, tags, trust, available, length]
  MaxSkills,   \* skills loaded
  Limits,      \* [max_skills |-> ..., min_score |-> ..., max_tokens |-> ...]
  Heading      \* the characters a skill adds to a prompt besides its own

VARIABLES
  disk,         \* what each file holds; Torn: too large, or no manifest in it
  local_skills, \* of each process
  skillAt,
  job,          \* the skill being installed
  unread,       \* files the scan has yet to come to
  seen, steady,  \* since a scan began: the skills that were on disk, the files nobody touched
  skills,      \* loaded, in their order
  input, limits, \* of the call, once made
  selected,    \* the scores, best first
  selectAt,          \* "loading", "selected", "building", "done"
  used,        \* skills in the prompt
  tokens_used,
  length       \* of the prompt

-----------------------------------------------------------------------------
(* The registries of skills (skills/registry.rs) of the processes that share  *)
(* one directory: a chat that scans it when told to, the commands of "skill"  *)
(* that scan, install, create and remove (cli/skill.rs), and people who edit  *)
(* the files.  Each process does one thing at a time; a skill has the name    *)
(* its manifest says, whatever its file is called.                            *)

Skill == [name: Name, version: Version]


storeVars == <<disk, local_skills, skillAt, job, unread, seen, steady>>

StoreTypeOK ==
  /\ disk \in [Path -> Skill \cup {NoSkill, Torn}]
  /\ local_skills \in [Process -> [Name -> Skill \cup {NoSkill}]]
  /\ skillAt \in [Process -> {"idle", "scan", "scanned", "truncate", "write", "insert"}]
  /\ job \in [Process -> Skill \cup {NoSkill}]
  /\ unread \in [Process -> SUBSET Path] /\ steady \in [Process -> SUBSET Path]
  /\ seen \in [Process -> SUBSET Skill]

OnDisk == {disk[f] : f \in Path} \cap Skill

StoreInit ==
  /\ disk \in [Path -> {NoSkill, Torn} \cup [name: Name, version: {CHOOSE v \in Version : TRUE}]]
  /\ local_skills = [p \in Process |-> [n \in Name |-> NoSkill]]
  /\ skillAt = [p \in Process |-> "idle"] /\ job = [p \in Process |-> NoSkill]
  /\ unread = [p \in Process |-> {}] /\ steady = unread /\ seen = unread

Goes(p, stage) == skillAt' = [skillAt EXCEPT ![p] = stage]

Touches(f, content) ==
  /\ disk' = [disk EXCEPT ![f] = content]
  /\ steady' = [p \in Process |-> steady[p] \ {f}]
  /\ seen' = [p \in Process |-> seen[p] \cup ({content} \cap Skill)]

Leaves == UNCHANGED <<disk, seen, steady>>

\* Mutant: what was loaded before is not forgotten.
ClearedNot(p) == local_skills
Cleared(p) == [local_skills EXCEPT ![p] = [n \in Name |-> NoSkill]]

\* scan: the write lock is held to its end.
ScanBegins(p) ==
  /\ skillAt[p] \in {"idle", "scanned"} /\ Goes(p, "scan")
  /\ local_skills' = Cleared(p)
  /\ unread' = [unread EXCEPT ![p] = Path]
  /\ seen' = [seen EXCEPT ![p] = OnDisk] /\ steady' = [steady EXCEPT ![p] = Path]
  /\ UNCHANGED <<disk, job>>

\* read_dir fails after clear: the scan is an error and leaves no skill at all.
ScanFails(p) ==
  /\ skillAt[p] \in {"idle", "scanned"} /\ Goes(p, "idle")
  /\ local_skills' = Cleared(p)
  /\ Leaves /\ UNCHANGED <<job, unread>>

\* One entry, in any order; of two files with one name the later one stays.
ScanFile(p, f) ==
  /\ skillAt[p] = "scan" /\ f \in unread[p]
  /\ unread' = [unread EXCEPT ![p] = @ \ {f}]
  /\ local_skills' = IF disk[f] \in Skill
                     THEN [local_skills EXCEPT ![p][disk[f].name] = disk[f]]
                     ELSE local_skills
  /\ Leaves /\ UNCHANGED <<skillAt, job>>
\* A file that came or went since read_dir may be missed.
ScanMisses(p, f) ==
  /\ skillAt[p] = "scan" /\ f \in unread[p] \ steady[p]
  /\ unread' = [unread EXCEPT ![p] = @ \ {f}]
  /\ Leaves /\ UNCHANGED <<local_skills, skillAt, job>>
ScanEnds(p) ==
  /\ skillAt[p] = "scan" /\ unread[p] = {} /\ Goes(p, "scanned")
  /\ Leaves /\ UNCHANGED <<local_skills, job, unread>>

\* install: the file first, outside the lock, then the map.
Install(p, s) ==
  /\ skillAt[p] = "scanned" /\ Goes(p, "truncate")
  /\ job' = [job EXCEPT ![p] = s]
  /\ Leaves /\ UNCHANGED <<local_skills, unread>>
InstallTruncates(p) ==
  /\ skillAt[p] = "truncate" /\ Goes(p, "write")
  /\ Touches(FileOf[job[p].name], Torn)
  /\ UNCHANGED <<local_skills, job, unread>>
InstallWrites(p) ==
  /\ skillAt[p] = "write" /\ Goes(p, "insert")
  /\ Touches(FileOf[job[p].name], job[p])
  /\ UNCHANGED <<local_skills, job, unread>>
InstallInserts(p) ==
  /\ skillAt[p] = "insert" /\ Goes(p, "idle")
  /\ local_skills' = [local_skills EXCEPT ![p][job[p].name] = job[p]]
  /\ job' = [job EXCEPT ![p] = NoSkill]
  /\ Leaves /\ UNCHANGED unread

\* remove: the file with the skill's name goes, whatever it holds, and not
\* the one the skill was loaded from.
RemoveSkill(p, n) ==
  /\ skillAt[p] = "scanned" /\ local_skills[p][n] # NoSkill /\ Goes(p, "idle")
  /\ local_skills' = [local_skills EXCEPT ![p][n] = NoSkill]
  /\ Touches(FileOf[n], NoSkill)
  /\ UNCHANGED <<job, unread>>

\* "skill create": the template, unless the file is there.
Create(p, n) ==
  /\ skillAt[p] = "scanned" /\ disk[FileOf[n]] = NoSkill /\ Goes(p, "idle")
  /\ Touches(FileOf[n], [name |-> n, version |-> CHOOSE v \in Version : TRUE])
  /\ UNCHANGED <<local_skills, job, unread>>

\* Somebody puts a file there, or takes one away.
Edit(f, content) ==
  /\ disk[f] # content /\ Touches(f, content)
  /\ UNCHANGED <<local_skills, skillAt, job, unread>>

StoreNext ==
  \/ \E p \in Process :
       \/ ScanBegins(p) \/ ScanFails(p) \/ ScanEnds(p)
       \/ InstallTruncates(p) \/ InstallWrites(p) \/ InstallInserts(p)
       \/ \E f \in Path : ScanFile(p, f) \/ ScanMisses(p, f)
       \/ \E s \in Skill : Install(p, s)
       \/ \E n \in Name : RemoveSkill(p, n) \/ Create(p, n)
  \/ \E f \in Path, content \in Skill \cup {NoSkill, Torn} : Edit(f, content)

-----------------------------------------------------------------------------
\* What a scan leaves is true of the directory however others change it
\* meanwhile: each skill was in a file while it ran, and a skill in a file
\* nobody touched is there, in that version unless another file had its name.
ScanTrue ==
  \A p \in Process : skillAt[p] = "scanned" =>
    /\ \A n \in Name : local_skills[p][n] \in seen[p] \cup {NoSkill}
    /\ \A f \in steady[p] : disk[f] \in Skill =>
         LET mine == local_skills[p][disk[f].name] IN
         mine = disk[f] \/ \E s \in seen[p] \ {disk[f]} : mine = s

-----------------------------------------------------------------------------
(* The choice of skills for what a user wrote (skills/selector.rs): a score   *)
(* for each, the best of those above a threshold, and a prompt built of them  *)
(* up to an estimated number of tokens.  Scores are in tenths.                *)

selectVars == <<skills, input, limits, selected, selectAt, used, tokens_used, length>>
Bonus == [Local |-> 2, Installed |-> 1, Network |-> 0]

SelectTypeOK ==
  /\ skills \in Seq(Shapes) /\ Len(skills) <= MaxSkills
  /\ input \in Inputs \cup {<<>>} /\ limits \in Limits
  /\ \A i \in DOMAIN selected : selected[i].skill \in DOMAIN skills /\ selected[i].score \in 0..10
  /\ selectAt \in {"loading", "building", "done"}
  /\ used \in 0..MaxSkills /\ tokens_used \in Nat /\ length \in Nat

SelectInit ==
  /\ skills = <<>> /\ input = <<>> /\ limits = CHOOSE l \in Limits : TRUE
  /\ selected = <<>> /\ selectAt = "loading" /\ used = 0 /\ tokens_used = 0 /\ length = 0

Load ==
  /\ selectAt = "loading" /\ Len(skills) < MaxSkills
  /\ \E s \in Shapes : skills' = Append(skills, s)
  /\ UNCHANGED <<input, limits, selected, selectAt, used, tokens_used, length>>

Within(k, text) == \E i \in DOMAIN text : text[i] = k \/ <<k, text[i]>> \in Part

\* A keyword counts once where it is part of the text and once for each word
\* that it is.
KeywordMatches(s, text) ==
  Cardinality({k \in s.keywords : Within(k, text)})
  + Cardinality({i \in DOMAIN text : text[i] \in s.keywords})

Excluded(s, text) == \E k \in s.exclude_keywords : Within(k, text)
PatternMatches(s, text) ==
  Cardinality({p \in s.patterns : \E i \in DOMAIN text : text[i] \in p})

\* Mutant: a skill the text excludes is scored like the others.
ScoredAnyway(s, text) ==
  LET sum == 3 * KeywordMatches(s, text) + 4 * PatternMatches(s, text)
             + 2 * s.tags + Bonus[s.trust]
  IN IF sum < 10 THEN sum ELSE 10

\* calculate: no more than 1.0; an excluded skill returns with 0.
Score(s, text) ==
  LET sum == 3 * KeywordMatches(s, text) + 4 * PatternMatches(s, text)
             + 2 * s.tags + Bonus[s.trust]
  IN IF Excluded(s, text) THEN 0 ELSE IF sum < 10 THEN sum ELSE 10

\* sort_by keeps skills of one score in the order they were loaded.
BestFirst(scores) ==
  LET Before(j, k) == scores[j].score > scores[k].score \/ (scores[j].score = scores[k].score /\ j < k)
      Place(k) == 1 + Cardinality({j \in DOMAIN scores : Before(j, k)})
  IN [i \in DOMAIN scores |-> scores[CHOOSE k \in DOMAIN scores : Place(k) = i]]

Shortened(s, n) == SubSeq(s, 1, IF n < Len(s) THEN n ELSE Len(s))

\* Mutant: the list is cut before it is sorted.
CutFirst(scores, l) ==
  BestFirst(Shortened(SelectSeq(scores, LAMBDA x : x.score >= l.min_score), l.max_skills))

Chosen(scores, l) ==
  Shortened(BestFirst(SelectSeq(scores, LAMBDA x : x.score >= l.min_score)), l.max_skills)

SelectSkills ==
  /\ selectAt = "loading"
  /\ \E text \in Inputs, l \in Limits :
       LET ready == SelectSeq([i \in DOMAIN skills |-> i], LAMBDA i : skills[i].available)
           scores == [j \in DOMAIN ready |-> [skill |-> ready[j], score |-> Score(skills[ready[j]], text)]]
       IN input' = text /\ limits' = l /\ selected' = Chosen(scores, l)
  /\ selectAt' = "building"
  /\ UNCHANGED <<skills, used, tokens_used, length>>

Estimate(s) == s.length \div 4

\* Mutant: a skill that goes beyond the limit is the last one.
FitsAfter(s) == tokens_used <= limits.max_tokens

Fits(s) == tokens_used + Estimate(s) <= limits.max_tokens

\* build_skill_prompt ends at the first skill that does not fit.
AddToPrompt ==
  /\ selectAt = "building"
  /\ IF used < Len(selected) /\ Fits(skills[selected[used + 1].skill])
       THEN LET s == skills[selected[used + 1].skill] IN
              /\ used' = used + 1 /\ tokens_used' = tokens_used + Estimate(s)
              /\ length' = length + s.length + Heading
              /\ UNCHANGED selectAt
       ELSE selectAt' = "done" /\ UNCHANGED <<used, tokens_used, length>>
  /\ UNCHANGED <<skills, input, limits, selected>>

SelectNext == Load \/ SelectSkills \/ AddToPrompt
\* The skills chosen are the best: each reaches the threshold, and one that is
\* left out is unavailable, below the threshold or no better than all chosen,
\* of which there are then max_skills.  One the text excludes is chosen only by
\* a threshold of zero, which its score of zero meets.
BestSkillsChosen ==
  selectAt # "loading" =>
    LET chosen == {selected[i].skill : i \in DOMAIN selected} IN
      /\ Cardinality(chosen) = Len(selected) /\ Len(selected) <= limits.max_skills
      /\ \A k \in chosen :
           /\ skills[k].available /\ Score(skills[k], input) >= limits.min_score
           /\ Excluded(skills[k], input) => limits.min_score = 0
      /\ \A k \in DOMAIN skills \ chosen :
           \/ ~skills[k].available \/ Score(skills[k], input) < limits.min_score
           \/ /\ Len(selected) = limits.max_skills
              /\ \A j \in chosen : Score(skills[j], input) >= Score(skills[k], input)

\* A prompt is longer than its tokens allow by its headings and, for each
\* skill, the rest of a token at most, and holds the skills chosen first.
PromptBounded ==
  /\ tokens_used <= limits.max_tokens
  /\ length <= 4 * limits.max_tokens + used * (Heading + 3)
  /\ selectAt = "done" /\ used < Len(selected) =>
       tokens_used + Estimate(skills[selected[used + 1].skill]) > limits.max_tokens

-----------------------------------------------------------------------------
\* The parts share no state and move one at a time.
vars == <<storeVars, selectVars>>

Init == StoreInit /\ SelectInit

TypeOK == StoreTypeOK /\ SelectTypeOK

Next ==
    \/ StoreNext /\ UNCHANGED selectVars
    \/ SelectNext /\ UNCHANGED storeVars

Spec == Init /\ [][Next]_vars
=============================================================================
