----------------------------- MODULE Generation -----------------------------
(***************************************************************************)
(* The end of a run, between the executor and the review: the prompt is    *)
(* assembled (app/prompts/assembly.py) and put into a context of bounded   *)
(* length (app/context), and the router has a model answer it              *)
(* (app/models/router.py).  Nothing of this is shared between runs.  A     *)
(* text is a sequence of parts, each with its number of words.             *)
(***************************************************************************)
EXTENDS Naturals, Sequences, Functions

CONSTANTS
  MaxTokens,        \* max_context_tokens, of the prompt and of the context
  MaxSkills,        \* prompt_skill_max_items
  MaxDescription,   \* words of a skill's description
  Skillsets,        \* what the skills of a run may be: the lengths of their descriptions
  Lengths,          \* what the length of a task, of evidence or of memory may be
  ToolWords,        \* length of the list of tools
  TaskTypes, Sensitivities,
  Rules,            \* rules of model_routing.yaml: [type, sensitivity, provider]
  Default,          \* default_provider
  Fallbacks,        \* fallback_order
  Providers         \* providers the router has a client for

VARIABLES
  sections,         \* what the run brings along
  prompt, context,  \* the assembled prompt, the context made of it
  phase,            \* what happens next
  raised,           \* fallback_order is followed from here
  answer,           \* who answered: a provider, or "prompt", the context itself
  flagged           \* fallback_triggered

ASSUME GenerationAssumption ==
  /\ {MaxTokens, MaxSkills, MaxDescription, ToolWords} \subseteq Nat
  /\ Lengths \subseteq Nat /\ Skillsets \subseteq Seq(Nat)
  /\ Rules \in Seq(Range(Rules)) /\ Fallbacks \in Seq(Range(Fallbacks))
  /\ \A r \in Range(Rules) :
       r = [type |-> r.type, sensitivity |-> r.sensitivity, provider |-> r.provider]
  /\ "prompt" \notin Providers

generationVars == <<sections, prompt, context, phase, raised, answer, flagged>>

Part(name, words) == [name |-> name, words |-> words]
Label == Part("label", 1)
AtMost(m, n) == IF m < n THEN m ELSE n

(* Sums(text)[n]: the number of words of the first n parts. *)
Sums(text) ==
  LET sum[n \in 0..Len(text)] == IF n = 0 THEN 0 ELSE sum[n - 1] + text[n].words IN sum

Words(text) == Sums(text)[Len(text)]

(* The first n words. *)
Cut(text, n) ==
  [i \in DOMAIN text |->
     LET before == Sums(text)[i - 1] IN
     Part(text[i].name, IF before >= n THEN 0 ELSE AtMost(text[i].words, n - before))]

Truncated(text, n) == Cut(text, IF n = 0 THEN 1 ELSE n)

SummarizedTwice(text, n) ==                    \* mutant: one word too many is kept
  IF Words(text) <= n THEN text ELSE Append(Cut(text, n + 1), Part("...", 1))
Summarized(text, n) ==
  IF Words(text) <= n THEN text ELSE Append(Cut(text, n), Part("...", 1))

(* A line of a skill has six words besides its description, which is not    *)
(* empty.                                                                   *)
SkillWords(skills, forceAll) ==
  LET selected == IF forceAll \/ Len(skills) <= MaxSkills THEN skills
                  ELSE SubSeq(skills, 1, MaxSkills)
  IN IF skills = <<>> THEN 2
     ELSE Words([i \in DOMAIN selected |-> Part("line", 6 + AtMost(selected[i], MaxDescription))])

Template(s) ==
  <<Label, Part("policy", 7), Label, Part("skills", SkillWords(s.skills, s.forceAll)),
    Label, Part("tools", ToolWords), Label, Part("task", s.task), Label, Part("evidence", s.evidence),
    Label, Part("memory", s.memory), Label>>

Assembled(s) ==
  IF Words(Template(s)) <= MaxTokens THEN Template(s) ELSE Truncated(Template(s), MaxTokens)

(* Evidence and memory come a second time, after the prompt. *)
Context(s, text) ==
  Summarized(<<Label, Part("system", 9), Label>> \o text
             \o <<Label, Part("evidence", s.evidence), Label, Part("memory", s.memory), Label>>,
             MaxTokens)

(* route: the first rule that matches, or the default. *)
Route(s) ==
  LET matching == {n \in DOMAIN Rules : Rules[n].type = s.type /\ Rules[n].sensitivity = s.sensitivity}
  IN IF matching = {} THEN Default ELSE Rules[CHOOSE n \in matching : \A m \in matching : n <= m].provider

------------------------------------------------------------------------------
GenerationInit ==
  /\ sections \in [skills : Skillsets, forceAll : BOOLEAN, task : Lengths, evidence : Lengths,
                   memory : Lengths, type : TaskTypes, sensitivity : Sensitivities]
  /\ prompt = <<>> /\ context = <<>> /\ phase = "assemble"
  /\ raised = 0 /\ answer = "none" /\ flagged = FALSE

Assemble ==
  /\ phase = "assemble"
  /\ prompt' = Assembled(sections) /\ phase' = "build"
  /\ UNCHANGED <<sections, context, raised, answer, flagged>>

Build ==
  /\ phase = "build"
  /\ context' = Context(sections, prompt) /\ phase' = "primary"
  /\ UNCHANGED <<sections, prompt, raised, answer, flagged>>

Answers(who, flag) == answer' = who /\ flagged' = flag /\ phase' = "done"

(* generate: the provider that was routed to; if there is no such client    *)
(* the prompt is the answer.                                                *)
Primary ==
  /\ phase = "primary"
  /\ \/ Route(sections) \in Providers /\ Answers(Route(sections), FALSE) /\ UNCHANGED raised
     \/ /\ Route(sections) \in Providers
        /\ phase' = "fallback" /\ raised' = 1 /\ UNCHANGED <<answer, flagged>>
     \/ Route(sections) \notin Providers /\ Answers("prompt", TRUE) /\ UNCHANGED raised
  /\ UNCHANGED <<sections, prompt, context>>

(* generate: the providers of fallback_order, in turn; when all have raised *)
(* the prompt is the answer.                                                *)
FallbackUnflagged ==                           \* mutant: the answer of a fallback is not marked
  /\ phase = "fallback"
  /\ \/ /\ raised <= Len(Fallbacks) /\ Fallbacks[raised] \in Providers
        /\ Answers(Fallbacks[raised], FALSE) /\ UNCHANGED raised
     \/ /\ raised <= Len(Fallbacks)
        /\ raised' = raised + 1 /\ UNCHANGED <<phase, answer, flagged>>
     \/ raised > Len(Fallbacks) /\ Answers("prompt", TRUE) /\ UNCHANGED raised
  /\ UNCHANGED <<sections, prompt, context>>
Fallback ==
  /\ phase = "fallback"
  /\ \/ /\ raised <= Len(Fallbacks) /\ Fallbacks[raised] \in Providers
        /\ Answers(Fallbacks[raised], TRUE) /\ UNCHANGED raised
     \/ /\ raised <= Len(Fallbacks)
        /\ raised' = raised + 1 /\ UNCHANGED <<phase, answer, flagged>>
     \/ raised > Len(Fallbacks) /\ Answers("prompt", TRUE) /\ UNCHANGED raised
  /\ UNCHANGED <<sections, prompt, context>>

GenerationNext == Assemble \/ Build \/ Primary \/ Fallback

GenerationSpec == GenerationInit /\ [][GenerationNext]_generationVars
------------------------------------------------------------------------------
(* The context has at most one word more than its budget, the dots of a     *)
(* summary (summarizer.py:11); and the task, which comes after skills and   *)
(* tools, is whole unless those alone have used the budget up               *)
(* (assembly.py:74): neither evidence nor memory can displace it.           *)
TaskIsKept ==
  phase \in {"primary", "fallback", "done"} =>
    /\ Words(context) <= MaxTokens + 1
    /\ 11 + 7 + 4 + SkillWords(sections.skills, sections.forceAll) + ToolWords + sections.task
         <= MaxTokens
       => \E i \in DOMAIN context : context[i] = Part("task", sections.task)

(* A client that is told of no fallback was answered by the provider the    *)
(* rules name for his request; it is told of one whenever that provider     *)
(* raised or does not exist, and is answered with its own prompt only after *)
(* every provider was asked.                                                *)
FallbackIsTold ==
  phase = "done" =>
    /\ ~flagged => answer = (CHOOSE p \in Providers \cup {Default} :
         \/ \E n \in DOMAIN Rules :
              /\ Rules[n] = [type |-> sections.type, sensitivity |-> sections.sensitivity, provider |-> p]
              /\ \A m \in 1..(n - 1) : <<Rules[m].type, Rules[m].sensitivity>>
                                         # <<sections.type, sections.sensitivity>>
         \/ /\ p = Default
            /\ \A r \in Range(Rules) : <<r.type, r.sensitivity>> # <<sections.type, sections.sensitivity>>)
    /\ raised > 0 => flagged
    /\ answer = "prompt" => flagged /\ (raised = 0 \/ raised > Len(Fallbacks))
==============================================================================
