------------------------------- MODULE Scripts -------------------------------
(***************************************************************************)
(* What InspectorDebuggerAgent remembers of the program's scripts:         *)
(*                                                                         *)
(*   m_scripts                their URL and text, as V8 reported them      *)
(*   m_editedScripts          texts given by setScriptSource, by URL       *)
(*   m_compiledScripts        scripts of compileScript, to be run once     *)
(*   m_cachedSkipStackRegExp  what to skip, and in each script of          *)
(*                            m_scripts the last answer for it             *)
(*                                                                         *)
(* V8 has its own idea of all of them.  Only m_scripts and                 *)
(* m_compiledScripts are cleared when the debugger is disabled.  Reports   *)
(* and commands may come in any order, so that no thread is modelled; a    *)
(* command that fails without effect is left out.  Texts have no sourceURL *)
(* comment: the URL of a script is its name.                               *)
(***************************************************************************)
EXTENDS Naturals, Functions

CONSTANTS
  ScriptIds,
  Urls, NoUrl,
  OldUrl,         \* the URL that LiveEdit gives to the copy of a script
  Texts,
  Broken,         \* the texts that do not compile
  Patterns, NoPattern,
  Matches,        \* <<pattern, url>>: the pattern matches the URL
  Preview,        \* stands for the script in an edit that was not applied
  MaxGeneration   \* the largest unsigned, 2^32 - 1 in the code

ASSUME TextsAssumption == Broken \subseteq Texts
ASSUME UrlsAssumption ==
  NoUrl \notin Urls /\ OldUrl \in [Urls \cup {NoUrl} -> Urls]
ASSUME PatternsAssumption ==
  NoPattern \notin Patterns /\ Matches \subseteq Patterns \X Urls
ASSUME PreviewAssumption == Preview \notin ScriptIds
ASSUME GenerationAssumption == MaxGeneration \in Nat \ {0}

VARIABLES
  enabled,      \* the agent listens to V8Debugger
  given,        \* the script ids that V8 has given out
  v8Scripts,    \* the scripts that V8 has, with their URL and text
  scripts,      \* m_scripts
  edited,       \* m_editedScripts
  compiled,     \* m_compiledScripts
  pattern,      \* m_cachedSkipStackRegExp
  generation,   \* m_cachedSkipStackGeneration
  editor,       \* history: whose text m_editedScripts has
  doubtful,     \* history: scripts whose text in m_scripts is not V8's
  again         \* history: the generations have started again

vars == <<enabled, given, v8Scripts, scripts, edited, compiled, pattern,
          generation, editor, doubtful, again>>
skipVars == <<pattern, generation, again>>
editVars == <<edited, editor>>

AnyUrl    == Urls \cup {NoUrl}
Partial(S, T) == UNION {[D -> T] : D \in SUBSET S}

\* A script of V8, and what ScriptDebugListener::Script keeps of it; cached is
\* m_blackboxGeneration, where 0 is kBlackboxUnknown, hidden m_isBlackboxedURL.
V8Scripts    == [url : AnyUrl, text : Texts]
AgentScripts == [url : AnyUrl, text : Texts, cached : 0..MaxGeneration,
                 hidden : BOOLEAN]

Empty == [i \in {} |-> NoUrl]
With(f, x, y) == [i \in DOMAIN f \cup {x} |-> IF i = x THEN y ELSE f[i]]

Init ==
  /\ enabled = FALSE /\ given = {}
  /\ v8Scripts = Empty /\ scripts = Empty /\ edited = Empty /\ compiled = {}
  /\ pattern = NoPattern /\ generation = 0
  /\ editor = Empty /\ doubtful = {} /\ again = FALSE

-----------------------------------------------------------------------------
(* Reports of V8.                                                          *)

\* dispatchDidParseSource makes a Script that has no answer yet, and
\* didParseSource puts it in the place of what was known under its id.
Reported(url, text) == [url |-> url, text |-> text, cached |-> 0, hidden |-> FALSE]

\* V8 compiles a text under a new id and reports it, also when it fails; the
\* compilation cache is off while there is a debugger.
V8Compile(id, url, text) ==
  /\ id \notin given
  /\ given' = given \cup {id}
  /\ v8Scripts' = IF text \in Broken THEN v8Scripts
                  ELSE With(v8Scripts, id, [url |-> url, text |-> text])
  /\ scripts' = IF enabled THEN With(scripts, id, Reported(url, text)) ELSE scripts

\* The program, or an evaluation, compiles a script.
Compile(id, url, text) ==
  /\ V8Compile(id, url, text)
  /\ UNCHANGED <<enabled, editVars, compiled, skipVars, doubtful>>

\* The garbage collector takes a script that nothing refers to.
CollectScript(id) ==
  /\ id \in DOMAIN v8Scripts \ compiled
  /\ v8Scripts' = Restrict(v8Scripts, DOMAIN v8Scripts \ {id})
  /\ UNCHANGED <<enabled, given, scripts, editVars, compiled, skipVars, doubtful>>

-----------------------------------------------------------------------------
(* The agent.                                                              *)

\* Mutant: the agent waits for new scripts.
EnableInSilence ==
  /\ ~enabled /\ enabled' = TRUE
  /\ UNCHANGED <<given, v8Scripts, scripts, editVars, compiled, skipVars, doubtful>>

\* enable, with reportCompiledScripts for the scripts V8 has.
Enable ==
  /\ ~enabled
  /\ enabled' = TRUE
  /\ scripts' = [id \in DOMAIN v8Scripts |->
                   Reported(v8Scripts[id].url, v8Scripts[id].text)]
  /\ UNCHANGED <<given, v8Scripts, editVars, compiled, skipVars, doubtful>>

\* Mutant: m_compiledScripts is left.
DisableKeepsCompiled ==
  /\ enabled /\ enabled' = FALSE
  /\ scripts' = Empty /\ doubtful' = {}
  /\ UNCHANGED <<given, v8Scripts, editVars, compiled, skipVars>>

\* disable: clear() forgets the scripts, m_editedScripts and the pattern stay.
Disable ==
  /\ enabled
  /\ enabled' = FALSE
  /\ scripts' = Empty /\ compiled' = {} /\ doubtful' = {}
  /\ UNCHANGED <<given, v8Scripts, editVars, skipVars>>

\* compileScript that persists the script.
CompileScript(id, url, text) ==
  /\ enabled /\ text \notin Broken
  /\ V8Compile(id, url, text)
  /\ compiled' = compiled \cup {id}
  /\ UNCHANGED <<enabled, editVars, skipVars, doubtful>>

\* runScript takes the script out of the map before it runs.
RunScript(id) ==
  /\ enabled /\ id \in compiled
  /\ compiled' = compiled \ {id}
  /\ UNCHANGED <<enabled, given, v8Scripts, scripts, editVars, skipVars, doubtful>>

\* What setScriptSource does when V8 has taken the text: it is kept under the
\* URL, if there is one, also when it was only a preview.
RecordEdit(id, text, by) ==
  LET url == scripts[id].url IN
  IF id \in DOMAIN scripts /\ url # NoUrl
    THEN edited' = With(edited, url, text) /\ editor' = With(editor, url, by)
    ELSE UNCHANGED editVars

PreviewScriptSource(id, text) ==
  /\ enabled /\ id \in DOMAIN v8Scripts /\ text \notin Broken
  /\ RecordEdit(id, text, Preview)
  /\ UNCHANGED <<enabled, given, v8Scripts, scripts, compiled, skipVars, doubtful>>

\* Mutant: the text is kept whatever V8 says to it.
FailAndRecord(id, text) ==
  /\ enabled /\ id \in DOMAIN v8Scripts /\ text \in Broken
  /\ scripts' = With(scripts, id, Reported(v8Scripts[id].url, text))
  /\ doubtful' = doubtful \cup {id}
  /\ RecordEdit(id, text, id)
  /\ UNCHANGED <<enabled, given, v8Scripts, compiled, skipVars>>

\* setScriptSource, or a preview, with a text that does not compile.  V8
\* compiles it as the text of the script, reports that it failed, and puts the
\* old text back; the agent keeps the report.
FailScriptSource(id, text) ==
  /\ enabled /\ id \in DOMAIN v8Scripts /\ text \in Broken
  /\ scripts' = With(scripts, id, Reported(v8Scripts[id].url, text))
  /\ doubtful' = doubtful \cup {id}
  /\ UNCHANGED <<enabled, given, v8Scripts, editVars, compiled, skipVars>>

\* setScriptSource that is applied.  V8 reports a copy with the old text if
\* some functions go on with it, and does not report the new text.
SetScriptSource(id, text, copy) ==
  LET old == v8Scripts[id]
      new == [old EXCEPT !.text = text]
      was == [old EXCEPT !.url = OldUrl[@]]
  IN
  /\ enabled /\ id \in DOMAIN v8Scripts /\ text \notin Broken
  /\ IF copy = id
       THEN /\ v8Scripts' = With(v8Scripts, id, new)
            /\ UNCHANGED <<given, scripts>>
       ELSE /\ copy \notin given
            /\ given' = given \cup {copy}
            /\ v8Scripts' = With(With(v8Scripts, copy, was), id, new)
            /\ scripts' = With(scripts, copy, Reported(was.url, was.text))
  /\ RecordEdit(id, text, id)
  /\ doubtful' = doubtful \cup {id}
  /\ UNCHANGED <<enabled, compiled, skipVars>>

\* Mutant: answers given before the change still count.
SkipSameGeneration(p) ==
  /\ enabled
  /\ pattern' = p
  /\ generation' = IF generation = 0 THEN 1 ELSE generation
  /\ UNCHANGED <<enabled, given, v8Scripts, scripts, editVars, compiled, doubtful, again>>

\* skipStackFrames with increaseCachedSkipStackGeneration.  Content scripts do
\* not exist in this program.
SkipStackFrames(p) ==
  /\ enabled
  /\ pattern' = p
  /\ generation' = IF generation = MaxGeneration THEN 1 ELSE generation + 1
  /\ again' = (again \/ generation = MaxGeneration)
  /\ UNCHANGED <<enabled, given, v8Scripts, scripts, editVars, compiled, doubtful>>

\* isCallFrameWithUnknownScriptOrBlackboxed for a frame of a known script: it
\* is asked when the program breaks, and keeps its answer.
IsBlackboxed(id) ==
  /\ enabled /\ id \in DOMAIN scripts \cap DOMAIN v8Scripts
  /\ pattern # NoPattern /\ scripts[id].url # NoUrl
  /\ scripts[id].cached # generation
  /\ scripts' = [scripts EXCEPT ![id].cached = generation,
                   ![id].hidden = <<pattern, scripts[id].url>> \in Matches]
  /\ UNCHANGED <<enabled, given, v8Scripts, editVars, compiled, skipVars, doubtful>>

\* getScriptSource
GetScriptSource(id) ==
  LET url == scripts[id].url IN
  IF url # NoUrl /\ url \in DOMAIN edited THEN edited[url] ELSE scripts[id].text

Next ==
  \/ Enable \/ Disable
  \/ \E p \in Patterns \cup {NoPattern} : SkipStackFrames(p)
  \/ \E id \in ScriptIds :
       \/ CollectScript(id) \/ RunScript(id) \/ IsBlackboxed(id)
       \/ \E url \in AnyUrl, text \in Texts :
            Compile(id, url, text) \/ CompileScript(id, url, text)
       \/ \E text \in Texts :
            \/ PreviewScriptSource(id, text) \/ FailScriptSource(id, text)
            \/ \E copy \in ScriptIds : SetScriptSource(id, text, copy)

Spec == Init /\ [][Next]_vars

-----------------------------------------------------------------------------
(* Properties.                                                             *)

\* The type of the state.
TypeOK ==
  /\ enabled \in BOOLEAN /\ given \subseteq ScriptIds
  /\ v8Scripts \in Partial(ScriptIds, V8Scripts)
  /\ scripts \in Partial(ScriptIds, AgentScripts)
  /\ edited \in Partial(Urls, Texts) /\ compiled \subseteq ScriptIds
  /\ pattern \in Patterns \cup {NoPattern}
  /\ generation \in 0..MaxGeneration
  /\ editor \in [DOMAIN edited -> ScriptIds \cup {Preview}]
  /\ doubtful \subseteq ScriptIds
  /\ again \in BOOLEAN

\* No script of the program is unknown to an enabled agent, which would skip
\* it: not one from before enable, nor the copy that an edit leaves.
KnowsEveryScript == enabled => DOMAIN v8Scripts \subseteq DOMAIN scripts

\* getScriptSource returns the text that V8 has if the last text given for the
\* URL of the script was applied to this script; or, if none was given for the
\* URL, as long as no edit of the script was tried in the session.  It need not
\* otherwise: a preview, an edit that failed, an edit of another script with
\* the same URL, now or for an earlier client, and an edit of a script without
\* URL all make it return another text.
SourceIsCurrent ==
  \A id \in DOMAIN scripts \cap DOMAIN v8Scripts :
    LET url == scripts[id].url IN
    (IF url \in DOMAIN edited THEN editor[url] = id ELSE id \notin doubtful)
      => GetScriptSource(id) = v8Scripts[id].text

\* What runScript accepts is a script that this client was told of and that V8
\* still has, whatever was disabled, edited or collected since compileScript.
CompiledToRun == compiled \subseteq DOMAIN scripts \cap DOMAIN v8Scripts

\* Until generations start again, an answer that counts is that of the current
\* pattern, whatever was set, cleared or inherited from an earlier client and
\* whatever was reported meanwhile.
BlackboxIsCurrent ==
  /\ pattern # NoPattern => generation # 0
  /\ \A id \in DOMAIN scripts :
       ~again /\ pattern # NoPattern /\ scripts[id].cached = generation
         => scripts[id].hidden = (<<pattern, scripts[id].url>> \in Matches)

\* What makes the properties inductive: ids are not given twice, a script keeps
\* its URL, no answer is of a later generation, and the texts of m_editedScripts
\* and m_scripts are V8's, of the script that was edited last and of those that
\* were not edited.
IdsAreGiven == DOMAIN v8Scripts \cup DOMAIN scripts \subseteq given

UrlsAgree ==
  \A id \in DOMAIN scripts \cap DOMAIN v8Scripts : scripts[id].url = v8Scripts[id].url

AnswersAreEarlier ==
  ~again => \A id \in DOMAIN scripts : scripts[id].cached <= generation

EditsAreApplied ==
  \A url \in DOMAIN edited :
    /\ editor[url] \in given \cup {Preview}
    /\ editor[url] \in DOMAIN v8Scripts =>
         v8Scripts[editor[url]] = [url |-> url, text |-> edited[url]]

ReportsAreTrue ==
  \A id \in (DOMAIN scripts \cap DOMAIN v8Scripts) \ doubtful :
    scripts[id].text = v8Scripts[id].text

IndInv ==
  /\ TypeOK /\ KnowsEveryScript /\ CompiledToRun /\ BlackboxIsCurrent
  /\ IdsAreGiven /\ UrlsAgree /\ AnswersAreEarlier
  /\ EditsAreApplied /\ ReportsAreTrue

=============================================================================
