--------------------------- MODULE Scripts_proofs ---------------------------
(***************************************************************************)
(* Proofs about the agent's knowledge of scripts, for any sets of scripts, *)
(* URLs, texts and patterns and any largest generation: IndInv is          *)
(* inductive, and the properties follow from it.                           *)
(***************************************************************************)
EXTENDS Scripts, TLAPS

-----------------------------------------------------------------------------
(* Partial functions.                                                      *)

LEMMA InPartial ==
  ASSUME NEW S, NEW T, NEW D \in SUBSET S, NEW f \in [D -> T]
  PROVE  f \in Partial(S, T)
  BY DEF Partial

LEMMA OfPartial ==
  ASSUME NEW S, NEW T, NEW f \in Partial(S, T)
  PROVE  DOMAIN f \subseteq S /\ f \in [DOMAIN f -> T]
  BY DEF Partial

LEMMA WithFacts ==
  ASSUME NEW f, NEW x, NEW y
  PROVE  /\ DOMAIN With(f, x, y) = DOMAIN f \cup {x}
         /\ With(f, x, y)[x] = y
         /\ \A i \in DOMAIN f : i # x => With(f, x, y)[i] = f[i]
  BY DEF With

LEMMA WithPartial ==
  ASSUME NEW S, NEW T, NEW f \in Partial(S, T), NEW x \in S, NEW y \in T
  PROVE  With(f, x, y) \in Partial(S, T)
<1>1. With(f, x, y) \in [DOMAIN f \cup {x} -> T]
  BY OfPartial DEF With
<1> QED  BY <1>1, OfPartial, InPartial

LEMMA RestrictFacts ==
  ASSUME NEW S, NEW T, NEW f \in Partial(S, T), NEW D \in SUBSET DOMAIN f
  PROVE  /\ Restrict(f, D) \in Partial(S, T) /\ DOMAIN Restrict(f, D) = D
         /\ \A i \in D : Restrict(f, D)[i] = f[i]
<1>1. Restrict(f, D) \in [D -> T] /\ DOMAIN Restrict(f, D) = D
      /\ \A i \in D : Restrict(f, D)[i] = f[i]
  BY OfPartial DEF Restrict
<1>2. D \in SUBSET S
  BY OfPartial
<1> QED  BY <1>1, <1>2, InPartial

LEMMA EmptyFacts ==
  ASSUME NEW S, NEW T
  PROVE  Empty \in Partial(S, T) /\ DOMAIN Empty = {}
<1>1. Empty \in [{} -> T] /\ DOMAIN Empty = {}
  BY DEF Empty
<1> QED  BY <1>1, InPartial

\* What the type says of the maps.
LEMMA Shapes ==
  ASSUME TypeOK
  PROVE  /\ DOMAIN v8Scripts \subseteq ScriptIds
         /\ \A id \in DOMAIN v8Scripts : v8Scripts[id] \in V8Scripts
         /\ DOMAIN scripts \subseteq ScriptIds
         /\ \A id \in DOMAIN scripts : scripts[id] \in AgentScripts
         /\ DOMAIN edited \subseteq Urls
         /\ \A url \in DOMAIN edited : edited[url] \in Texts
         /\ DOMAIN editor = DOMAIN edited
<1>1. /\ v8Scripts \in Partial(ScriptIds, V8Scripts)
      /\ scripts \in Partial(ScriptIds, AgentScripts)
      /\ edited \in Partial(Urls, Texts)
      /\ DOMAIN editor = DOMAIN edited
  BY DEF TypeOK
<1> HIDE DEF V8Scripts, AgentScripts
<1>2. DOMAIN v8Scripts \subseteq ScriptIds /\ v8Scripts \in [DOMAIN v8Scripts -> V8Scripts]
  BY <1>1, OfPartial
<1>3. DOMAIN scripts \subseteq ScriptIds /\ scripts \in [DOMAIN scripts -> AgentScripts]
  BY <1>1, OfPartial
<1>4. DOMAIN edited \subseteq Urls /\ edited \in [DOMAIN edited -> Texts]
  BY <1>1, OfPartial
<1> QED  BY <1>1, <1>2, <1>3, <1>4

\* A report has no answer yet.
LEMMA ReportedFacts ==
  ASSUME NEW url \in AnyUrl, NEW text \in Texts
  PROVE  /\ Reported(url, text) \in AgentScripts
         /\ Reported(url, text).url = url /\ Reported(url, text).text = text
         /\ Reported(url, text).cached = 0 /\ Reported(url, text).hidden = FALSE
  BY GenerationAssumption DEF Reported, AgentScripts

-----------------------------------------------------------------------------
(* The initial state.                                                      *)

LEMMA InitInv == Init => IndInv
<1> SUFFICES ASSUME Init PROVE IndInv
  OBVIOUS
<1>1. /\ DOMAIN v8Scripts = {} /\ DOMAIN scripts = {} /\ DOMAIN edited = {}
      /\ v8Scripts \in Partial(ScriptIds, V8Scripts)
      /\ scripts \in Partial(ScriptIds, AgentScripts)
      /\ edited \in Partial(Urls, Texts)
  BY EmptyFacts DEF Init
<1>2. editor \in [DOMAIN edited -> ScriptIds \cup {Preview}]
  BY <1>1 DEF Init, Empty
<1>3. TypeOK
  <2>1. enabled \in BOOLEAN /\ again \in BOOLEAN /\ pattern \in Patterns \cup {NoPattern}
    BY DEF Init
  <2>2. generation \in 0..MaxGeneration
    BY GenerationAssumption DEF Init
  <2>3. given \subseteq ScriptIds /\ compiled \subseteq ScriptIds /\ doubtful \subseteq ScriptIds
    BY DEF Init
  <2> QED  BY <1>1, <1>2, <2>1, <2>2, <2>3 DEF TypeOK
<1>4. KnowsEveryScript /\ CompiledToRun /\ BlackboxIsCurrent /\ IdsAreGiven
      /\ UrlsAgree /\ AnswersAreEarlier /\ EditsAreApplied /\ ReportsAreTrue
  BY <1>1 DEF Init, KnowsEveryScript, CompiledToRun, BlackboxIsCurrent, IdsAreGiven,
     UrlsAgree, AnswersAreEarlier, EditsAreApplied, ReportsAreTrue
<1> QED  BY <1>3, <1>4 DEF IndInv

-----------------------------------------------------------------------------
(* The steps.                                                              *)

\* A new script keeps everything, whoever compiles it; it is in no map yet.
LEMMA V8CompileInv ==
  ASSUME IndInv, NEW id \in ScriptIds, NEW url \in AnyUrl, NEW text \in Texts,
         V8Compile(id, url, text),
         enabled' = enabled, UNCHANGED <<editVars, skipVars, doubtful>>,
         compiled' = compiled \/ (enabled /\ text \notin Broken /\ compiled' = compiled \cup {id})
  PROVE  IndInv'
<1> USE DEF editVars, skipVars
<1>1. /\ id \notin given /\ given' = given \cup {id}
      /\ id \notin DOMAIN scripts /\ id \notin DOMAIN v8Scripts
  BY DEF V8Compile, IndInv, IdsAreGiven
<1>2. /\ v8Scripts' \in Partial(ScriptIds, V8Scripts)
      /\ DOMAIN v8Scripts \subseteq DOMAIN v8Scripts'
      /\ DOMAIN v8Scripts' \subseteq DOMAIN v8Scripts \cup {id}
      /\ \A i \in DOMAIN v8Scripts : v8Scripts'[i] = v8Scripts[i]
      /\ text \notin Broken => id \in DOMAIN v8Scripts'
      /\ id \in DOMAIN v8Scripts' => v8Scripts'[id] = [url |-> url, text |-> text]
  <2>1. [url |-> url, text |-> text] \in V8Scripts /\ v8Scripts \in Partial(ScriptIds, V8Scripts)
    BY DEF IndInv, TypeOK, V8Scripts
  <2>2. With(v8Scripts, id, [url |-> url, text |-> text]) \in Partial(ScriptIds, V8Scripts)
    BY <2>1, WithPartial
  <2> QED  BY <1>1, <2>1, <2>2 DEF V8Compile, With
<1>3. /\ scripts' \in Partial(ScriptIds, AgentScripts)
      /\ DOMAIN scripts \subseteq DOMAIN scripts'
      /\ DOMAIN scripts' \subseteq DOMAIN scripts \cup {id}
      /\ \A i \in DOMAIN scripts : scripts'[i] = scripts[i]
      /\ enabled => id \in DOMAIN scripts'
      /\ id \in DOMAIN scripts' => scripts'[id] = Reported(url, text)
  <2>1. Reported(url, text) \in AgentScripts /\ scripts \in Partial(ScriptIds, AgentScripts)
    BY ReportedFacts DEF IndInv, TypeOK
  <2>2. With(scripts, id, Reported(url, text)) \in Partial(ScriptIds, AgentScripts)
    BY <2>1, WithPartial
  <2> QED  BY <1>1, <2>1, <2>2 DEF V8Compile, With
<1>4. TypeOK'
  BY <1>1, <1>2, <1>3 DEF IndInv, TypeOK
<1>5. KnowsEveryScript' /\ CompiledToRun' /\ IdsAreGiven'
  BY <1>1, <1>2, <1>3 DEF IndInv, KnowsEveryScript, CompiledToRun, IdsAreGiven
<1>6. UrlsAgree' /\ ReportsAreTrue'
  BY <1>1, <1>2, <1>3, GenerationAssumption DEF Reported, IndInv, UrlsAgree, ReportsAreTrue
<1>7. EditsAreApplied'
  BY <1>1, <1>2, PreviewAssumption DEF IndInv, EditsAreApplied
<1>8. BlackboxIsCurrent' /\ AnswersAreEarlier'
  BY <1>1, <1>3, GenerationAssumption DEF Reported, IndInv, TypeOK, BlackboxIsCurrent, AnswersAreEarlier
<1> QED  BY <1>4, <1>5, <1>6, <1>7, <1>8 DEF IndInv

LEMMA CollectScriptInv ==
  ASSUME IndInv, NEW id \in ScriptIds, CollectScript(id)
  PROVE  IndInv'
<1>1. /\ v8Scripts' \in Partial(ScriptIds, V8Scripts)
      /\ DOMAIN v8Scripts' = DOMAIN v8Scripts \ {id}
      /\ \A i \in DOMAIN v8Scripts' : v8Scripts'[i] = v8Scripts[i]
  BY RestrictFacts DEF CollectScript, IndInv, TypeOK
<1>2. id \notin compiled
      /\ UNCHANGED <<enabled, given, scripts, edited, editor, compiled, pattern,
                     generation, again, doubtful>>
  BY DEF CollectScript, editVars, skipVars
<1>3. TypeOK' /\ BlackboxIsCurrent' /\ AnswersAreEarlier'
  BY <1>1, <1>2 DEF IndInv, TypeOK, BlackboxIsCurrent, AnswersAreEarlier
<1>4. KnowsEveryScript' /\ CompiledToRun' /\ IdsAreGiven' /\ UrlsAgree' /\ ReportsAreTrue'
  BY <1>1, <1>2 DEF IndInv, KnowsEveryScript, CompiledToRun, IdsAreGiven, UrlsAgree, ReportsAreTrue
<1>5. EditsAreApplied'
  BY <1>1, <1>2 DEF IndInv, EditsAreApplied
<1> QED  BY <1>3, <1>4, <1>5 DEF IndInv

\* enable reports what V8 has.
LEMMA EnableInv == IndInv /\ Enable => IndInv'
<1> SUFFICES ASSUME IndInv, Enable PROVE IndInv'
  OBVIOUS
<1>1. UNCHANGED <<given, v8Scripts, edited, editor, compiled, pattern, generation,
                  again, doubtful>>
  BY DEF Enable, editVars, skipVars
<1>2. DOMAIN scripts' = DOMAIN v8Scripts
      /\ \A i \in DOMAIN v8Scripts : scripts'[i] = Reported(v8Scripts[i].url, v8Scripts[i].text)
  BY DEF Enable
<1>3. \A i \in DOMAIN v8Scripts : v8Scripts[i].url \in AnyUrl /\ v8Scripts[i].text \in Texts
  BY Shapes DEF IndInv, V8Scripts
<1>4. \A i \in DOMAIN v8Scripts :
        /\ scripts'[i] \in AgentScripts /\ scripts'[i].url = v8Scripts[i].url
        /\ scripts'[i].text = v8Scripts[i].text /\ scripts'[i].cached = 0
        /\ scripts'[i].hidden = FALSE
  <2> TAKE i \in DOMAIN v8Scripts
  <2>1. /\ scripts'[i] = Reported(v8Scripts[i].url, v8Scripts[i].text)
        /\ v8Scripts[i].url \in AnyUrl /\ v8Scripts[i].text \in Texts
    BY <1>2, <1>3
  <2>2. Reported(v8Scripts[i].url, v8Scripts[i].text) \in AgentScripts
    BY <2>1, ReportedFacts
  <2> QED  BY <2>1, <2>2 DEF Reported
<1>5. scripts' \in Partial(ScriptIds, AgentScripts)
  <2>1. scripts' \in [DOMAIN v8Scripts -> AgentScripts]
    BY <1>4 DEF Enable
  <2> QED  BY <2>1, Shapes, InPartial DEF IndInv
<1>6. TypeOK'
  BY <1>1, <1>5 DEF Enable, IndInv, TypeOK
<1>7. KnowsEveryScript' /\ CompiledToRun' /\ IdsAreGiven'
  BY <1>1, <1>2 DEF IndInv, KnowsEveryScript, CompiledToRun, IdsAreGiven
<1>8. UrlsAgree' /\ ReportsAreTrue'
  BY <1>1, <1>2, <1>4 DEF UrlsAgree, ReportsAreTrue
<1>9. EditsAreApplied'
  BY <1>1 DEF IndInv, EditsAreApplied
<1>10. BlackboxIsCurrent' /\ AnswersAreEarlier'
  BY <1>1, <1>2, <1>4, GenerationAssumption DEF IndInv, TypeOK, BlackboxIsCurrent, AnswersAreEarlier
<1> QED  BY <1>6, <1>7, <1>8, <1>9, <1>10 DEF IndInv

LEMMA DisableInv == IndInv /\ Disable => IndInv'
<1> SUFFICES ASSUME IndInv, Disable PROVE IndInv'
  OBVIOUS
<1>1. /\ UNCHANGED <<given, v8Scripts, edited, editor, pattern, generation, again>>
      /\ ~enabled' /\ enabled' \in BOOLEAN /\ compiled' = {} /\ doubtful' = {}
  BY DEF Disable, editVars, skipVars
<1>2. scripts' \in Partial(ScriptIds, AgentScripts) /\ DOMAIN scripts' = {}
  BY EmptyFacts DEF Disable
<1>3. TypeOK'
  BY <1>1, <1>2 DEF IndInv, TypeOK
<1>4. KnowsEveryScript' /\ CompiledToRun' /\ IdsAreGiven' /\ UrlsAgree' /\ ReportsAreTrue'
  BY <1>1, <1>2 DEF IndInv, KnowsEveryScript, CompiledToRun, IdsAreGiven, UrlsAgree, ReportsAreTrue
<1>5. EditsAreApplied' /\ BlackboxIsCurrent' /\ AnswersAreEarlier'
  BY <1>1, <1>2 DEF IndInv, EditsAreApplied, BlackboxIsCurrent, AnswersAreEarlier
<1> QED  BY <1>3, <1>4, <1>5 DEF IndInv

LEMMA RunScriptInv ==
  ASSUME IndInv, NEW id \in ScriptIds, RunScript(id)
  PROVE  IndInv'
<1>1. UNCHANGED <<enabled, given, v8Scripts, scripts, edited, editor, pattern,
                  generation, again, doubtful>>
      /\ compiled' \subseteq compiled
  BY DEF RunScript, editVars, skipVars
<1>2. TypeOK' /\ CompiledToRun'
  BY <1>1 DEF IndInv, TypeOK, CompiledToRun
<1>3. /\ KnowsEveryScript' /\ IdsAreGiven' /\ UrlsAgree' /\ ReportsAreTrue'
      /\ EditsAreApplied' /\ BlackboxIsCurrent' /\ AnswersAreEarlier'
  BY <1>1 DEF IndInv, KnowsEveryScript, IdsAreGiven, UrlsAgree, ReportsAreTrue,
     EditsAreApplied, BlackboxIsCurrent, AnswersAreEarlier
<1> QED  BY <1>2, <1>3 DEF IndInv

-----------------------------------------------------------------------------
(* setScriptSource.                                                        *)

\* The URL that setScriptSource finds is that of V8's script.
LEMMA RecordEditFacts ==
  ASSUME IndInv, enabled, NEW id \in DOMAIN v8Scripts, NEW text \in Texts,
         NEW by \in ScriptIds \cup {Preview}, RecordEdit(id, text, by)
  PROVE  /\ edited' \in Partial(Urls, Texts)
         /\ editor' \in [DOMAIN edited' -> ScriptIds \cup {Preview}]
         /\ IF v8Scripts[id].url = NoUrl THEN edited' = edited /\ editor' = editor
            ELSE /\ DOMAIN edited' = DOMAIN edited \cup {v8Scripts[id].url}
                 /\ edited'[v8Scripts[id].url] = text /\ editor'[v8Scripts[id].url] = by
                 /\ \A url \in DOMAIN edited \ {v8Scripts[id].url} :
                      edited'[url] = edited[url] /\ editor'[url] = editor[url]
<1> DEFINE url == v8Scripts[id].url
<1>1. id \in DOMAIN scripts /\ scripts[id].url = url
  BY DEF IndInv, KnowsEveryScript, UrlsAgree
<1>2. url \in AnyUrl
  BY Shapes DEF IndInv, V8Scripts
<1>3. edited \in Partial(Urls, Texts) /\ editor \in [DOMAIN edited -> ScriptIds \cup {Preview}]
  BY DEF IndInv, TypeOK
<1> HIDE DEF url
<1>4. CASE url = NoUrl
  BY <1>1, <1>3, <1>4 DEF RecordEdit, editVars, url
<1>5. CASE url # NoUrl
  <2>1. edited' = With(edited, url, text) /\ editor' = With(editor, url, by)
    BY <1>1, <1>5 DEF RecordEdit
  <2>2. edited' \in Partial(Urls, Texts)
    BY <1>2, <1>3, <1>5, <2>1, WithPartial DEF AnyUrl
  <2>3. editor' \in [DOMAIN edited' -> ScriptIds \cup {Preview}]
    BY <1>3, <2>1 DEF With
  <2> QED  BY <1>3, <1>5, <2>1, <2>2, <2>3 DEF url, With
<1> QED  BY <1>4, <1>5

LEMMA PreviewScriptSourceInv ==
  ASSUME IndInv, NEW id \in ScriptIds, NEW text \in Texts, PreviewScriptSource(id, text)
  PROVE  IndInv'
<1>1. UNCHANGED <<enabled, given, v8Scripts, scripts, compiled, pattern, generation,
                  again, doubtful>>
  BY DEF PreviewScriptSource, skipVars
<1>2. enabled /\ id \in DOMAIN v8Scripts /\ RecordEdit(id, text, Preview)
  BY DEF PreviewScriptSource
<1>3. TypeOK'
  BY <1>1, <1>2, RecordEditFacts DEF IndInv, TypeOK
<1>4. /\ KnowsEveryScript' /\ CompiledToRun' /\ IdsAreGiven' /\ UrlsAgree'
      /\ ReportsAreTrue' /\ BlackboxIsCurrent' /\ AnswersAreEarlier'
  BY <1>1 DEF IndInv, KnowsEveryScript, CompiledToRun, IdsAreGiven, UrlsAgree, ReportsAreTrue,
     BlackboxIsCurrent, AnswersAreEarlier
<1>5. EditsAreApplied'
  <2>1. Preview \notin DOMAIN v8Scripts
    BY Shapes, PreviewAssumption DEF IndInv
  <2> SUFFICES ASSUME NEW url \in DOMAIN edited'
               PROVE  /\ editor'[url] \in given' \cup {Preview}
                      /\ editor'[url] \in DOMAIN v8Scripts' =>
                           v8Scripts'[editor'[url]] = [url |-> url, text |-> edited'[url]]
    BY DEF EditsAreApplied
  <2>2. \/ editor'[url] = Preview
        \/ url \in DOMAIN edited /\ editor'[url] = editor[url] /\ edited'[url] = edited[url]
    <3>1. /\ IF v8Scripts[id].url = NoUrl THEN edited' = edited /\ editor' = editor
             ELSE /\ DOMAIN edited' = DOMAIN edited \cup {v8Scripts[id].url}
                  /\ editor'[v8Scripts[id].url] = Preview
                  /\ \A u \in DOMAIN edited \ {v8Scripts[id].url} :
                       edited'[u] = edited[u] /\ editor'[u] = editor[u]
      BY <1>2, RecordEditFacts
    <3> QED  BY <3>1
  <2> QED  BY <1>1, <2>1, <2>2 DEF IndInv, EditsAreApplied
<1> QED  BY <1>3, <1>4, <1>5 DEF IndInv

LEMMA FailScriptSourceInv ==
  ASSUME IndInv, NEW id \in ScriptIds, NEW text \in Texts, FailScriptSource(id, text)
  PROVE  IndInv'
<1>1. UNCHANGED <<enabled, given, v8Scripts, edited, editor, compiled, pattern,
                  generation, again>>
      /\ doubtful' = doubtful \cup {id} /\ id \in DOMAIN v8Scripts
  BY DEF FailScriptSource, editVars, skipVars
<1>2. v8Scripts[id].url \in AnyUrl
  BY <1>1, Shapes DEF IndInv, V8Scripts
<1>3. /\ scripts' \in Partial(ScriptIds, AgentScripts)
      /\ DOMAIN scripts' = DOMAIN scripts \cup {id}
      /\ scripts'[id] = Reported(v8Scripts[id].url, text)
      /\ \A i \in DOMAIN scripts : i # id => scripts'[i] = scripts[i]
  <2>1. scripts' = With(scripts, id, Reported(v8Scripts[id].url, text))
    BY DEF FailScriptSource
  <2>2. scripts \in Partial(ScriptIds, AgentScripts)
    BY DEF IndInv, TypeOK
  <2>3. Reported(v8Scripts[id].url, text) \in AgentScripts
    BY <1>2, ReportedFacts
  <2>4. scripts' \in Partial(ScriptIds, AgentScripts)
    BY <2>1, <2>2, <2>3, WithPartial
  <2> QED  BY <2>1, <2>4 DEF With
<1>4. TypeOK'
  BY <1>1, <1>3 DEF IndInv, TypeOK
<1>5. KnowsEveryScript' /\ CompiledToRun' /\ IdsAreGiven' /\ EditsAreApplied'
  BY <1>1, <1>3 DEF IndInv, KnowsEveryScript, CompiledToRun, IdsAreGiven, EditsAreApplied
<1>6. UrlsAgree' /\ ReportsAreTrue'
  BY <1>1, <1>2, <1>3, GenerationAssumption DEF Reported, IndInv, UrlsAgree, ReportsAreTrue
<1>7. BlackboxIsCurrent' /\ AnswersAreEarlier'
  BY <1>1, <1>2, <1>3, GenerationAssumption
     DEF Reported, IndInv, TypeOK, BlackboxIsCurrent, AnswersAreEarlier
<1> QED  BY <1>4, <1>5, <1>6, <1>7 DEF IndInv

LEMMA SetScriptSourceInv ==
  ASSUME IndInv, NEW id \in ScriptIds, NEW text \in Texts, NEW copy \in ScriptIds,
         SetScriptSource(id, text, copy)
  PROVE  IndInv'
<1> DEFINE old == v8Scripts[id]
           new == [old EXCEPT !.text = text]
           was == [old EXCEPT !.url = OldUrl[old.url]]
<1>1. /\ UNCHANGED <<enabled, compiled, pattern, generation, again>>
      /\ enabled /\ id \in DOMAIN v8Scripts /\ RecordEdit(id, text, id)
      /\ doubtful' = doubtful \cup {id}
  BY DEF SetScriptSource, skipVars
<1>2. old \in V8Scripts
  BY <1>1, Shapes DEF IndInv
<1>3. /\ new \in V8Scripts /\ new = [url |-> old.url, text |-> text]
      /\ was \in V8Scripts /\ was.url \in AnyUrl /\ was.text \in Texts
  BY <1>2, UrlsAssumption DEF V8Scripts, AnyUrl
<1>4. id \in DOMAIN scripts
  BY <1>1 DEF IndInv, KnowsEveryScript
<1>5. /\ v8Scripts \in Partial(ScriptIds, V8Scripts)
      /\ scripts \in Partial(ScriptIds, AgentScripts)
  BY DEF IndInv, TypeOK
<1>6. \/ /\ v8Scripts' = With(v8Scripts, id, new)
         /\ UNCHANGED <<given, scripts>>
      \/ /\ copy # id /\ copy \notin given /\ given' = given \cup {copy}
         /\ v8Scripts' = With(With(v8Scripts, copy, was), id, new)
         /\ scripts' = With(scripts, copy, Reported(was.url, was.text))
  BY DEF SetScriptSource
<1> HIDE DEF old, new, was
<1>7. /\ v8Scripts' \in Partial(ScriptIds, V8Scripts)
      /\ scripts' \in Partial(ScriptIds, AgentScripts)
      /\ given' \subseteq ScriptIds /\ given \subseteq given'
  <2>1. With(v8Scripts, copy, was) \in Partial(ScriptIds, V8Scripts)
    BY <1>3, <1>5, WithPartial
  <2>2. Reported(was.url, was.text) \in AgentScripts
    BY <1>3, ReportedFacts
  <2> QED  BY <1>3, <1>5, <1>6, <2>1, <2>2, WithPartial DEF IndInv, TypeOK
<1>8. /\ v8Scripts'[id] = new /\ id \in DOMAIN v8Scripts'
      /\ \A i \in DOMAIN v8Scripts : i # id => v8Scripts'[i] = v8Scripts[i]
      /\ \A i \in DOMAIN scripts : scripts'[i] = scripts[i]
      /\ DOMAIN v8Scripts \subseteq DOMAIN v8Scripts' /\ DOMAIN scripts \subseteq DOMAIN scripts'
  <2>1. copy \notin given => copy \notin DOMAIN v8Scripts /\ copy \notin DOMAIN scripts
    BY DEF IndInv, IdsAreGiven
  <2> QED  BY <1>1, <1>6, <2>1 DEF With
<1>9. \A i : /\ i \in DOMAIN v8Scripts' /\ i \notin DOMAIN v8Scripts =>
                  /\ i \notin given /\ i \in given' /\ i \in DOMAIN scripts'
                  /\ v8Scripts'[i] = was /\ scripts'[i] = Reported(was.url, was.text)
             /\ i \in DOMAIN scripts' /\ i \notin DOMAIN scripts =>
                  /\ i \notin given /\ i \in given'
                  /\ scripts'[i] = Reported(was.url, was.text)
                  /\ v8Scripts'[i] = was /\ i # id
  <2>1. CASE v8Scripts' = With(v8Scripts, id, new) /\ UNCHANGED <<given, scripts>>
    BY <1>1, <1>4, <2>1 DEF With
  <2>2. CASE /\ copy # id /\ copy \notin given /\ given' = given \cup {copy}
             /\ v8Scripts' = With(With(v8Scripts, copy, was), id, new)
             /\ scripts' = With(scripts, copy, Reported(was.url, was.text))
    <3>1. /\ DOMAIN v8Scripts' = DOMAIN v8Scripts \cup {copy, id} /\ v8Scripts'[copy] = was
          /\ DOMAIN scripts' = DOMAIN scripts \cup {copy}
          /\ scripts'[copy] = Reported(was.url, was.text)
      BY <2>2 DEF With
    <3> QED  BY <1>1, <1>4, <2>2, <3>1
  <2> QED  BY <1>6, <2>1, <2>2
<1>10. TypeOK'
  BY <1>1, <1>7, RecordEditFacts DEF IndInv, TypeOK
<1>11. KnowsEveryScript' /\ CompiledToRun' /\ IdsAreGiven'
  <2>1. KnowsEveryScript'
    BY <1>1, <1>8, <1>9 DEF IndInv, KnowsEveryScript
  <2>2. CompiledToRun'
    BY <1>1, <1>8 DEF IndInv, CompiledToRun
  <2>3. IdsAreGiven'
    BY <1>7, <1>8, <1>9 DEF IndInv, IdsAreGiven
  <2> QED  BY <2>1, <2>2, <2>3
<1>12. new.url = old.url
  BY <1>3
<1>13. UrlsAgree'
  <2> SUFFICES ASSUME NEW i \in DOMAIN scripts' \cap DOMAIN v8Scripts'
               PROVE  scripts'[i].url = v8Scripts'[i].url
    BY DEF UrlsAgree
  <2>1. CASE i = id
    BY <2>1, <1>1, <1>4, <1>8, <1>12 DEF IndInv, UrlsAgree, old
  <2>2. CASE i \notin DOMAIN scripts
    BY <2>2, <1>3, <1>9, <1>4 DEF Reported
  <2>3. CASE i # id /\ i \in DOMAIN scripts
    <3>1. i \in DOMAIN v8Scripts
      BY <2>3, <1>9 DEF IndInv, IdsAreGiven
    <3> QED  BY <3>1, <2>3, <1>8 DEF IndInv, UrlsAgree
  <2> QED  BY <2>1, <2>2, <2>3
<1>14. ReportsAreTrue'
  <2> SUFFICES ASSUME NEW i \in (DOMAIN scripts' \cap DOMAIN v8Scripts') \ doubtful'
               PROVE  scripts'[i].text = v8Scripts'[i].text
    BY DEF ReportsAreTrue
  <2>1. CASE i \notin DOMAIN scripts
    BY <2>1, <1>3, <1>9, <1>4 DEF Reported
  <2>2. CASE i \in DOMAIN scripts
    <3>1. i \in DOMAIN v8Scripts /\ i # id /\ i \notin doubtful
      BY <2>2, <1>1, <1>9 DEF IndInv, IdsAreGiven
    <3> QED  BY <3>1, <2>2, <1>8 DEF IndInv, ReportsAreTrue
  <2> QED  BY <2>1, <2>2
<1>15. EditsAreApplied'
  <2> SUFFICES ASSUME NEW url \in DOMAIN edited'
               PROVE  /\ editor'[url] \in given' \cup {Preview}
                      /\ editor'[url] \in DOMAIN v8Scripts' =>
                           v8Scripts'[editor'[url]] = [url |-> url, text |-> edited'[url]]
    BY DEF EditsAreApplied
  <2>1. CASE url = old.url
    <3>1. url # NoUrl
      BY <1>10, UrlsAssumption, Shapes, OfPartial DEF TypeOK
    <3>2. editor'[url] = id /\ edited'[url] = text
      BY <2>1, <3>1, <1>1, RecordEditFacts DEF old
    <3> QED  BY <2>1, <3>2, <1>1, <1>3, <1>7, <1>8 DEF IndInv, IdsAreGiven
  <2>2. CASE url # old.url
    <3>1. url \in DOMAIN edited /\ editor'[url] = editor[url] /\ edited'[url] = edited[url]
      BY <2>2, <1>1, RecordEditFacts DEF old
    <3>2. /\ editor[url] \in given \cup {Preview}
          /\ editor[url] \in DOMAIN v8Scripts =>
               v8Scripts[editor[url]] = [url |-> url, text |-> edited[url]]
      BY <3>1 DEF IndInv, EditsAreApplied
    <3>3. editor[url] \in DOMAIN v8Scripts' => editor[url] \in DOMAIN v8Scripts
      BY <3>2, <1>7, <1>9, PreviewAssumption, OfPartial
    <3>4. editor[url] # id
      BY <3>2, <2>2, <1>1 DEF old
    <3> QED  BY <3>1, <3>2, <3>3, <3>4, <1>7, <1>8
  <2> QED  BY <2>1, <2>2
<1>16. BlackboxIsCurrent' /\ AnswersAreEarlier'
  BY <1>1, <1>3, <1>8, <1>9, GenerationAssumption
     DEF Reported, IndInv, TypeOK, BlackboxIsCurrent, AnswersAreEarlier
<1> QED  BY <1>10, <1>11, <1>13, <1>14, <1>15, <1>16 DEF IndInv

-----------------------------------------------------------------------------
(* Blackboxing.                                                            *)

LEMMA SkipStackFramesInv ==
  ASSUME IndInv, NEW p \in Patterns \cup {NoPattern}, SkipStackFrames(p)
  PROVE  IndInv'
<1>1. /\ UNCHANGED <<enabled, given, v8Scripts, scripts, edited, editor, compiled, doubtful>>
      /\ pattern' = p
      /\ generation' = IF generation = MaxGeneration THEN 1 ELSE generation + 1
      /\ again' = (again \/ generation = MaxGeneration)
  BY DEF SkipStackFrames, editVars
<1>2. generation \in 0..MaxGeneration /\ again \in BOOLEAN
  BY DEF IndInv, TypeOK
<1>3. generation' \in 1..MaxGeneration /\ again' \in BOOLEAN
      /\ (~again' => ~again /\ generation' = generation + 1)
  <2>1. CASE generation = MaxGeneration
    <3>1. generation' = 1 /\ again' = TRUE
      BY <1>1, <2>1
    <3> QED  BY <3>1, GenerationAssumption
  <2>2. CASE generation # MaxGeneration
    BY <1>1, <1>2, <2>2, GenerationAssumption
  <2> QED  BY <2>1, <2>2
<1>4. TypeOK'
  BY <1>1, <1>3 DEF IndInv, TypeOK
<1>5. \A id \in DOMAIN scripts : scripts[id].cached \in 0..MaxGeneration
  BY Shapes DEF IndInv, AgentScripts
<1>6. ~again' => \A id \in DOMAIN scripts : scripts[id].cached < generation'
  BY <1>2, <1>3, <1>5, GenerationAssumption DEF IndInv, AnswersAreEarlier
<1>7. BlackboxIsCurrent' /\ AnswersAreEarlier'
  BY <1>1, <1>3, <1>5, <1>6, GenerationAssumption DEF BlackboxIsCurrent, AnswersAreEarlier
<1>8. /\ KnowsEveryScript' /\ CompiledToRun' /\ IdsAreGiven' /\ UrlsAgree'
      /\ ReportsAreTrue' /\ EditsAreApplied'
  BY <1>1 DEF IndInv, KnowsEveryScript, CompiledToRun, IdsAreGiven, UrlsAgree, ReportsAreTrue,
     EditsAreApplied
<1> QED  BY <1>4, <1>7, <1>8 DEF IndInv

LEMMA IsBlackboxedInv ==
  ASSUME IndInv, NEW id \in ScriptIds, IsBlackboxed(id)
  PROVE  IndInv'
<1> DEFINE answer == <<pattern, scripts[id].url>> \in Matches
<1>1. UNCHANGED <<enabled, given, v8Scripts, edited, editor, compiled, pattern,
                  generation, again, doubtful>>
      /\ id \in DOMAIN scripts
  BY DEF IsBlackboxed, editVars, skipVars
<1>2. \A i \in DOMAIN scripts : scripts[i] \in AgentScripts
  BY Shapes DEF IndInv
<1>3. generation \in 0..MaxGeneration
  BY DEF IndInv, TypeOK
<1>4. /\ DOMAIN scripts' = DOMAIN scripts
      /\ \A i \in DOMAIN scripts : i # id => scripts'[i] = scripts[i]
      /\ scripts'[id] = [scripts[id] EXCEPT !.cached = generation, !.hidden = answer]
  BY <1>1 DEF IsBlackboxed
<1>11. answer \in BOOLEAN
  OBVIOUS
<1> HIDE DEF answer
<1>5. /\ scripts'[id] \in AgentScripts /\ scripts'[id].url = scripts[id].url
      /\ scripts'[id].text = scripts[id].text /\ scripts'[id].cached = generation
      /\ scripts'[id].hidden = answer
  <2>1. scripts[id] \in AgentScripts
    BY <1>1, <1>2
  <2> QED  BY <1>3, <1>4, <1>11, <2>1 DEF AgentScripts
<1>6. scripts' \in Partial(ScriptIds, AgentScripts)
  <2>1. scripts' \in [DOMAIN scripts -> AgentScripts]
    <3>1. \A i \in DOMAIN scripts : scripts'[i] \in AgentScripts
      BY <1>2, <1>4, <1>5
    <3>2. scripts' = [i \in DOMAIN scripts |-> scripts'[i]]
      BY DEF IsBlackboxed
    <3> QED  BY <3>1, <3>2
  <2> QED  BY <2>1, Shapes, InPartial DEF IndInv
<1>7. TypeOK'
  BY <1>1, <1>6 DEF IndInv, TypeOK
<1>8. KnowsEveryScript' /\ CompiledToRun' /\ IdsAreGiven' /\ EditsAreApplied'
  BY <1>1, <1>4 DEF IndInv, KnowsEveryScript, CompiledToRun, IdsAreGiven, EditsAreApplied
<1>9. UrlsAgree' /\ ReportsAreTrue'
  BY <1>1, <1>4, <1>5 DEF IndInv, UrlsAgree, ReportsAreTrue
<1>10. BlackboxIsCurrent' /\ AnswersAreEarlier'
  <2>1. BlackboxIsCurrent'
    <3>1. pattern' # NoPattern => generation' # 0
      BY <1>1 DEF IndInv, BlackboxIsCurrent
    <3>2. ASSUME NEW i \in DOMAIN scripts', ~again', pattern' # NoPattern,
                 scripts'[i].cached = generation'
          PROVE  scripts'[i].hidden = (<<pattern', scripts'[i].url>> \in Matches)
      <4>1. CASE i = id
        BY <4>1, <1>1, <1>5 DEF answer
      <4>2. CASE i # id
        <5>1. i \in DOMAIN scripts /\ scripts'[i] = scripts[i]
          BY <4>2, <1>4
        <5> QED  BY <3>2, <5>1, <1>1 DEF IndInv, BlackboxIsCurrent
      <4> QED  BY <4>1, <4>2
    <3> QED  BY <3>1, <3>2 DEF BlackboxIsCurrent
  <2>2. AnswersAreEarlier'
    <3> SUFFICES ASSUME ~again', NEW i \in DOMAIN scripts'
                 PROVE  scripts'[i].cached <= generation'
      BY DEF AnswersAreEarlier
    <3>1. CASE i = id
      BY <3>1, <1>1, <1>3, <1>5, GenerationAssumption
    <3>2. CASE i # id
      BY <3>2, <1>1, <1>4 DEF IndInv, AnswersAreEarlier
    <3> QED  BY <3>1, <3>2
  <2> QED  BY <2>1, <2>2
<1> QED  BY <1>7, <1>8, <1>9, <1>10 DEF IndInv

-----------------------------------------------------------------------------
(* The theorems.                                                           *)

LEMMA NextInv == IndInv /\ [Next]_vars => IndInv'
<1> SUFFICES ASSUME IndInv, [Next]_vars PROVE IndInv'
  OBVIOUS
<1>1. CASE Enable
  BY <1>1, EnableInv
<1>2. CASE Disable
  BY <1>2, DisableInv
<1>3. CASE \E p \in Patterns \cup {NoPattern} : SkipStackFrames(p)
  BY <1>3, SkipStackFramesInv
<1>4. ASSUME NEW id \in ScriptIds, CollectScript(id) \/ RunScript(id) \/ IsBlackboxed(id)
      PROVE  IndInv'
  BY <1>4, CollectScriptInv, RunScriptInv, IsBlackboxedInv
<1>5. ASSUME NEW id \in ScriptIds, NEW url \in AnyUrl, NEW text \in Texts,
             Compile(id, url, text) \/ CompileScript(id, url, text)
      PROVE  IndInv'
  <2>1. CASE Compile(id, url, text)
    BY <2>1, V8CompileInv DEF Compile
  <2>2. CASE CompileScript(id, url, text)
    BY <2>2, V8CompileInv DEF CompileScript
  <2> QED  BY <1>5, <2>1, <2>2
<1>6. ASSUME NEW id \in ScriptIds, NEW text \in Texts,
             PreviewScriptSource(id, text) \/ FailScriptSource(id, text)
      PROVE  IndInv'
  BY <1>6, PreviewScriptSourceInv, FailScriptSourceInv
<1>7. ASSUME NEW id \in ScriptIds, NEW text \in Texts, NEW copy \in ScriptIds,
             SetScriptSource(id, text, copy)
      PROVE  IndInv'
  BY <1>7, SetScriptSourceInv
<1>8. CASE UNCHANGED vars
  BY <1>8 DEF vars, IndInv, TypeOK, KnowsEveryScript, CompiledToRun, BlackboxIsCurrent,
     IdsAreGiven, UrlsAgree, AnswersAreEarlier, EditsAreApplied, ReportsAreTrue
<1> QED  BY <1>1, <1>2, <1>3, <1>4, <1>5, <1>6, <1>7, <1>8 DEF Next

\* The inductive invariant holds in every reachable state.
THEOREM ScriptsInvariance == Spec => []IndInv
  BY InitInv, NextInv, PTL DEF Spec

\* Every reachable state is well typed: generations stay within an unsigned.
THEOREM ScriptsTypeCorrect == Spec => []TypeOK
<1>1. IndInv => TypeOK
  BY DEF IndInv
<1> QED  BY <1>1, ScriptsInvariance, PTL

\* An enabled agent knows every script that V8 has: none is skipped as unknown.
THEOREM KnowsEveryScriptAlways == Spec => []KnowsEveryScript
<1>1. IndInv => KnowsEveryScript
  BY DEF IndInv
<1> QED  BY <1>1, ScriptsInvariance, PTL

\* getScriptSource returns what V8 runs, after the last edit of its URL if that
\* was applied to this script, and before any.
THEOREM SourceIsCurrentAlways == Spec => []SourceIsCurrent
<1>1. ASSUME IndInv PROVE SourceIsCurrent
  <2> SUFFICES ASSUME NEW id \in DOMAIN scripts \cap DOMAIN v8Scripts,
                      IF scripts[id].url \in DOMAIN edited
                        THEN editor[scripts[id].url] = id ELSE id \notin doubtful
               PROVE  GetScriptSource(id) = v8Scripts[id].text
    BY DEF SourceIsCurrent
  <2>1. CASE scripts[id].url \in DOMAIN edited
    <3>1. scripts[id].url # NoUrl
      BY <2>1, <1>1, Shapes, UrlsAssumption DEF IndInv
    <3>2. v8Scripts[id] = [url |-> scripts[id].url, text |-> edited[scripts[id].url]]
      BY <2>1, <1>1 DEF IndInv, EditsAreApplied
    <3> QED  BY <2>1, <3>1, <3>2 DEF GetScriptSource
  <2>2. CASE scripts[id].url \notin DOMAIN edited
    BY <2>2, <1>1 DEF IndInv, ReportsAreTrue, GetScriptSource
  <2> QED  BY <2>1, <2>2
<1>2. IndInv => SourceIsCurrent
  BY <1>1
<1> QED  BY <1>2, ScriptsInvariance, PTL

\* What runScript accepts is known to the client and to V8.
THEOREM CompiledToRunAlways == Spec => []CompiledToRun
<1>1. IndInv => CompiledToRun
  BY DEF IndInv
<1> QED  BY <1>1, ScriptsInvariance, PTL

\* Until generations start again, no answer about skipping is out of date.
THEOREM BlackboxIsCurrentAlways == Spec => []BlackboxIsCurrent
<1>1. IndInv => BlackboxIsCurrent
  BY DEF IndInv
<1> QED  BY <1>1, ScriptsInvariance, PTL

=============================================================================
