------------------------------ MODULE RuleText ------------------------------
(***************************************************************************)
(* The text of a query: how lint reads it, and how the lines that name a   *)
(* snippet are expanded before it is sent.  A query is a sequence of       *)
(* tokens: brackets, quotes, the backslash, the start of a comment, the    *)
(* end of a line, words (some of which a rule of lint looks for) and       *)
(* placeholders.                                                           *)
(***************************************************************************)
EXTENDS Integers, Sequences, SequencesExt, FiniteSetsExt

Openers == {"(", "["}
Closers == {")", "]"}
Opposite == (")" :> "(") @@ ("]" :> "[")
Blank == " "

-----------------------------------------------------------------------------
(* _strip_strings_and_comments: what is code is kept, what is not is blank.  *)
(* "@'" opens a verbatim string, which a doubled quote does not close:       *)
(* "closing" is the mode behind a quote in one.                              *)

AsCode(s, t) ==
  CASE t = "//" -> [mode |-> "comment", out |-> Append(s.out, Blank)]
    [] t = "'" -> [mode |-> "string", out |-> Append(s.out, Blank)]
    [] t = "@'" -> [mode |-> "verbatim", out |-> Append(s.out, Blank)]
    [] OTHER -> [mode |-> "code", out |-> Append(s.out, t)]
Skipped(s, t, mode) == [mode |-> mode, out |-> Append(s.out, IF t = "nl" THEN t ELSE Blank)]

\* Mutant: the end of a line ends a string too.
ScannedByLine(s, t) ==
  CASE s.mode = "code" -> AsCode(s, t)
    [] s.mode = "comment" -> IF t = "nl" THEN AsCode(s, t) ELSE Skipped(s, t, "comment")
    [] s.mode = "escape" -> Skipped(s, t, IF t = "@'" THEN "code" ELSE "string")
    [] s.mode = "string" -> Skipped(s, t, IF t \in {"'", "nl", "\\"} THEN "code" ELSE "string")
    [] OTHER -> AsCode(s, t)

Scanned(s, t) ==
  CASE s.mode = "code" -> AsCode(s, t)
    [] s.mode = "comment" -> IF t = "nl" THEN AsCode(s, t) ELSE Skipped(s, t, "comment")
    [] s.mode = "escape" -> Skipped(s, t, IF t = "@'" THEN "code" ELSE "string")
    [] s.mode = "string" ->
         Skipped(s, t, CASE t = "\\" -> "escape" [] t \in {"'", "@'"} -> "code" [] OTHER -> "string")
    [] s.mode = "verbatim" -> Skipped(s, t, IF t \in {"'", "@'"} THEN "closing" ELSE "verbatim")
    [] OTHER -> IF t = "'" THEN Skipped(s, t, "verbatim") ELSE AsCode(s, t)

Scan(q) == FoldLeft(Scanned, [mode |-> "code", out |-> <<>>], q)
Unterminated(q) == Scan(q).mode \in {"string", "escape", "verbatim"}
Code(q) == Scan(q).out

(* _check_balanced_brackets: a closer that does not fit drops the opener. *)
Bracket(s, t) ==
  CASE t \in Openers -> [s EXCEPT !.stack = Append(@, t)]
    [] t \in Closers ->
         LET fits == s.stack # <<>> /\ Last(s.stack) = Opposite[t] IN
         [stack |-> IF s.stack = <<>> THEN <<>> ELSE Front(s.stack), bad |-> s.bad \/ ~fits]
    [] OTHER -> s
Unbalanced(code) ==
  LET end == FoldLeft(Bracket, [stack |-> <<>>, bad |-> FALSE], code) IN end.bad \/ end.stack # <<>>

Lines(q) ==
  LET ends == {0, Len(q) + 1} \cup {i \in DOMAIN q : q[i] = "nl"}
      starts == SetToSortSeq(ends \ {Len(q) + 1}, <) IN
  [n \in DOMAIN starts |-> SubSeq(q, starts[n] + 1, Min({e \in ends : e > starts[n]}) - 1)]
BeforeComment(line) ==
  SubSeq(line, 1, Min({Len(line)} \cup {i - 1 : i \in {j \in DOMAIN line : line[j] = "//"}}))

(* lint_kql: the rule that each pattern breaks.  The emptiness check cuts   *)
(* each line at the first slashes, in a string or not.                      *)
Patterns == ("project *" :> "KQL004") @@ ("take" :> "KQL005") @@ ("bag_unpack" :> "KQL006")
  @@ ("union *" :> "KQL007") @@ ("externaldata" :> "KQL008") @@ ("workspace()" :> "KQL010")
KqlErrors == {"KQL001", "KQL002", "KQL003", "KQL007"}

LintKql(q) ==
  (IF \A n \in DOMAIN Lines(q) : BeforeComment(Lines(q)[n]) = <<>> THEN {"KQL003"} ELSE {})
    \cup (IF Unbalanced(Code(q)) THEN {"KQL001"} ELSE {})
    \cup (IF Unterminated(q) THEN {"KQL002"} ELSE {})
    \cup {Patterns[t] : t \in Range(Code(q)) \cap DOMAIN Patterns}
    \cup IF Range(Code(q)) \cap {"take", "limit"} # {} THEN {"KQL101"} ELSE {}

-----------------------------------------------------------------------------
(* Placeholders.  A strict one names a file under overrides/; one that      *)
(* climbs out of it is strict too; a loose one names none.                  *)
CONSTANTS Strict, Climbing, Loose        \* disjoint sets of placeholders
Substituted == Strict \cup Climbing

\* Mutant: the residue of a line is not looked at.
LintPlaceholdersLenient(q) ==
  {"KQLOVERRIDE002" : n \in {m \in DOMAIN Lines(q) : Range(Lines(q)[m]) \cap Climbing # {}}}

LintPlaceholders(q) ==
  UNION {LET line == Lines(q)[n]
             residue == SelectSeq(BeforeComment(line), LAMBDA t : t \notin Substituted) IN
         (IF Range(line) \cap Loose # {} THEN {"KQLOVERRIDE001"} ELSE {})
           \cup (IF Range(line) \cap Climbing # {} THEN {"KQLOVERRIDE002"} ELSE {})
           \cup (IF Range(line) \cap Substituted # {} /\ residue # <<>> THEN {"KQLOVERRIDE003"} ELSE {}) :
         n \in DOMAIN Lines(q)}
PlaceholderErrors == {"KQLOVERRIDE002", "KQLOVERRIDE003"}

(* lint_overrides_directory: overrides maps a folder and a placeholder to a *)
(* file: "none", "broken" or the tokens of its content.                     *)
LintOverrides(overrides) ==
  IF \E w \in DOMAIN overrides, p \in Strict : overrides[w][p] = <<"broken">> THEN {"KQLOVERRIDE004"} ELSE {}

(* resolve_snippet: the folder of the workspace goes before the common one; *)
(* a path that leaves overrides/ and a broken file raise.                   *)
NoFile == <<"none">>
Resolve(overrides, p, workspace) ==
  CASE p \in Climbing -> <<"broken">>
    [] p \notin Climbing /\ overrides[workspace][p] # NoFile -> overrides[workspace][p]
    [] OTHER -> overrides["common"][p]

(* _substitute_text: a line with a placeholder that no file answers is       *)
(* dropped; the ones behind the first such are not looked at.                *)
TokensOf(line) == SelectSeq(line, LAMBDA t : t \in Substituted)
FirstOf(line, Is(_)) == Min({Len(line) + 1} \cup {i \in DOMAIN line : Is(line[i])})
Raises(overrides, line, w) ==
  LET broken == FirstOf(TokensOf(line), LAMBDA p : Resolve(overrides, p, w) = <<"broken">>)
      missing == FirstOf(TokensOf(line), LAMBDA p : Resolve(overrides, p, w) = NoFile) IN
  broken <= Len(TokensOf(line)) /\ broken < missing
Dropped(overrides, line, w) == \E p \in Range(TokensOf(line)) : Resolve(overrides, p, w) = NoFile

ExpandedLine(overrides, line, w) ==
  FlattenSeq([i \in DOMAIN line |->
                IF line[i] \in Substituted THEN Resolve(overrides, line[i], w) ELSE <<line[i]>>])

SnippetError(overrides, q, w) == \E n \in DOMAIN Lines(q) : Raises(overrides, Lines(q)[n], w)
(* apply_snippets: a rule of Defender has no workspace folder. *)
Expanded(overrides, q, w) ==
  LET kept == SelectSeq(Lines(q), LAMBDA line : ~Dropped(overrides, line, w)) IN
  FoldLeft(LAMBDA text, line : (IF text = <<"start">> THEN <<>> ELSE Append(text, "nl"))
                                 \o ExpandedLine(overrides, line, w), <<"start">>, kept)

-----------------------------------------------------------------------------
(* lint --strict: run_strict.  The Kusto wrapper is asked where it is there *)
(* and the mode is not "off"; what it reports of an allowed rule may be on  *)
(* the allowlist.  reported is a set of findings <<rule, severity>>.        *)
Allowed == {"KS142", "KS211"}
StrictMode(config) ==
  IF config \in {"off", "report", "block"} THEN config ELSE "report"
AllowlistOf(entries) == {e.rule : e \in {x \in entries : x.rule \in Allowed /\ x.reason}}
RunStrict(q, config, wrapper, reported, entries) ==
  (IF "KQL101" \in LintKql(q) THEN {<<"KQL101", "warning">>} ELSE {})
    \cup CASE StrictMode(config) = "off" \/ wrapper = "absent" -> {}
           [] StrictMode(config) # "off" /\ wrapper = "fails" -> {<<"KQL000", "warning">>}
           [] OTHER ->
                {f \in reported : f[1] \notin AllowlistOf(entries)}
                  \cup IF \E e \in entries : e.rule \notin Allowed \/ ~e.reason THEN {<<"KQL000", "warning">>} ELSE {}

-----------------------------------------------------------------------------
(* Properties, of a query q. *)

(* What stands in a comment or in a string is not code: put before a query,   *)
(* it changes nothing of what is found in it (kql.py:29-105).                 *)
InertText(q, t) ==
  LET Same(prefix) == LintKql(prefix \o q) \ {"KQL003"} = LintKql(q) \ {"KQL003"} IN
  /\ t # "nl" => Same(<<"//", t, "nl">>)
  /\ t \notin {"'", "@'", "\\"} => Same(<<"'", t, "'">>)
  /\ Same(<<"'", "\\", "'", t, "nl", "\\", "'", "'">>) \/ t \in {"'", "@'", "\\"}
  /\ t \notin {"'", "@'"} => (q # <<>> /\ Head(q) \notin {"'", "@'"} => Same(<<"@'", t, "'", "'", "'">>))

(* KQL001 tells exactly when the brackets of the code do not pair up: by      *)
(* depth, each opener with the first closer that leaves it (kql.py:112-139).  *)
Depth(code, k) == Cardinality({i \in 1..k : code[i] \in Openers}) - Cardinality({i \in 1..k : code[i] \in Closers})
PairsUp(code) ==
  /\ \A k \in DOMAIN code : Depth(code, k) >= 0
  /\ Depth(code, Len(code)) = 0
  /\ \A i, j \in DOMAIN code :
       (/\ i < j /\ code[i] \in Openers /\ code[j] \in Closers /\ Depth(code, j) = Depth(code, i) - 1
        /\ \A k \in i..j - 1 : Depth(code, k) >= Depth(code, i)) => Opposite[code[j]] = code[i]
BracketsJudged(q) == ("KQL001" \in LintKql(q)) = ~PairsUp(Code(q))

(* Lint reads the template, the tenant gets the expansion: where lint finds   *)
(* nothing wrong with the placeholders, the overrides, the brackets and the   *)
(* strings of the template, none raises, and the expansion has its brackets   *)
(* and strings in order too (lint/snippets.py:61-145 against                  *)
(* snippets/apply.py:79-142).  Nothing lints the text of a snippet, and a     *)
(* placeholder in a comment or a string is let through: both are premises.    *)
InCode(q) == \A i \in DOMAIN q : q[i] \in Substituted => Code(q)[i] = q[i]
WholeSnippets(overrides) ==
  \A w \in DOMAIN overrides, p \in Strict :
    overrides[w][p] \in {NoFile, <<"broken">>} \/ LintKql(overrides[w][p]) \cap {"KQL001", "KQL002"} = {}
CleanTextExpandsClean(overrides, q, w) ==
  LET Clean(text) == LintKql(text) \cap {"KQL001", "KQL002"} = {} IN
  (/\ LintOverrides(overrides) = {} /\ LintPlaceholders(q) \cap PlaceholderErrors = {}
   /\ Clean(q) /\ InCode(q) /\ WholeSnippets(overrides)) =>
    /\ ~SnippetError(overrides, q, w)
    /\ Clean(Expanded(overrides, q, w))
=============================================================================
