--------------------------- MODULE LaunchArguments ---------------------------
(***************************************************************************)
(* What a caller's arguments become before native Qwen sees them: the      *)
(* interactive launch (wrappers/qwen/interactive_launch.go, arguments.go,  *)
(* interactive_config.go) and the lane's (qwen.go, lane_visibility.go).    *)
(*                                                                         *)
(* An argument is a token [kind, key, value]. A "word" has no key; an      *)
(* "option" has a key and its value, if it takes one, in the words after   *)
(* it; an "attached" option (--key=value) carries it; a "boundary" is the  *)
(* literal --. Spellings the wrapper and native both know are one key: the *)
(* startup prompt's are -i and --prompt-interactive, and native's camel    *)
(* --promptInteractive, which only native knows, is a key of its own. A    *)
(* value is the set of what its comma-separated parts mean. Native's       *)
(* parser is external.                                                     *)
(***************************************************************************)
EXTENDS Naturals, Sequences, FiniteSets

CONSTANTS
  Calls,         \* [mode, args, environment] of the launches an instance explores
  Files          \* the texts a caller's config file may hold

Modes == {"interactive", "lane"}
Arrays == {"servers", "allow", "exclude", "extension"} \* greedy in native
Scalars == {"group", "name", "prompt", "startup", "promptInteractive", "config", "input", "model"}
Flags == {"bare", "safe"}
Keys == Arrays \cup Scalars \cup Flags

\* QWEN_CODE_SIMPLE is true, QWEN_TUI_RENDERER is opentui.
Settings == {"bare", "opentui"}

Word(v)        == [kind |-> "word", key |-> "none", value |-> v]
Option(k)      == [kind |-> "option", key |-> k, value |-> {}]
Attached(k, v) == [kind |-> "attached", key |-> k, value |-> v]
Boundary       == [kind |-> "boundary", key |-> "none", value |-> {}]

Words   == [kind : {"word"}, key : {"none"}, value : SUBSET STRING]
Options == [kind : {"option"}, key : Keys, value : {{}}]
               \cup [kind : {"attached"}, key : Keys, value : SUBSET STRING]

ASSUME LaunchArgumentsAssumption ==
  /\ \A c \in Calls : /\ c.mode \in Modes /\ c.environment \subseteq Settings
                      /\ c.args \in Seq(Words \cup Options \cup {Boundary})
  /\ Files \subseteq Seq(STRING)

VARIABLES
  stage,         \* given, planned, exec, plain (ordinary native), refused
  call,          \* the caller's [mode, args, environment]
  named,         \* the plan has a name
  native,        \* the arguments the wrapper passes on
  file,          \* the text of the caller's config file
  data           \* what was read of it

vars == <<stage, call, named, native, file, data>>

IsWord(t) == t.kind = "word"
IsOption(t, k) == t.key = k /\ ~IsWord(t)
IsSubcommand(l) == l # <<>> /\ IsWord(l[1]) /\ "subcommand" \in l[1].value

(***************************************************************************)
(* The wrapper's scans. All of them stop at the literal boundary.          *)
(***************************************************************************)
\* The position of the first boundary, or the one after the last token.
End(l) == CHOOSE n \in 1 .. Len(l) + 1 :
            /\ n = Len(l) + 1 \/ l[n] = Boundary
            /\ \A i \in 1 .. n - 1 : l[i] # Boundary

InsertBeforeBoundary(l, values) ==
  SubSeq(l, 1, End(l) - 1) \o values \o SubSeq(l, End(l), Len(l))

\* The words right after the option at i, which its array takes.
Window(l, i) == {j \in i + 1 .. Len(l) : \A k \in i + 1 .. j : IsWord(l[k])}

\* Only the word after the option.
CollectedFirst(l, k) ==
  UNION {l[i].value \cup UNION {l[j].value : j \in Window(l, i) \cap {i + 1}} :
           i \in {n \in 1 .. End(l) - 1 : IsOption(l[n], k)}}

Collected(l, k) ==
  UNION {l[i].value \cup UNION {l[j].value : j \in Window(l, i)} :
           i \in {n \in 1 .. End(l) - 1 : IsOption(l[n], k)}}

\* The caller may name servers and excluded tools, not so that the managed one is lost.
ValidManaged(l) ==
  /\ "tool" \notin Collected(l, "exclude")
  /\ (\E i \in 1 .. End(l) - 1 : IsOption(l[i], "servers")) => "server" \in Collected(l, "servers")

BareArgument(l) ==
  \E i \in 1 .. Len(l) : \/ l[i] = Option("bare")
                         \/ i < End(l) /\ l[i] = Attached("bare", {"true"})

\* Bare mode, a renderer that watches no input file, and the caller's own input file are
\* refused. Safe mode is not.
Integrated(l) ==
  /\ call.environment = {} /\ ~BareArgument(l)
  /\ \A i \in 1 .. End(l) - 1 : ~IsOption(l[i], "input")

Grant == <<Option("allow"), Word({"tool"})>>

\* In front, where its array takes a leading prompt.
GrantedFirst(l) == Grant \o l
Granted(l) == InsertBeforeBoundary(l, Grant)

(***************************************************************************)
(* InteractivePlan. The wrapper's own options leave the list with their    *)
(* values; those of headless input are refused.                            *)
(***************************************************************************)
TakesOwn(t) == t.key \in {"group", "name"} /\ ~IsWord(t)

\* Take(s, t) reads one token: s.wants is the option that awaits its value.
Take(s, t) ==
  IF s.refused \/ s.literal THEN [s EXCEPT !.native = Append(@, t)]
  ELSE CASE s.wants # "none" ->
              [s EXCEPT !.refused = t = Boundary \/ (s.wants = "name" /\ t = Word({})),
                        !.named = @ \/ s.wants = "name", !.wants = "none"]
         [] s.wants = "none" /\ TakesOwn(t) /\ t.kind = "option" -> [s EXCEPT !.wants = t.key]
         [] s.wants = "none" /\ TakesOwn(t) /\ t.kind = "attached" ->
              [s EXCEPT !.refused = t.key = "name" /\ t.value = {}, !.named = @ \/ t.key = "name"]
         [] OTHER -> [s EXCEPT !.refused = IsOption(t, "prompt"), !.literal = t = Boundary,
                               !.native = Append(@, t)]

Taken(l) ==
  LET from == [native |-> <<>>, named |-> FALSE, wants |-> "none", literal |-> FALSE,
               refused |-> FALSE]
      S[i \in 0 .. Len(l)] == IF i = 0 THEN from ELSE Take(S[i - 1], l[i])
  IN  S[Len(l)]

\* A name becomes the startup prompt, so the caller may have none in a spelling the wrapper
\* knows.
HasStartup(l) == \E i \in 1 .. Len(l) : l[i] = Boundary \/ IsOption(l[i], "startup")

Rename == <<Option("startup"), Word({"rename"})>>
Renamed(l) == IF named' THEN InsertBeforeBoundary(l, Rename) ELSE l

Refuse == stage' = "refused" /\ UNCHANGED <<named, native, data>>

InteractivePlan ==
  /\ stage = "given" /\ call.mode = "interactive"
  /\ LET taken == Taken(call.args) IN
     \/ /\ IsSubcommand(call.args)
        /\ stage' = "plain" /\ native' = call.args /\ UNCHANGED <<named, data>>
     \/ /\ ~IsSubcommand(call.args) /\ (taken.refused \/ taken.wants # "none") /\ Refuse
     \/ /\ ~IsSubcommand(call.args) /\ ~taken.refused /\ taken.wants = "none"
        /\ \/ /\ IsSubcommand(taken.native)
              /\ stage' = "plain" /\ native' = taken.native /\ UNCHANGED <<named, data>>
           \/ /\ ~IsSubcommand(taken.native)
              /\ ValidManaged(taken.native) /\ Integrated(taken.native)
              /\ ~(taken.named /\ HasStartup(taken.native))
              /\ stage' = "planned" /\ named' = taken.named
              /\ native' = Granted(Renamed(taken.native)) /\ UNCHANGED data
           \/ /\ ~IsSubcommand(taken.native)
              /\ \/ ~ValidManaged(taken.native) \/ ~Integrated(taken.native)
                 \/ taken.named /\ HasStartup(taken.native)
              /\ Refuse
  /\ UNCHANGED <<call, file>>

(***************************************************************************)
(* readInteractiveMCPConfig and stripMCPComments: a file's comments turn   *)
(* into spaces, its line breaks and strings stay.                          *)
(***************************************************************************)
\* Looks for the end from the opening's own star.
CommentEndAtStar(s, i) ==
  LET ends == IF s[i + 1] = "*"
              THEN {k + 2 : k \in {n \in i + 1 .. Len(s) - 1 : s[n] = "*" /\ s[n + 1] = "/"}}
              ELSE {k \in i + 2 .. Len(s) : s[k] = "\n"}
  IN  CHOOSE k \in ends \cup {Len(s) + 1} : \A n \in ends : k <= n

\* Where the comment that starts at i ends: the position after it.
CommentEnd(s, i) ==
  LET ends == IF s[i + 1] = "*"
              THEN {k + 2 : k \in {n \in i + 2 .. Len(s) - 1 : s[n] = "*" /\ s[n + 1] = "/"}}
              ELSE {k \in i + 2 .. Len(s) : s[k] = "\n"}
  IN  CHOOSE k \in ends \cup {Len(s) + 1} : \A n \in ends : k <= n

StartsComment(s, i) == s[i] = "/" /\ i < Len(s) /\ s[i + 1] \in {"/", "*"}

\* The positions inside comments from i on, where i is in code, a string or an escape; C
\* has them from later positions on.
CommentedFrom(s, C, i, q) ==
  CASE i > Len(s) -> {}
    [] i <= Len(s) /\ q = "escape" -> C[<<i + 1, "string">>]
    [] i <= Len(s) /\ q = "string" ->
         C[<<i + 1, IF s[i] = "\\" THEN "escape" ELSE IF s[i] = "\"" THEN "code" ELSE "string">>]
    [] i <= Len(s) /\ q = "code" ->
         IF s[i] = "\"" THEN C[<<i + 1, "string">>]
         ELSE IF StartsComment(s, i)
              THEN (i .. CommentEnd(s, i) - 1) \cup C[<<CommentEnd(s, i), "code">>]
         ELSE C[<<i + 1, "code">>]

Commented(s) ==
  LET C[p \in (1 .. Len(s) + 1) \X {"code", "string", "escape"}] == CommentedFrom(s, C, p[1], p[2])
  IN  C[<<1, "code">>]

LineBreaks == {"\n", "\r"}

Stripped(s) ==
  [i \in DOMAIN s |-> IF i \in Commented(s) /\ s[i] \notin LineBreaks THEN " " ELSE s[i]]

(***************************************************************************)
(* composeInteractiveMCP: one config, the caller's with the managed server *)
(* added in its place, or the managed server's alone in front.             *)
(***************************************************************************)
Configs(l) == {i \in 1 .. End(l) - 1 : IsOption(l[i], "config")}

\* Where the value of the config at i stands.
ValueAt(l, i) == IF l[i].kind = "attached" THEN i ELSE i + 1

HasValue(l, i) == ValueAt(l, i) < End(l)

\* An empty value is an empty config; other values are a server map, which must leave the
\* managed name free. Another option is no value.
ValidConfig(l, i) ==
  LET t == l[ValueAt(l, i)] IN
  /\ IsWord(t) \/ ValueAt(l, i) = i
  /\ t.value = {} \/ "caller" \in t.value
  /\ "reserved" \notin t.value

WithManaged(l, i) == [l EXCEPT ![ValueAt(l, i)].value = @ \cup {"managed"}]

Prefixed(l) == <<Option("config"), Word({"managed"})>> \o l

Composed(l) == IF Configs(l) = {} THEN Prefixed(l)
               ELSE LET i == CHOOSE n \in Configs(l) : TRUE IN WithManaged(l, i)

Composable(l) == /\ Cardinality(Configs(l)) <= 1
                 /\ \A i \in Configs(l) : HasValue(l, i) /\ ValidConfig(l, i)

ReadsFile(l) == /\ Cardinality(Configs(l)) = 1
                /\ \E i \in Configs(l) : HasValue(l, i) /\ "file" \in l[ValueAt(l, i)].value

WithInput(l) == InsertBeforeBoundary(l, <<Option("input"), Word({"launch"})>>)

\* RunInteractive and prepareInteractiveLaunch; a file's text may be no config.
Launch ==
  /\ stage = "planned"
  /\ data' = IF ReadsFile(native) THEN Stripped(file) ELSE data
  /\ \/ /\ Integrated(native) /\ Composable(native)
        /\ stage' = "exec" /\ native' = WithInput(Composed(native))
     \/ /\ ~Integrated(native) \/ ~Composable(native) \/ ReadsFile(native)
        /\ stage' = "refused" /\ UNCHANGED native
  /\ UNCHANGED <<call, named, file>>

(***************************************************************************)
(* launchArguments of a lane, and the private config Open adds. The shared *)
(* host refuses what conflicts with the session's own fields, safe mode    *)
(* included, and what the rules do not name (external).                    *)
(***************************************************************************)
Conflicts == {"name", "prompt", "startup", "config", "input", "safe"}
Unnamed == {"group", "promptInteractive"}
HostAccepts(l) ==
  \A i \in 1 .. Len(l) : l[i] # Boundary /\ (IsWord(l[i]) \/ l[i].key \notin Conflicts \cup Unnamed)

\* Bare mode loads no extension, so it cannot select the managed one.
BareExtension(l) ==
  /\ "bare" \in call.environment \/ \E i \in 1 .. End(l) - 1 : l[i] \in {Option("bare"), Attached("bare", {"true"})}
  /\ "server" \in Collected(l, "extension")

OpenLane ==
  /\ stage = "given" /\ call.mode = "lane"
  /\ LET l == call.args
         accepted == HostAccepts(l) /\ ValidManaged(l) /\ ~BareExtension(l) IN
     \/ /\ accepted /\ stage' = "exec" /\ UNCHANGED <<named, data>>
        /\ native' = l \o Grant \o <<Option("config"), Word({"managed"})>>
     \/ /\ ~accepted /\ Refuse
  /\ UNCHANGED <<call, file>>

Init ==
  /\ stage = "given" /\ call \in Calls
  /\ named = FALSE /\ native = <<>> /\ data = <<>>
  /\ file \in IF ReadsFile(call.args) THEN Files ELSE {<<>>}

Next == InteractivePlan \/ Launch \/ OpenLane

Spec == Init /\ [][Next]_vars

(***************************************************************************)
(* External: native's parser. Arrays take every word up to the next        *)
(* option, also after an attached value; a scalar takes one; what follows  *)
(* the boundary is positional.                                             *)
(***************************************************************************)
Read(s, t) ==
  CASE s.literal -> [s EXCEPT !.positional = Append(@, t)]
    [] ~s.literal /\ t = Boundary -> [s EXCEPT !.literal = TRUE, !.open = "none"]
    [] ~s.literal /\ IsWord(t) /\ s.open = "none" -> [s EXCEPT !.positional = Append(@, t)]
    [] ~s.literal /\ IsWord(t) /\ s.open # "none" ->
         [s EXCEPT !.values[s.open] = @ \cup t.value,
                   !.open = IF s.open \in Arrays THEN @ ELSE "none"]
    [] OTHER ->
         [s EXCEPT !.values[t.key] = @ \cup t.value, !.count[t.key] = @ + 1,
                   !.open = IF t.key \in Arrays \/ (t.key \in Scalars /\ t.kind = "option")
                            THEN t.key ELSE "none"]

Parsed(l) ==
  LET from == [open |-> "none", literal |-> FALSE, positional |-> <<>>,
               values |-> [k \in Keys |-> {}], count |-> [k \in Keys |-> 0]]
      S[i \in 0 .. Len(l)] == IF i = 0 THEN from ELSE Read(S[i - 1], l[i])
  IN  S[Len(l)]

\* Native looks for --bare in the whole command line before it parses.
NativeBare == "bare" \in call.environment \/ BareArgument(native)

(***************************************************************************)
(* Properties                                                              *)
(***************************************************************************)
\* Native parses a managed launch so that the one Sessionbus tool is allowed, not excluded
\* and within the caller's bound on servers, from exactly one config, and in a mode that
\* loads it: not bare, or bare in a lane that selects no managed extension, and never safe
\* in a lane. The exception is an interactive caller's own --safe-mode, with which native
\* loads no server and which rejectIntegratedModes lets through.
ToolSurvives ==
  stage = "exec" =>
    LET p == Parsed(native) IN
    /\ "tool" \in p.values.allow /\ "tool" \notin p.values.exclude
    /\ p.count.servers > 0 => "server" \in p.values.servers
    /\ p.count.config = 1 /\ "managed" \in p.values.config
    /\ NativeBare => call.mode = "lane" /\ "server" \notin p.values.extension
    /\ p.count.safe = 0 \/ call.mode = "interactive"

\* The caller kept its own options apart from native's: each has a word for its value, and
\* no word that follows could be taken by a native option before it.
Apart(l) ==
  \A i \in 1 .. End(l) - 1 :
    TakesOwn(l[i]) =>
      LET next == IF l[i].kind = "option" THEN i + 2 ELSE i + 1 IN
      /\ l[i].kind = "option" => i < Len(l) /\ IsWord(l[i + 1])
      /\ \/ next > Len(l) \/ ~IsWord(l[next])
         \/ \A j \in 1 .. i - 1 : IsWord(l[j]) \/ TakesOwn(l[j])

OwnKeys == {"group", "name"}

\* What the caller's list means to native: as it stands if the wrapper's own options are
\* apart (or are none), else without them, a word behind one then going to the option before.
Meant ==
  Parsed(IF call.mode = "lane" \/ Apart(call.args) THEN call.args ELSE Taken(call.args).native)

\* A managed launch watches exactly its own input file, under a renderer that reads it, and
\* what the caller passed keeps its meaning to native: the same positionals, the same values
\* of every native option, its config in place, none of the wrapper's own options. Only the
\* tool, the server, the input file and a rename at startup are added. The rename is the only
\* startup prompt, except beside a --promptInteractive of the caller's, which HasStartup does
\* not know: then native gets both.
CallerKept ==
  stage = "exec" =>
    LET p == Parsed(native)
        q == Meant IN
    /\ p.positional = q.positional
    /\ \A k \in Keys \ (OwnKeys \cup {"allow", "config", "input", "startup"}) :
         p.values[k] = q.values[k] /\ p.count[k] = q.count[k]
    /\ \A k \in OwnKeys : p.count[k] = 0
    /\ p.values.allow = q.values.allow \cup {"tool"}
    /\ p.values.config = q.values.config \cup {"managed"}
    /\ p.values.input = (IF call.mode = "lane" THEN {} ELSE {"launch"})
    /\ call.mode = "interactive" => "opentui" \notin call.environment
    /\ p.values.startup = (IF named THEN {"rename"} ELSE q.values.startup)
    /\ named => p.count.startup + p.count.promptInteractive = 1 + q.count.promptInteractive

\* Comments by the lexical grammar, one character at a time: the position of a comment's
\* opening is blanked when its second character is read.
Lex(m, c) ==
  CASE m.q = "escape" -> [q |-> "string", out |-> Append(m.out, c)]
    [] m.q = "string" ->
         [q |-> IF c = "\\" THEN "escape" ELSE IF c = "\"" THEN "code" ELSE "string",
          out |-> Append(m.out, c)]
    [] m.q \in {"block", "star"} ->
         [q |-> IF m.q = "star" /\ c = "/" THEN "code" ELSE IF c = "*" THEN "star" ELSE "block",
          out |-> Append(m.out, IF c \in LineBreaks THEN c ELSE " ")]
    [] m.q = "line" -> [q |-> IF c = "\n" THEN "code" ELSE "line",
                        out |-> Append(m.out, IF c \in LineBreaks THEN c ELSE " ")]
    [] m.q = "slash" /\ c \in {"/", "*"} ->
         [q |-> IF c = "/" THEN "line" ELSE "block",
          out |-> Append([m.out EXCEPT ![Len(m.out)] = " "], " ")]
    [] OTHER -> [q |-> IF c = "\"" THEN "string" ELSE IF c = "/" THEN "slash" ELSE "code",
                 out |-> Append(m.out, c)]

Lexed(s) ==
  LET S[i \in 0 .. Len(s)] == IF i = 0 THEN [q |-> "code", out |-> <<>>] ELSE Lex(S[i - 1], s[i])
  IN  S[Len(s)].out

\* What is read of a caller's config file is the file with exactly its comments blank:
\* strings that look like comments, comments that hold quotes, an opening that looks like a
\* close, an unclosed comment.
OnlyCommentsStripped == data # <<>> => data = Lexed(file)

=============================================================================
