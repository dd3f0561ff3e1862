------------------------------ MODULE ShParse ------------------------------
(***************************************************************************)
(* The shell's command parser: gettoken, peek, the recursive descent of    *)
(* parseline/parsepipe/parseexec/parseblock/parseredirs and nulterminate,  *)
(* over lines of single characters (src/sh.c).  The C functions advance    *)
(* *ps; the operators return the new position s in a record, and ok is     *)
(* FALSE once the code has called panic(), which ends the process.         *)
(***************************************************************************)
EXTENDS Naturals, FiniteSets, Sequences, SequencesExt, FiniteSetsExt

CONSTANTS
  Chars,      \* the characters a line is made of
  MaxLine,    \* bound on the length of a line (buf[100] in main)
  MAXARGS     \* size of execcmd.argv (10 in sh.c)

ParseAssumption == MaxLine \in Nat /\ MAXARGS \in Nat \ {0}

VARIABLE line   \* the line typed so far

NUL == "0"

whitespace == {" ", "\t", "\n"}

symbols == {"<", "|", ">", "&", ";", "(", ")"}

\* *s, with the NUL that ends the buffer
At(buf, s) == IF s \in DOMAIN buf THEN buf[s] ELSE NUL

WordChar(c) == c \notin whitespace \cup symbols \cup {NUL}

\* The first position from s on that is no longer in the class.
Skip(buf, s, In(_)) == Min({k \in s .. Len(buf) + 1 : ~In(At(buf, k))})

SkipSpace(buf, s) == Skip(buf, s, LAMBDA c : c \in whitespace)

\* The kind and the end of the token that begins with the character c at q.
Token(buf, q, c) ==
  CASE c = NUL                          -> [ret |-> NUL, eq |-> q]
    [] c = ">" /\ At(buf, q + 1) = ">"  -> [ret |-> "+", eq |-> q + 2]
    [] WordChar(c)                      -> [ret |-> "a", eq |-> Skip(buf, q, WordChar)]
    [] OTHER                            -> [ret |-> c, eq |-> q + 1]

Ended(buf, q, tok) == [ret |-> tok.ret, q |-> q, eq |-> tok.eq, s |-> SkipSpace(buf, tok.eq)]

TokenAt(buf, q) == Ended(buf, q, Token(buf, q, At(buf, q)))

gettoken(buf, s) == TokenAt(buf, SkipSpace(buf, s))

peek(buf, s, toks) == At(buf, SkipSpace(buf, s)) \in toks

\* Constructors; a word is its start and end in the buffer.
Word(tok) == [q |-> tok.q, eq |-> tok.eq]
execcmd(argv) == [type |-> "EXEC", argv |-> argv]
redircmd(cmd, r) == [type |-> "REDIR", cmd |-> cmd, file |-> r.file, mode |-> r.mode, fd |-> r.fd]

pipecmd(l, r) == [type |-> "PIPE", left |-> l, right |-> r]

listcmd(l, r) == [type |-> "LIST", left |-> l, right |-> r]
backcmd(cmd) == [type |-> "BACK", cmd |-> cmd]

Failed == [ok |-> FALSE]

\* while(peek("<>")): the redirections met, to be wrapped around the command;
\* '+' (">>") opens the file as '>' does.
RECURSIVE parseredirs(_, _, _)
RedirTo(buf, op, f, rs) ==
  IF f.ret # "a" THEN Failed
  ELSE parseredirs(buf, f.s, Append(rs, [file |-> Word(f),
                                         mode |-> IF op.ret = "<" THEN "r" ELSE "wc",
                                         fd   |-> IF op.ret = "<" THEN 0 ELSE 1]))

parseredirs(buf, s, rs) ==
  IF peek(buf, s, {"<", ">"})
  THEN RedirTo(buf, gettoken(buf, s), gettoken(buf, gettoken(buf, s).s), rs)
  ELSE [ok |-> TRUE, s |-> SkipSpace(buf, s), rs |-> rs]

(* Mutant: a redirection replaces the one parsed before it.                *)
WrappedLast(cmd, rs) == IF rs = <<>> THEN cmd ELSE redircmd(cmd, Last(rs))

\* The last redirection parsed is the outermost node.
Wrapped(cmd, rs) == FoldLeft(redircmd, cmd, rs)

(* Mutant: the bound on argc is tested one argument too late.              *)
TooManyLate(argv) == Len(argv) > MAXARGS

\* argc >= MAXARGS: one slot stays for the 0 that ends argv
TooMany(argv) == Len(argv) >= MAXARGS

\* The command with the redirections that parseredirs() found.
Redirected(cmd, red) ==
  IF red.ok THEN [ok |-> TRUE, s |-> red.s, cmd |-> Wrapped(cmd, red.rs)] ELSE Failed

\* The argument loop of parseexec: argv, and the redirections so far in red.
RECURSIVE ParseArgs(_, _, _)
Argument(buf, tok, argv, rs) ==
  CASE tok.ret = NUL -> Redirected(execcmd(argv), [ok |-> TRUE, s |-> tok.s, rs |-> rs])
    [] tok.ret # "a" \/ TooMany(Append(argv, Word(tok))) -> Failed
    [] OTHER -> ParseArgs(buf, Append(argv, Word(tok)), parseredirs(buf, tok.s, rs))

ParseArgs(buf, argv, red) ==
  IF ~red.ok \/ peek(buf, red.s, {"|", ")", "&", ";"}) THEN Redirected(execcmd(argv), red)
  ELSE Argument(buf, gettoken(buf, red.s), argv, red.rs)

\* while(peek("&")) cmd = backcmd(cmd)
RECURSIVE ParseBack(_, _)
ParseBack(buf, r) ==
  IF r.ok /\ peek(buf, r.s, {"&"})
  THEN ParseBack(buf, [r EXCEPT !.s = gettoken(buf, r.s).s, !.cmd = backcmd(r.cmd)])
  ELSE r

Closed(buf, s) == peek(buf, s, {")"})

\* The command l to the left of an operator and what was parsed after it.
Joined(node(_, _), l, r) == IF r.ok THEN [r EXCEPT !.cmd = node(l.cmd, r.cmd)] ELSE Failed

RECURSIVE parseline(_, _), parsepipe(_, _)

\* The rest of parseline, parsepipe and parseblock after their first call.
ListRest(buf, l) ==
  IF l.ok /\ peek(buf, l.s, {";"})
  THEN Joined(listcmd, l, parseline(buf, gettoken(buf, l.s).s)) ELSE l

PipeRest(buf, l) ==
  IF l.ok /\ peek(buf, l.s, {"|"})
  THEN Joined(pipecmd, l, parsepipe(buf, gettoken(buf, l.s).s)) ELSE l

BlockRest(buf, l) ==
  IF l.ok /\ Closed(buf, l.s)
  THEN Redirected(l.cmd, parseredirs(buf, gettoken(buf, l.s).s, <<>>)) ELSE Failed

parseblock(buf, s) == BlockRest(buf, parseline(buf, gettoken(buf, s).s))

parseexec(buf, s) ==
  IF peek(buf, s, {"("}) THEN parseblock(buf, s)
  ELSE ParseArgs(buf, <<>>, parseredirs(buf, s, <<>>))

parsepipe(buf, s) == PipeRest(buf, parseexec(buf, s))

parseline(buf, s) == ListRest(buf, ParseBack(buf, parsepipe(buf, s)))

\* panic("syntax") when something is left over
AtEnd(buf, r) == IF r.ok /\ SkipSpace(buf, r.s) = Len(buf) + 1 THEN r ELSE Failed

parsecmd(buf) == AtEnd(buf, parseline(buf, 1))

(* Mutant: the command under a redirection is not visited.                 *)
RECURSIVE EndsShallow(_)
EndsShallow(cmd) ==
  CASE cmd.type = "EXEC"  -> {cmd.argv[i].eq : i \in DOMAIN cmd.argv}
    [] cmd.type = "REDIR" -> {cmd.file.eq}
    [] cmd.type = "BACK"  -> EndsShallow(cmd.cmd)
    [] OTHER              -> EndsShallow(cmd.left) \cup EndsShallow(cmd.right)

\* The positions that nulterminate() overwrites with NUL.
RECURSIVE Ends(_)
Ends(cmd) ==
  CASE cmd.type = "EXEC"  -> {cmd.argv[i].eq : i \in DOMAIN cmd.argv}
    [] cmd.type = "REDIR" -> Ends(cmd.cmd) \cup {cmd.file.eq}
    [] cmd.type = "BACK"  -> Ends(cmd.cmd)
    [] OTHER              -> Ends(cmd.left) \cup Ends(cmd.right)

nulterminate(buf, cmd) == [i \in DOMAIN buf |-> IF i \in Ends(cmd) THEN NUL ELSE buf[i]]

\* The string exec() or open() reads at a pointer into the buffer.
StringAt(buf, q) == SubSeq(buf, q, Skip(buf, q, LAMBDA c : c # NUL) - 1)
-----------------------------------------------------------------------------
\* Lines grow by one character: every line up to MaxLine is a state.
Init == line = <<>>

Type(c) == Len(line) < MaxLine /\ line' = Append(line, c)

Next == \E c \in Chars : Type(c)

Spec == Init /\ [][Next]_line
-----------------------------------------------------------------------------
\* The grammar the parser is meant for, as a reference: which sequences of
\* tokens are a line, with every way to split them tried.
RECURSIVE TokensFrom(_, _)
Listed(buf, tok) == IF tok.ret = NUL THEN <<>> ELSE <<tok>> \o TokensFrom(buf, tok.s)

TokensFrom(buf, s) == Listed(buf, gettoken(buf, s))

Redir == {"<", ">", "+"}

\* Words and redirections, every redirection followed by its file.
IsSimple(ts) ==
  /\ \A i \in DOMAIN ts : ts[i] \in Redir \cup {"a"}
  /\ \A i \in DOMAIN ts : ts[i] \in Redir => i < Len(ts) /\ ts[i + 1] = "a"

IsArg(ts, i) == ts[i] = "a" /\ (i = 1 \/ ts[i - 1] \notin Redir)

Args(ts) == {i \in DOMAIN ts : IsArg(ts, i)}

RECURSIVE IsLine(_), IsPipe(_)
IsUnit(ts) ==
  \/ IsSimple(ts) /\ Cardinality(Args(ts)) < MAXARGS
  \/ \E j \in DOMAIN ts :
       /\ ts[1] = "(" /\ ts[j] = ")" /\ IsLine(SubSeq(ts, 2, j - 1))
       /\ LET rest == SubSeq(ts, j + 1, Len(ts)) IN IsSimple(rest) /\ Args(rest) = {}

IsPipe(ts) ==
  \/ IsUnit(ts)
  \/ \E j \in DOMAIN ts :
       ts[j] = "|" /\ IsUnit(SubSeq(ts, 1, j - 1)) /\ IsPipe(SubSeq(ts, j + 1, Len(ts)))

IsLine(ts) ==
  \E i \in 0 .. Len(ts) : \E j \in i .. Len(ts) :
     /\ IsPipe(SubSeq(ts, 1, i))
     /\ \A k \in i + 1 .. j : ts[k] = "&"
     /\ \/ j = Len(ts)
        \/ ts[j + 1] = ";" /\ IsLine(SubSeq(ts, j + 2, Len(ts)))

Kinds(toks) == [i \in DOMAIN toks |-> toks[i].ret]

(* The descent takes no wrong turn: parsecmd() accepts exactly the lines   *)
(* of the grammar, with fewer than MAXARGS arguments to each command, and  *)
(* calls panic() on every other one.                                       *)
AcceptsGrammar == parsecmd(line).ok <=> IsLine(Kinds(TokensFrom(line, 1)))

\* The arguments and operators of a tree, from left to right.
Op(c) == [op |-> c]

RECURSIVE Frontier(_)
Frontier(cmd) ==
  CASE cmd.type = "EXEC"  -> cmd.argv
    [] cmd.type = "REDIR" -> Frontier(cmd.cmd)
    [] cmd.type = "BACK"  -> Append(Frontier(cmd.cmd), Op("&"))
    [] cmd.type = "PIPE"  -> Append(Frontier(cmd.left), Op("|")) \o Frontier(cmd.right)
    [] cmd.type = "LIST"  -> Append(Frontier(cmd.left), Op(";")) \o Frontier(cmd.right)

RECURSIVE Files(_)
Files(cmd) ==
  CASE cmd.type = "EXEC"  -> {}
    [] cmd.type = "REDIR" -> Files(cmd.cmd) \cup {cmd.file}
    [] cmd.type = "BACK"  -> Files(cmd.cmd)
    [] OTHER              -> Files(cmd.left) \cup Files(cmd.right)

Represents(cmd, toks, kinds) ==
  LET Kept(i) == kinds[i] \in {"|", ";", "&"} \/ IsArg(kinds, i)
      Leaf(i) == IF kinds[i] = "a" THEN Word(toks[i]) ELSE Op(kinds[i])
  IN  /\ Frontier(cmd) = FoldLeft(LAMBDA f, i : IF Kept(i) THEN Append(f, Leaf(i)) ELSE f,
                                  <<>>, [i \in DOMAIN toks |-> i])
      /\ Files(cmd) = {Word(toks[i]) : i \in {k \in DOMAIN toks :
                                                kinds[k] = "a" /\ ~IsArg(kinds, k)}}

RepresentsLine(r, toks) == r.ok => Represents(r.cmd, toks, Kinds(toks))

(* An accepted line is represented whole and in order: the arguments and   *)
(* the operators of the tree, read from left to right, are those of the    *)
(* line, and every other word is the file of a redirection.                *)
TreeIsTheLine == RepresentsLine(parsecmd(line), TokensFrom(line, 1))

\* The arguments and the file names of a tree.
WordsOf(cmd) == (Range(Frontier(cmd)) \ {Op("|"), Op(";"), Op("&")}) \cup Files(cmd)

ReadBack(buf, words) == \A w \in words : StringAt(buf, w.q) = SubSeq(line, w.q, w.eq - 1)

TerminatesWords(r) == r.ok => ReadBack(nulterminate(line, r.cmd), WordsOf(r.cmd))

(* Terminating the words in place, after the whole line has been parsed,   *)
(* gives every program its own words: what is read at each argument and    *)
(* file name of the tree is the word of the line, no shorter, no longer.   *)
WordsExact == TerminatesWords(parsecmd(line))
=============================================================================
