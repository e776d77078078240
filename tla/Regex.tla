------------------------------- MODULE Regex -------------------------------
(* The regular expressions of the C library: regcomp, regexec and regsub of   *)
(* regexp.c and regsub.c.  An expression is compiled to a program of linked   *)
(* nodes, matched by backtracking over that program, and the places where it  *)
(* matched are put into a replacement.  A character is a string of length 1,  *)
(* a node takes one cell whatever its operand: a next pointer stays relative, *)
(* as it is in the code, because nodes are moved after they were linked.      *)
EXTENDS Integers, Sequences, SequencesExt, FiniteSetsExt

CONSTANTS NSUBEXP,      \* groups in a program, the whole match counted
          Order,        \* the characters a range can name, in their order
          Expressions,  \* the trees that are written out and compiled
          RawTexts,     \* further texts, well formed or not
          Subjects,     \* the strings that are matched
          Templates     \* the replacements given to regsub

VARIABLES pattern,  \* [tree, text]: what was compiled; tree = <<>> for a raw text
          prog,     \* the compiled program, or NoProg
          exec      \* what the last regexec and regsub returned

regexVars == <<pattern, prog, exec>>

NUL == "NUL"
NoProg == [ok |-> FALSE]
CharAt(s, i) == IF i < Len(s) THEN s[i + 1] ELSE NUL

----------------------------------------------------------------------------
(* regcomp: one pass.  The first pass of the code takes the same branches and *)
(* only counts; c is the state the two share: the place in the text, the      *)
(* groups opened, the code, the node and the flags just returned.             *)

Multiple == {"*", "+", "?"}
Meta == {"^", "$", ".", "[", "(", ")", "|", "?", "+", "*", "\\"}

Fail(c) == [c EXCEPT !.ok = FALSE]
Skip(c) == [c EXCEPT !.at = @ + 1]

regnode(c, op, no, str) ==
    [c EXCEPT !.code = Append(@, [op |-> op, no |-> no, str |-> str, next |-> 0]),
              !.ret = Len(c.code) + 1]

reginsert(c, op, p) ==
    [c EXCEPT !.code = InsertAt(@, p, [op |-> op, no |-> 0, str |-> <<>>, next |-> 0])]

\* 0 is NULL
regnext(code, p) ==
    CASE code[p].next = 0 -> 0
      [] code[p].next # 0 /\ code[p].op = "BACK" -> p - code[p].next
      [] OTHER -> p + code[p].next

RECURSIVE LastOf(_, _)
LastOf(code, p) == IF regnext(code, p) = 0 THEN p ELSE LastOf(code, regnext(code, p))

regtail(c, p, val) ==
    LET scan == LastOf(c.code, p)
    IN  [c EXCEPT !.code[scan].next = IF c.code[scan].op = "BACK" THEN scan - val ELSE val - scan]

regoptail(c, p, val) == IF c.code[p].op # "BRANCH" THEN c ELSE regtail(c, p + 1, val)

RECURSIVE HookAll(_, _, _)
HookAll(c, br, ender) ==
    IF br = 0 THEN c
    ELSE HookAll(regoptail(c, br, ender), regnext(c.code, br), ender)

\* The characters of a class, from place i to its "]"; ok is FALSE when it has none
\* or a range is upside down.
RangeFrom(d, e) == {Order[k] : k \in {j \in DOMAIN Order :
                    \E x, y \in DOMAIN Order : Order[x] = d /\ Order[y] = e /\ x < j /\ j <= y}}
Backward(d, e) == \E x, y \in DOMAIN Order : Order[x] = d /\ Order[y] = e /\ x > y

RECURSIVE ClassFrom(_, _, _)
ClassFrom(text, i, set) ==
    LET ch == CharAt(text, i)
        end == CharAt(text, i + 1)
    IN  CASE ch \in {NUL, "]"} -> [ok |-> ch = "]", at |-> i + 1, set |-> set]
          [] ch = "-" /\ end \in {NUL, "]"} -> ClassFrom(text, i + 1, set \union {"-"})
          [] ch = "-" /\ end \notin {NUL, "]"} ->
                IF Backward(text[i], end) THEN [ok |-> FALSE, at |-> i, set |-> set]
                ELSE ClassFrom(text, i + 2, set \union RangeFrom(text[i], end))
          [] OTHER -> ClassFrom(text, i + 1, set \union {ch})

Class(text, c) ==
    LET but == CharAt(text, c.at + 1) = "^"
        from == IF but THEN c.at + 2 ELSE c.at + 1
        first == CharAt(text, from)
        class == IF first \in {"]", "-"} THEN ClassFrom(text, from + 1, {first})
                                          ELSE ClassFrom(text, from, {})
    IN  IF ~class.ok THEN Fail(c)
        ELSE [regnode([c EXCEPT !.at = class.at], IF but THEN "ANYBUT" ELSE "ANYOF", 0, class.set)
                EXCEPT !.flags = {"HASWIDTH", "SIMPLE"}]

\* A run of ordinary characters is one node; the last one is left out of it when a
\* multiplier follows.
RECURSIVE RunFrom(_, _)
RunFrom(text, i) == IF CharAt(text, i) \in Meta \union {NUL} THEN 0 ELSE 1 + RunFrom(text, i + 1)

\* Mutant: the last character is not left to its multiplier
Literal_WholeRun(text, c) ==
    LET len == RunFrom(text, c.at)
    IN  [regnode([c EXCEPT !.at = @ + len], "EXACTLY", 0, SubSeq(text, c.at + 1, c.at + len))
            EXCEPT !.flags = IF len = 1 THEN {"HASWIDTH", "SIMPLE"} ELSE {"HASWIDTH"}]

Literal(text, c) ==
    LET run == RunFrom(text, c.at)
        len == IF run > 1 /\ CharAt(text, c.at + run) \in Multiple THEN run - 1 ELSE run
    IN  [regnode([c EXCEPT !.at = @ + len], "EXACTLY", 0, SubSeq(text, c.at + 1, c.at + len))
            EXCEPT !.flags = IF len = 1 THEN {"HASWIDTH", "SIMPLE"} ELSE {"HASWIDTH"}]

RECURSIVE reg(_, _, _)

regatom(text, c) ==
    LET ch == CharAt(text, c.at)
        escaped == CharAt(text, c.at + 1)
        Plain(op, flags) == [regnode(Skip(c), op, 0, <<>>) EXCEPT !.flags = flags]
        inner == reg(text, Skip(c), TRUE)
    IN  CASE ch = "^" -> Plain("BOL", {})
          [] ch = "$" -> Plain("EOL", {})
          [] ch = "." -> Plain("ANY", {"HASWIDTH", "SIMPLE"})
          [] ch = "[" -> Class(text, c)
          [] ch = "(" -> [inner EXCEPT !.flags = @ \intersect {"HASWIDTH", "SPSTART"}]
          [] ch \in {NUL, "|", ")"} \union Multiple -> Fail(c)
          [] ch = "\\" -> IF escaped = NUL THEN Fail(c)
                          ELSE [regnode([c EXCEPT !.at = @ + 2], "EXACTLY", 0, <<escaped>>)
                                  EXCEPT !.flags = {"HASWIDTH", "SIMPLE"}]
          [] OTHER -> Literal(text, c)

(* The multipliers: x* is STAR x when x is one character wide, else (x&|)    *)
(* with & the branch itself; x+ is PLUS x or x(&|); x? is (x|).              *)
StarLoop(c, ret) ==
    LET a == reginsert(c, "BRANCH", ret)
        back == regnode(a, "BACK", 0, <<>>)
        looped == regoptail(regoptail(back, ret, back.ret), ret, ret)
        or == regnode(looped, "BRANCH", 0, <<>>)
        null == regnode(regtail(or, ret, or.ret), "NOTHING", 0, <<>>)
    IN  regtail(null, ret, null.ret)

PlusLoop(c, ret) ==
    LET either == regnode(c, "BRANCH", 0, <<>>)
        back == regnode(regtail(either, ret, either.ret), "BACK", 0, <<>>)
        or == regnode(regtail(back, back.ret, ret), "BRANCH", 0, <<>>)
        null == regnode(regtail(or, either.ret, or.ret), "NOTHING", 0, <<>>)
    IN  regtail(null, ret, null.ret)

Optional(c, ret) ==
    LET a == reginsert(c, "BRANCH", ret)
        or == regnode(a, "BRANCH", 0, <<>>)
        null == regnode(regtail(or, ret, or.ret), "NOTHING", 0, <<>>)
    IN  regoptail(regtail(null, ret, null.ret), ret, null.ret)

Made(op, atom) ==
    LET simple == "SIMPLE" \in atom.flags
    IN  CASE op = "*" /\ simple -> reginsert(atom, "STAR", atom.ret)
          [] op = "*" /\ ~simple -> StarLoop(atom, atom.ret)
          [] op = "+" /\ simple -> reginsert(atom, "PLUS", atom.ret)
          [] op = "+" /\ ~simple -> PlusLoop(atom, atom.ret)
          [] op = "?" -> Optional(atom, atom.ret)

\* An atom with the multiplier behind it, if there is one
Multiplied(text, atom) ==
    LET op == CharAt(text, atom.at)
    IN  IF ~atom.ok \/ op \notin Multiple THEN atom
        ELSE IF \/ "HASWIDTH" \notin atom.flags /\ op # "?"
                \/ CharAt(text, atom.at + 1) \in Multiple THEN Fail(atom)
        ELSE [Made(op, atom) EXCEPT !.at = atom.at + 1, !.ret = atom.ret,
                                    !.flags = IF op = "+" THEN {"HASWIDTH"} ELSE {"SPSTART"}]

regpiece(text, c) == Multiplied(text, regatom(text, c))

\* The pieces of a branch, each linked to the one before it
RECURSIVE PiecesFrom(_, _, _, _)
PiecesThen(text, piece, chain, flags) ==
    IF ~piece.ok THEN piece
    ELSE PiecesFrom(text, IF chain = 0 THEN piece ELSE regtail(piece, chain, piece.ret), piece.ret,
                    flags \union (piece.flags \intersect
                                    IF chain = 0 THEN {"HASWIDTH", "SPSTART"} ELSE {"HASWIDTH"}))

PiecesFrom(text, c, chain, flags) ==
    IF CharAt(text, c.at) \in {NUL, "|", ")"}
    THEN [IF chain = 0 THEN regnode(c, "NOTHING", 0, <<>>) ELSE c EXCEPT !.flags = flags]
    ELSE PiecesThen(text, regpiece(text, c), chain, flags)

regbranch(text, c) ==
    LET branch == regnode(c, "BRANCH", 0, <<>>)
    IN  [PiecesFrom(text, branch, 0, {}) EXCEPT !.ret = branch.ret]

\* The branches after the first, each linked to the one before it
RECURSIVE BranchesFrom(_, _, _, _)
BranchesThen(text, branch, ret, flags) ==
    IF ~branch.ok THEN branch
    ELSE BranchesFrom(text, regtail(branch, ret, branch.ret), ret,
                      (flags \intersect branch.flags \intersect {"HASWIDTH"})
                         \union ((flags \union branch.flags) \intersect {"SPSTART"}))

BranchesFrom(text, c, ret, flags) ==
    IF CharAt(text, c.at) # "|" THEN [c EXCEPT !.flags = flags]
    ELSE BranchesThen(text, regbranch(text, Skip(c)), ret, flags)

\* The branches of a group or of the whole text, the first one just compiled
Alternation(text, first, ret, paren) ==
    IF ~first.ok THEN first
    ELSE BranchesFrom(text, IF paren THEN regtail(first, ret, first.ret) ELSE first, ret, first.flags)

\* The node that ends all branches is hooked to each of them
Hooked(c, ret) == HookAll(regtail(c, ret, c.ret), ret, c.ret)
Ended(text, all, ret, paren, no) ==
    IF ~all.ok THEN all
    ELSE IF CharAt(text, all.at) # (IF paren THEN ")" ELSE NUL) THEN Fail(all)
    ELSE [Hooked(regnode(all, IF paren THEN "CLOSE" ELSE "END", no, <<>>), ret)
            EXCEPT !.ret = ret, !.at = IF paren THEN @ + 1 ELSE @]

reg(text, c, paren) ==
    LET ret == Len(c.code) + 1
        open == IF paren THEN [regnode(c, "OPEN", c.npar, <<>>) EXCEPT !.npar = @ + 1] ELSE c
    IN  IF paren /\ c.npar >= NSUBEXP THEN Fail(c)
        ELSE Ended(text, Alternation(text, regbranch(text, open), ret, paren), ret, paren, c.npar)

(* The hints regcomp leaves for regexec when there is one alternative at the *)
(* top: the first character, the anchor, and the longest literal that must   *)
(* appear (the last one of that length), sought only when * or ? comes first.*)
RECURSIVE Longest(_, _, _)
Longest(code, p, best) ==
    IF p = 0 THEN best
    ELSE Longest(code, regnext(code, p),
                 IF code[p].op = "EXACTLY" /\ Len(code[p].str) >= Len(best) THEN code[p].str ELSE best)

Compiled(c) ==
    LET single == c.code[regnext(c.code, 1)].op = "END"
        scan == c.code[2]
    IN  IF ~c.ok THEN NoProg
        ELSE [ok |-> TRUE, code |-> c.code,
              start |-> IF single /\ scan.op = "EXACTLY" THEN scan.str[1] ELSE NUL,
              anch |-> single /\ scan.op = "BOL",
              must |-> IF single /\ "SPSTART" \in c.flags THEN Longest(c.code, 2, <<>>) ELSE <<>>]

regcomp(text) ==
    Compiled(reg(text, [ok |-> TRUE, at |-> 0, npar |-> 1, code |-> <<>>, ret |-> 0, flags |-> {}],
                 FALSE))

----------------------------------------------------------------------------
(* regexec: a result has the place where the input pointer stopped and the   *)
(* groups set on the way out; bad records a call of regerror.                *)

Groups == 0 .. NSUBEXP - 1
NoSpan == [g \in Groups |-> -1]
Won(i) == [ok |-> TRUE, bad |-> FALSE, at |-> i, startp |-> NoSpan, endp |-> NoSpan]
Lost == [ok |-> FALSE, bad |-> FALSE]
Corrupted == [ok |-> FALSE, bad |-> TRUE]

Begins(lit, s, i) == Len(lit) <= Len(s) - i /\ SubSeq(s, i + 1, i + Len(lit)) = lit

\* Does a node that takes one character take the one at i?
Takes(node, s, i) ==
    /\ i < Len(s)
    /\ \/ node.op = "ANY"
       \/ node.op = "EXACTLY" /\ s[i + 1] = node.str[1]
       \/ node.op = "ANYOF" /\ s[i + 1] \in node.str
       \/ node.op = "ANYBUT" /\ s[i + 1] \notin node.str

RECURSIVE regrepeat(_, _, _)
regrepeat(node, s, i) == IF Takes(node, s, i) THEN 1 + regrepeat(node, s, i + 1) ELSE 0

\* The nodes regmatch passes in its loop: whether they match at i, and how far they go
Passes(node, s, i) ==
    CASE node.op = "BOL" -> i = 0
      [] node.op = "EOL" -> i = Len(s)
      [] node.op = "EXACTLY" -> Begins(node.str, s, i)
      [] node.op \in {"ANY", "ANYOF", "ANYBUT"} -> Takes(node, s, i)
      [] node.op \in {"NOTHING", "BACK"} -> TRUE
NodeWidth(node) ==
    CASE node.op = "EXACTLY" -> Len(node.str)
      [] node.op \in {"ANY", "ANYOF", "ANYBUT"} -> 1
      [] OTHER -> 0

\* A group is marked on the way out, unless a later turn of the same group was marked
Marked(spans, no, i) == IF spans[no] = -1 THEN [spans EXCEPT ![no] = i] ELSE spans
GroupOpened(m, no, i) == IF m.ok THEN [m EXCEPT !.startp = Marked(@, no, i)] ELSE m
\* Mutant: an earlier turn of the group moves the end a later one set
GroupClosed_EveryTurn(m, no, i) == IF m.ok THEN [m EXCEPT !.endp[no] = i] ELSE m
GroupClosed(m, no, i) == IF m.ok THEN [m EXCEPT !.endp = Marked(@, no, i)] ELSE m

OrElse(m, n) == IF m.ok THEN m ELSE [n EXCEPT !.bad = @ \/ m.bad]

RECURSIVE regmatch(_, _, _, _), Alternatives(_, _, _, _), BackUp(_, _, _, _, _, _)

\* The branches chained from p, in turn
Alternatives(code, s, p, i) ==
    IF p = 0 \/ code[p].op # "BRANCH" THEN Lost
    ELSE LET m == regmatch(code, s, p + 1, i)
         IN  IF m.ok THEN m ELSE OrElse(m, Alternatives(code, s, regnext(code, p), i))

\* What follows a STAR or PLUS, tried after no characters, then after one fewer
BackUp(code, s, p, i, no, min) ==
    LET next == regnext(code, p)
        ahead == IF code[next].op = "EXACTLY" THEN code[next].str[1] ELSE NUL
        m == IF ahead \in {NUL, CharAt(s, i + no)} THEN regmatch(code, s, next, i + no) ELSE Lost
    IN  IF no < min THEN Lost
        ELSE IF m.ok THEN m ELSE OrElse(m, BackUp(code, s, p, i, no - 1, min))

regmatch(code, s, p, i) ==
    LET node == code[p]
        next == regnext(code, p)
    IN  IF p = 0 THEN Corrupted
        ELSE CASE node.op = "END" -> Won(i)
               [] node.op = "OPEN" -> GroupOpened(regmatch(code, s, next, i), node.no, i)
               [] node.op = "CLOSE" -> GroupClosed(regmatch(code, s, next, i), node.no, i)
               [] node.op = "BRANCH" ->
                    IF code[next].op = "BRANCH" THEN Alternatives(code, s, p, i)
                    ELSE regmatch(code, s, p + 1, i)
               [] node.op \in {"STAR", "PLUS"} ->
                    BackUp(code, s, p, i, regrepeat(code[p + 1], s, i), IF node.op = "STAR" THEN 0 ELSE 1)
               [] OTHER -> IF Passes(node, s, i) THEN regmatch(code, s, next, i + NodeWidth(node)) ELSE Lost

regtry(p, s, i) ==
    LET m == regmatch(p.code, s, 1, i)
    IN  IF m.ok THEN [m EXCEPT !.startp[0] = i, !.endp[0] = m.at] ELSE m

\* The places regexec tries, in order, up to the first that matches
RECURSIVE TryFrom(_, _, _)
TryFrom(p, s, i) ==
    IF i > Len(s) THEN Lost
    ELSE LET m == IF p.start \in {NUL, CharAt(s, i)} THEN regtry(p, s, i) ELSE Lost
         IN  IF m.ok THEN m ELSE OrElse(m, TryFrom(p, s, i + 1))

regexec(p, s) ==
    IF p.must # <<>> /\ \A i \in 0 .. Len(s) : ~Begins(p.must, s, i) THEN Lost
    ELSE IF p.anch THEN regtry(p, s, 0)
    ELSE TryFrom(p, s, 0)

----------------------------------------------------------------------------
(* regsub: the replacement with the matched pieces of s in it.               *)

Digit == [d \in {"0", "1", "2"} |-> CHOOSE n \in 0 .. 2 : <<"0", "1", "2">>[n + 1] = d]

RECURSIVE regsub(_, _, _)
regsub(m, s, src) ==
    IF src = <<>> THEN <<>>
    ELSE LET group == src[1] = "\\" /\ Len(src) > 1 /\ src[2] \in DOMAIN Digit
             quoted == src[1] = "\\" /\ Len(src) > 1 /\ src[2] \in {"\\", "&"}
             no == IF group THEN Digit[src[2]] ELSE 0
             piece == CASE src[1] # "&" /\ ~group -> <<IF quoted THEN src[2] ELSE src[1]>>
                        [] OTHER -> IF m.startp[no] = -1 \/ m.endp[no] = -1 THEN <<>>
                                    ELSE SubSeq(s, m.startp[no] + 1, m.endp[no])
         IN  piece \o regsub(m, s, SubSeq(src, IF group \/ quoted THEN 3 ELSE 2, Len(src)))

----------------------------------------------------------------------------
(* A program is compiled, matched against strings, and a replacement made    *)
(* after a match.  exec holds the string, the result m of regexec and what   *)
(* regsub made of it.  A program is used once: regtry clears all it leaves.  *)

NoExec == [done |-> FALSE]
Raw == <<>>

RegexInit == pattern = [tree |-> Raw, text |-> <<>>] /\ prog = NoProg /\ exec = NoExec

Regcomp(tree, text) ==
    /\ pattern' = [tree |-> tree, text |-> text]
    /\ prog' = regcomp(text)
    /\ UNCHANGED exec

Regexec(s) ==
    /\ prog.ok /\ ~exec.done
    /\ exec' = [done |-> TRUE, in |-> s, m |-> regexec(prog, s), dest |-> <<>>]
    /\ UNCHANGED <<pattern, prog>>

Regsub(src) ==
    /\ exec.done /\ exec.m.ok /\ exec.dest = <<>>
    /\ exec' = [exec EXCEPT !.dest = regsub(exec.m, exec.in, src)]
    /\ UNCHANGED <<pattern, prog>>

----------------------------------------------------------------------------
(* What an expression means, on its syntax tree.  An expression is a sequence *)
(* of branches, a branch of pieces, a piece an atom and a multiplier; an atom *)
(* is a group or [text, kind, set].                                           *)

RECURSIVE Written(_)
WrittenAtom(a) == IF a.kind = "group" THEN <<"(">> \o Written(a.body) \o <<")">> ELSE a.text
WrittenBranch(b) == FlattenSeq([k \in DOMAIN b |-> WrittenAtom(b[k].atom) \o b[k].mult])
Written(r) == FlattenSeq([k \in DOMAIN r |-> (IF k = 1 THEN <<>> ELSE <<"|">>) \o WrittenBranch(r[k])])

\* Where a match of each part that starts at i can end, in the order of preference
RECURSIVE Ends(_, _, _)

EndsAtom(a, s, i) ==
    CASE a.kind = "group" -> Ends(a.body, s, i)
      [] a.kind = "bol" -> IF i = 0 THEN <<i>> ELSE <<>>
      [] a.kind = "eol" -> IF i = Len(s) THEN <<i>> ELSE <<>>
      [] a.kind = "in" -> IF CharAt(s, i) \in a.set THEN <<i + 1>> ELSE <<>>
      [] a.kind = "notin" -> IF CharAt(s, i) \notin a.set \union {NUL} THEN <<i + 1>> ELSE <<>>

RECURSIVE EndsMany(_, _, _)
EndsMany(a, s, i) ==
    LET one == EndsAtom(a, s, i)
    IN  FlattenSeq([k \in DOMAIN one |-> EndsMany(a, s, one[k])]) \o <<i>>

EndsPiece(p, s, i) ==
    LET one == EndsAtom(p.atom, s, i)
    IN  CASE p.mult = <<>> -> one
          [] p.mult = <<"?">> -> one \o <<i>>
          [] p.mult = <<"*">> -> EndsMany(p.atom, s, i)
          [] p.mult = <<"+">> -> FlattenSeq([k \in DOMAIN one |-> EndsMany(p.atom, s, one[k])])

RECURSIVE EndsBranch(_, _, _)
EndsBranch(b, s, i) ==
    IF b = <<>> THEN <<i>>
    ELSE LET one == EndsPiece(b[1], s, i)
         IN  FlattenSeq([k \in DOMAIN one |-> EndsBranch(Tail(b), s, one[k])])

Ends(r, s, i) == FlattenSeq([k \in DOMAIN r |-> EndsBranch(r[k], s, i)])

\* No part that is repeated can match nothing
RECURSIVE Legal(_)
CanBeEmpty(a) == \E s \in Subjects : \E i \in 0 .. Len(s) : i \in Range(EndsAtom(a, s, i))
LegalPiece(p) ==
    /\ p.atom.kind = "group" => Legal(p.atom.body)
    /\ p.mult \in {<<"*">>, <<"+">>} => ~CanBeEmpty(p.atom)
Legal(r) == \A k \in DOMAIN r : \A j \in DOMAIN r[k] : LegalPiece(r[k][j])

RECURSIVE GroupsIn(_)
GroupsIn(r) ==
    FoldLeft(LAMBDA n, b : n + FoldLeft(LAMBDA o, p : o + (IF p.atom.kind = "group"
                                        THEN 1 + GroupsIn(p.atom.body) ELSE 0), 0, b), 0, r)

\* The leftmost place that matches, and the end preferred there
Starts(r, s) == {i \in 0 .. Len(s) : Ends(r, s, i) # <<>>}

\* A property of regcomp and regexec together (regexp.c:189 and 675): an expression is
\* refused exactly when a repeated part can match nothing or it has too many groups, and
\* otherwise a string is matched exactly when the expression has a match in it, at the
\* leftmost place, ending where the first alternative and the longest repetitions that
\* let the rest match end.  The shortcuts (first character, anchor, literal that must
\* appear, lookahead) and the relinking of moved nodes may not show.
RegexAgrees ==
    pattern.tree # Raw =>
        /\ ~exec.done => (prog.ok <=> Legal(pattern.tree) /\ GroupsIn(pattern.tree) < NSUBEXP)
        /\ exec.done /\ exec.dest = <<>> =>
             LET starts == Starts(pattern.tree, exec.in)
             IN  /\ exec.m.ok <=> starts # {}
                 /\ exec.m.ok =>
                      /\ exec.m.startp[0] = Min(starts)
                      /\ exec.m.endp[0] = Ends(pattern.tree, exec.in, Min(starts))[1]

\* What regsub takes for granted (regsub.c:70): whatever text was compiled, the matcher
\* never meets a broken link, and after a match each group was either passed by, with
\* neither end set, or lies inside the whole match with its start before its end.
RegexSpans ==
    exec.done =>
        /\ ~exec.m.bad
        /\ exec.m.ok => \A g \in Groups :
             LET start == exec.m.startp[g]
                 end == exec.m.endp[g]
             IN  \/ start = -1 /\ end = -1
                 \/ exec.m.startp[0] <= start /\ start <= end /\ end <= exec.m.endp[0]

RegexNext ==
    \/ pattern.text = <<>> /\ \/ \E tree \in Expressions : Regcomp(tree, Written(tree))
                              \/ \E text \in RawTexts : Regcomp(Raw, text)
    \/ \E s \in Subjects : Regexec(s)
    \/ \E src \in Templates : Regsub(src)

RegexSpec == RegexInit /\ [][RegexNext]_regexVars
=============================================================================
