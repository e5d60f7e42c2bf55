---------------------------- MODULE CommandLine ----------------------------
(***************************************************************************)
(* The way of a command from the client to the argv of the prover: the     *)
(* client joins it with semicolons (prove_client.ml), the server splits it *)
(* (request.c) and either hands the pieces to execvp (server-unix.c) or    *)
(* joins them again into the one command line Windows knows                *)
(* (server-win.c), which the prover splits once more.  why3-cpulimit on    *)
(* Windows (cpulimit-win.c) joins its own arguments in a simpler way.      *)
(***************************************************************************)
EXTENDS Naturals, Sequences, FiniteSets

CONSTANTS
  Cmds,     \* names of executables, sequences of characters
  ArgLists, \* lists of arguments
  Files,    \* names of files for stdin
  Limits,   \* time and memory limits
  CmdSize   \* size of the array cmd in run_request on Windows, 4096 in the code

Quo == "\""
Bs == "\\"
Sp == " "
Semi == ";"
NoFile == <<>>

VARIABLES
  command,  \* what the driver asks for
  pc, line, \* how far it is, and the characters last written
  req,      \* the request the server parsed
  argv,     \* what the program is called with
  stdin     \* the file it reads, or NoFile

vars == <<command, pc, line, req, argv, stdin>>

Join(f, n) == LET g[k \in 0..n] == IF k = 0 THEN <<>> ELSE g[k - 1] \o f[k] IN g[n]
Copies(c, n) == [k \in 1..n |-> c]

Init ==
  /\ command \in [cmd : Cmds, args : ArgLists, time : Limits, mem : Limits, file : Files \cup {NoFile}]
  /\ pc = "asked" /\ line = <<>> /\ req = <<>> /\ argv = <<>> /\ stdin = NoFile

(* The line send_request writes.  The identifier, the limits and the name  *)
(* of the command are one character each.                                  *)
RequestLine(c) ==
  LET items == c.args \o (IF c.file = NoFile THEN <<>> ELSE <<c.file>>)
  IN  <<IF c.file = NoFile THEN "run" ELSE "runstdin", Semi, "id", Semi, c.time, Semi, c.mem,
        Semi>> \o c.cmd \o Join([k \in DOMAIN items |-> <<Semi>> \o items[k]], Len(items))

SendRequest ==
  /\ pc = "asked"
  /\ line' = RequestLine(command) /\ pc' = "sent"
  /\ UNCHANGED <<command, req, argv, stdin>>

CountSemicolons(buf) == Cardinality({k \in DOMAIN buf : buf[k] = Semi})

(* copy_up_to_semicolon: where the field from begin ends.                  *)
CopyUpToSemicolon(buf, begin) ==
  LET stops == {k \in begin..Len(buf) : buf[k] = Semi} \cup {Len(buf) + 1}
  IN  CHOOSE k \in stops : \A j \in stops : k <= j

(* The positions from which parse_request copies its fields: after the     *)
(* end of the text copy_up_to_semicolon returns the start.                 *)
FieldStarts(buf, n) ==
  LET pos[k \in 1..n] ==
        IF k = 1 THEN 1
        ELSE LET i == CopyUpToSemicolon(buf, pos[k - 1])
             IN  IF i > Len(buf) THEN 1 ELSE i + 1
  IN  pos

Field(buf, pos, k) == SubSeq(buf, pos[k], CopyUpToSemicolon(buf, pos[k]) - 1)

(* parse_request, for the lines send_request writes.                       *)
ParseRequest ==
  /\ pc = "sent" /\ CountSemicolons(line) >= 4
  /\ LET numargs == CountSemicolons(line) - 4
         pos == FieldStarts(line, numargs + 5)
         F(k) == Field(line, pos, k)
     IN  req' = [usestdin |-> F(1) = <<"runstdin">>, time |-> F(3)[1], mem |-> F(4)[1], cmd |-> F(5),
                 args |-> [k \in 1..numargs |-> F(k + 5)]]
  /\ pc' = "queued"
  /\ UNCHANGED <<command, line, argv, stdin>>

(* In the case of usestdin the last argument is the file.                  *)
ArgCount(r) == IF r.usestdin THEN Len(r.args) - 1 ELSE Len(r.args)

InputFile(r) == IF r.usestdin THEN r.args[Len(r.args)] ELSE NoFile

(* create_process: execvp takes the arguments as they are.                 *)
CreateProcessUnix ==
  /\ pc = "queued"
  /\ argv' = <<req.cmd>> \o SubSeq(req.args, 1, ArgCount(req))
  /\ stdin' = InputFile(req) /\ pc' = "unix"
  /\ UNCHANGED <<command, line, req>>

-----------------------------------------------------------------------------
(* Windows.                                                                *)

NeedQuote(a) == Len(a) = 0 \/ \E k \in DOMAIN a : a[k] \in {Sp, Quo}

(* How many backslashes end at place k.                                    *)
BackslashesUpTo(a, k) == Cardinality({j \in 1..k : \A n \in j..k : a[n] = Bs})

(* Mutant: backslashes before the closing quote stay single. *)
EscapeNotTheEnd(a, k) ==
  IF a[k] = Quo THEN Copies(Bs, BackslashesUpTo(a, k - 1)) \o <<Bs, Quo>> ELSE <<a[k]>>

(* What run_request writes for the character at place k of an argument     *)
(* that needs quotes.                                                      *)
Escape(a, k) ==
  IF a[k] = Quo THEN Copies(Bs, BackslashesUpTo(a, k - 1)) \o <<Bs, Quo>>
  ELSE IF a[k] = Bs /\ k = Len(a) THEN <<Bs>> \o Copies(Bs, BackslashesUpTo(a, k))
  ELSE <<a[k]>>

QuoteArg(a) ==
  IF NeedQuote(a) THEN <<Quo>> \o Join([k \in DOMAIN a |-> Escape(a, k)], Len(a)) \o <<Quo, Sp>>
  ELSE a \o <<Sp>>

(* The command line of run_request.                                        *)
CommandString(r) ==
  r.cmd \o <<Sp>> \o Join([k \in DOMAIN r.args |-> QuoteArg(r.args[k])], ArgCount(r))

(* The command line of why3-cpulimit: every item between quotes.           *)
CpulimitString(items) ==
  Join([k \in DOMAIN items |->
          <<Quo>> \o items[k] \o <<Quo>> \o (IF k < Len(items) THEN <<Sp>> ELSE <<>>)], Len(items))

(* How the C runtime of a Windows program splits its command line.  The    *)
(* name of the program ends at the first space, or at the second quote if  *)
(* it begins with one.  In the rest 2n backslashes and a quote are n       *)
(* backslashes and a delimiter, 2n+1 are n and a quote, other backslashes  *)
(* stand for themselves; a quote right after a closing one is a quote and  *)
(* reopens.                                                                *)
SplitStep(s, c) ==
  LET run == Copies(Bs, s.bs)
      half == Copies(Bs, s.bs \div 2)
  IN  CASE c = Bs -> [s EXCEPT !.bs = @ + 1, !.inside = TRUE, !.closed = FALSE]
        [] c = Quo /\ s.bs % 2 = 1 ->
             [s EXCEPT !.cur = @ \o half \o <<Quo>>, !.bs = 0, !.inside = TRUE, !.closed = FALSE]
        [] c = Quo /\ s.bs % 2 = 0 ->
             [s EXCEPT !.cur = @ \o half \o (IF s.closed THEN <<Quo>> ELSE <<>>), !.bs = 0,
                       !.inside = TRUE, !.closed = s.quoted, !.quoted = ~@]
        [] c = Sp /\ ~s.quoted ->
             IF s.inside THEN [args |-> Append(s.args, s.cur \o run), cur |-> <<>>, bs |-> 0,
                               inside |-> FALSE, quoted |-> FALSE, closed |-> FALSE]
             ELSE s
        [] OTHER -> [s EXCEPT !.cur = @ \o run \o <<c>>, !.bs = 0, !.inside = TRUE, !.closed = FALSE]

SplitCommandLine(text) ==
  LET start == IF text[1] = Quo THEN 2 ELSE 1
      ends == {k \in start..Len(text) : text[k] = IF start = 2 THEN Quo ELSE Sp} \cup {Len(text) + 1}
      end == CHOOSE k \in ends : \A j \in ends : k <= j
      st[k \in end..(Len(text) + 1)] ==
        IF k = end THEN [args |-> <<SubSeq(text, start, end - 1)>>, cur |-> <<>>, bs |-> 0,
                         inside |-> FALSE, quoted |-> FALSE, closed |-> FALSE]
        ELSE SplitStep(st[k - 1], IF k > Len(text) THEN Sp ELSE text[k])
  IN  st[Len(text) + 1].args

(* The line and its null character are stored in cmd, whose size nothing   *)
(* compares them with.                                                     *)
Fits(text) == Len(text) + 1 <= CmdSize

(* The output file is opened with attributes that let the child inherit    *)
(* its handle, the input file with none: the handle that the prover finds  *)
(* in the place of its stdin is not valid there.                           *)
RunRequestWin ==
  /\ pc = "queued" /\ Fits(CommandString(req))
  /\ line' = CommandString(req)
  /\ argv' = SplitCommandLine(CommandString(req))
  /\ stdin' = NoFile /\ pc' = "windows"
  /\ UNCHANGED <<command, req>>

(* A line that does not fit is written beyond the array, and C says no     *)
(* more of the server.                                                     *)
RunRequestBeyond ==
  /\ pc = "queued" /\ ~Fits(CommandString(req))
  /\ pc' = "undefined"
  /\ UNCHANGED <<command, line, req, argv, stdin>>

(* why3-cpulimit called with the command itself.                           *)
CpulimitWin ==
  /\ pc = "asked"
  /\ LET text == CpulimitString(<<command.cmd>> \o command.args)
     IN  line' = text /\ argv' = SplitCommandLine(text)
  /\ pc' = "cpulimit"
  /\ UNCHANGED <<command, req, stdin>>

Done == pc \in {"unix", "windows", "undefined", "cpulimit"} /\ UNCHANGED vars

Next == \/ SendRequest \/ ParseRequest \/ CreateProcessUnix \/ RunRequestWin \/ RunRequestBeyond
        \/ CpulimitWin \/ Done

Spec == Init /\ [][Next]_vars

-----------------------------------------------------------------------------
Clean(items) == \A k \in DOMAIN items : Semi \notin {items[k][n] : n \in DOMAIN items[k]}

(* A name the C runtime reads as one word.                                 *)
OneWord(name) == Sp \notin {name[n] : n \in DOMAIN name}

(* On both systems the prover is called with exactly the arguments the     *)
(* driver gave, spaces, quotes, backslashes and empty arguments included,  *)
(* as long as no item holds a semicolon, which the protocol excludes, and  *)
(* on Windows the name of the executable holds no space and the command    *)
(* line fits in the array of run_request.                                  *)
ArgumentsArrive ==
  /\ pc = "unix" \/ (pc = "windows" /\ OneWord(command.cmd))
  /\ Clean(command.args)
  => argv = <<command.cmd>> \o command.args

(* The limits reach the request unchanged, and on Unix the file named in a *)
(* runstdin request is what the prover reads, also when there is no other  *)
(* argument.  On Windows no prover reads it (RunRequestWin).               *)
LimitsAndStdinArrive ==
  pc \in {"unix", "windows"} /\ Clean(command.args) =>
    /\ pc = "unix" => stdin = command.file
    /\ req.time = command.time /\ req.mem = command.mem

(* README.server says of the file named in a runstdin request that it is   *)
(* "piped" into the stdin of the command.                                  *)
StdinArrives == pc \in {"unix", "windows"} /\ Clean(command.args) => stdin = command.file

(* The plain quotes of why3-cpulimit are enough for items without quotes   *)
(* that do not end in a backslash.                                         *)
PlainQuotesSuffice ==
  LET items == <<command.cmd>> \o command.args
      Plain(a) == /\ Quo \notin {a[n] : n \in DOMAIN a}
                  /\ Len(a) > 0 => a[Len(a)] # Bs
  IN  pc = "cpulimit" /\ (\A k \in DOMAIN items : Plain(items[k])) => argv = items

(* The program is called as the driver asked, whichever way the command    *)
(* takes: the arguments and the limits are the ones given, and on Unix so  *)
(* is the file for stdin, subject to the exceptions named above.           *)
CommandArrives == ArgumentsArrive /\ LimitsAndStdinArrive /\ PlainQuotesSuffice
=============================================================================
