-------------------------------- MODULE Cli --------------------------------
(***************************************************************************)
(* The command line (cli/command_line.cpp, cli/command.cpp): the tables of    *)
(* commands and aliases, each command's options and subcommands, the loop     *)
(* that reads and executes lines, and completion.                            *)
(*                                                                           *)
(* A line is a sequence of words.  A command object is a record: the aliases  *)
(* it lists, opts (option name -> option object), linked (the objects whose   *)
(* _parent is the command), n (option objects made so far), subs, and what    *)
(* do_execute() returns.  The destructor deletes the parent of an option that *)
(* goes with its command, which is that command: deleting a command that has  *)
(* a linked option, and help without a parent, break the program.             *)
(***************************************************************************)
EXTENDS Naturals, Sequences, SequencesExt

CONSTANTS Names,   \* names of commands and aliases; "help" and "quit" among them
          Subs,    \* names of subcommands
          Lines,   \* lines that are typed or completed
          Scripts, \* contents of a .cliinit file: sequences of lines
          MaxOps,  \* bound on the changes of the tables
          None

Opts == {"-h", "--help"}

VARIABLES
  cmds,       \* _commands: name -> command
  alias,      \* _alias: alias -> name
  prompt,     \* _greeting: "$" or "!$"
  running,    \* run() has not read a QUIT
  matches, at, \* matches and match_index of command_generator()
  broken,     \* freed twice, or a null _parent followed
  ops         \* changes so far

vars == <<cmds, alias, prompt, running, matches, at, broken, ops>>
loop == <<prompt, running, matches, at>>

Has(f, k) == k \in DOMAIN f
Without(f, ks) == [k \in DOMAIN f \ ks |-> f[k]]
With(f, ks, v) == [k \in ks \cup DOMAIN f |-> IF k \in ks THEN v ELSE f[k]]

(* A command; init_default() gives it the option "-h", "--help". *)
Command(init, result) ==
  [aliases |-> {}, subs |-> {}, result |-> result,
   opts |-> IF init THEN [o \in Opts |-> 1] ELSE <<>>,
   linked |-> IF init THEN {1} ELSE {}, n |-> IF init THEN 1 ELSE 0]

(* ~command() *)
DeleteBreaks(c) == \E o \in DOMAIN c.opts : c.opts[o] \in c.linked

-----------------------------------------------------------------------------
(* add_command(): the aliases one by one, until one is taken. *)
Register(st, name, c, as) ==
  IF Has(st.cmds, name) THEN st
  ELSE LET taken == {i \in DOMAIN as : Has(st.alias, as[i]) \/ \E j \in 1 .. i - 1 : as[j] = as[i]}
           new == {as[i] : i \in {i \in DOMAIN as : \A j \in 1 .. i : j \notin taken}}
       IN [cmds |-> With(st.cmds, {name}, [c EXCEPT !.aliases = new]),
           alias |-> With(st.alias, new, name)]

(* The constructor, before the .cliinit files. *)
Init ==
  /\ LET st == Register(Register([cmds |-> <<>>, alias |-> <<>>],
                                 "help", Command(FALSE, "OK"), <<"h">>),
                        "quit", Command(TRUE, "QUIT"), <<"q", "quit">>)
     IN cmds = st.cmds /\ alias = st.alias
  /\ prompt = "$" /\ running = TRUE
  /\ matches = <<>> /\ at = 0
  /\ broken = FALSE /\ ops = 0

(* An alias leads to one name, which is not looked up as an alias again. *)
Resolve(name) == IF Has(alias, name) THEN alias[name] ELSE name

Changing == running /\ ~broken /\ ops < MaxOps /\ ops' = ops + 1 /\ UNCHANGED loop

AddCommand(name, as) ==
  /\ Changing
  /\ LET st == Register([cmds |-> cmds, alias |-> alias], name, Command(TRUE, "OK"), as)
     IN cmds' = st.cmds /\ alias' = st.alias
  /\ UNCHANGED broken

(* Mutant: the aliases stay behind. *)
RemoveCommandKeepsAliases(name) ==
  LET n == Resolve(name) IN
  /\ Changing /\ Has(cmds, n)
  /\ cmds' = Without(cmds, {n})
  /\ broken' = DeleteBreaks(cmds[n])
  /\ UNCHANGED alias

RemoveCommand(name) ==
  LET n == Resolve(name) IN
  /\ Changing /\ Has(cmds, n)
  /\ alias' = Without(alias, cmds[n].aliases)
  /\ cmds' = Without(cmds, {n})
  /\ broken' = DeleteBreaks(cmds[n])

(* The entry is made with the name as it was given, an alias or not. *)
AddAlias(name, a) ==
  LET n == Resolve(name) IN
  /\ Changing /\ Has(cmds, n) /\ ~Has(alias, a)
  /\ alias' = With(alias, {a}, name)
  /\ cmds' = [cmds EXCEPT ![n].aliases = @ \cup {a}]
  /\ UNCHANGED broken

(* Also another command's alias, which that command goes on listing. *)
RemoveAlias(name, a) ==
  /\ Changing /\ Has(cmds, name) /\ Has(alias, a)
  /\ alias' = Without(alias, {a})
  /\ cmds' = [cmds EXCEPT ![name].aliases = @ \ {a}]
  /\ UNCHANGED broken

(* add_option() under both names; when the second is taken the option has no parent. *)
AddOption(name) ==
  LET c == cmds[name]
      id == c.n + 1
      second == ~Has(c.opts, "--help")
  IN /\ Changing /\ Has(cmds, name) /\ ~Has(c.opts, "-h")
     /\ cmds' = [cmds EXCEPT ![name].n = id,
                   ![name].opts = With(@, {"-h"} \cup (IF second THEN {"--help"} ELSE {}), id),
                   ![name].linked = @ \cup (IF second THEN {id} ELSE {})]
     /\ UNCHANGED <<alias, broken>>

(* remove_option(): the option has no parent any more, under its other name neither. *)
RemoveOption(name, o) ==
  /\ Changing /\ Has(cmds, name) /\ Has(cmds[name].opts, o)
  /\ cmds' = [cmds EXCEPT ![name].linked = @ \ {cmds[name].opts[o]},
                          ![name].opts = Without(@, {o})]
  /\ UNCHANGED <<alias, broken>>

(* add_subcommand() and remove_subcommand(); the latter deletes a command with an option. *)
AddSubcommand(name, s) ==
  /\ Changing /\ Has(cmds, name)
  /\ cmds' = [cmds EXCEPT ![name].subs = @ \cup {s}]
  /\ broken' = (s \in cmds[name].subs)
  /\ UNCHANGED alias

RemoveSubcommand(name, s) ==
  /\ Changing /\ Has(cmds, name) /\ s \in cmds[name].subs
  /\ cmds' = [cmds EXCEPT ![name].subs = @ \ {s}]
  /\ broken' = TRUE
  /\ UNCHANGED alias

-----------------------------------------------------------------------------
(* command::execute() of c: an option or a subcommand, whose own help is there, or the *)
(* command itself.                                                                  *)
Execute(c, params) ==
  IF params = <<>> THEN c.result
  ELSE IF params[1] \in Opts
  THEN IF ~Has(c.opts, params[1]) THEN "ERROR"
       ELSE IF c.opts[params[1]] \in c.linked THEN "OK" ELSE "BROKEN"
  ELSE IF params[1] \in c.subs THEN "OK"
  ELSE c.result

(* execute_command() *)
ExecuteCommand(line) ==
  IF line = <<>> THEN "OK"
  ELSE IF ~Has(cmds, Resolve(line[1])) THEN "ERROR"
  ELSE Execute(cmds[Resolve(line[1])], Tail(line))

(* A turn of run(). *)
ReadLine(line) ==
  LET r == ExecuteCommand(line) IN
  /\ running /\ ~broken
  /\ running' = (r # "QUIT")
  /\ prompt' = IF r = "QUIT" THEN prompt ELSE IF r = "OK" THEN "$" ELSE "!$"
  /\ broken' = (r = "BROKEN")
  /\ UNCHANGED <<cmds, alias, matches, at, ops>>

(* execute_file(): up to the first line that does not end well, quit included. *)
ExecuteFile(lines) ==
  LET done[i \in 0 .. Len(lines)] ==
        IF i = 0 THEN "OK"
        ELSE IF done[i - 1] # "OK" \/ lines[i] = <<"#">> THEN done[i - 1]
        ELSE ExecuteCommand(lines[i])
  IN /\ running /\ ~broken /\ ops = 0
     /\ broken' = (done[Len(lines)] = "BROKEN")
     /\ UNCHANGED <<cmds, alias, loop, ops>>

-----------------------------------------------------------------------------
(* parse_command(): the command the words lead to, through subcommands; a word after *)
(* an option is taken for its value.                                                *)
ParseCommand(tokens) ==
  LET word(st, i) ==
        IF st.skip THEN [st EXCEPT !.skip = FALSE]
        ELSE IF tokens[i] \in Opts
        THEN [st EXCEPT !.skip = i < Len(tokens) /\ tokens[i + 1] \notin Opts]
        ELSE IF st.c = None
        THEN IF Has(cmds, Resolve(tokens[i])) THEN [st EXCEPT !.c = Resolve(tokens[i])] ELSE st
        ELSE IF ~st.sub /\ Resolve(tokens[i]) \in cmds[st.c].subs THEN [st EXCEPT !.sub = TRUE] ELSE st
  IN FoldLeft(word, [c |-> None, sub |-> FALSE, skip |-> FALSE], [i \in DOMAIN tokens |-> i])

(* command_generator() for the first time: what the word at the cursor, the k-th, may *)
(* become; prefix: the names it starts.                                              *)
Complete(tokens, k, prefix) ==
  LET p == ParseCommand(tokens)
      from(S) == SetToSeq(S \cap prefix)
      offered == IF p.c = None THEN from(DOMAIN cmds) \o from(DOMAIN alias)
                 ELSE IF k > Len(tokens) THEN <<>>
                 ELSE IF tokens[k] \in Opts THEN from(IF p.sub THEN Opts ELSE DOMAIN cmds[p.c].opts)
                 ELSE IF p.sub THEN <<>> ELSE from(cmds[p.c].subs)
  IN /\ running /\ ~broken
     /\ matches' = offered /\ at' = 0
     /\ UNCHANGED <<cmds, alias, prompt, running, broken, ops>>

(* The calls that follow, one match each. *)
NextMatch ==
  /\ ~broken /\ at < Len(matches)
  /\ at' = at + 1
  /\ UNCHANGED <<cmds, alias, prompt, running, matches, broken, ops>>

Next ==
  \/ \E n \in Names, as \in {<<>>} \cup {<<a>> : a \in Names} \cup {<<a, "h">> : a \in Names} :
       AddCommand(n, as)
  \/ \E n \in Names : RemoveCommand(n) \/ AddOption(n)
  \/ \E n, a \in Names : AddAlias(n, a) \/ RemoveAlias(n, a)
  \/ \E n \in Names, o \in Opts : RemoveOption(n, o)
  \/ \E n \in Names, s \in Subs : AddSubcommand(n, s) \/ RemoveSubcommand(n, s)
  \/ \E line \in Lines : ReadLine(line)
  \/ \E lines \in Scripts : ExecuteFile(lines)
  \/ \E tokens \in Lines, k \in 1 .. 2, prefix \in {Names, Opts \cup Subs} : Complete(tokens, k, prefix)
  \/ NextMatch

Spec == Init /\ [][Next]_vars

-----------------------------------------------------------------------------
(* However aliases were added through other aliases, refused halfway, or taken away   *)
(* through another command, each that is in the table is listed by a command that is  *)
(* there, so that it goes when that command does and never outlives the last one      *)
(* (command_line::add_command(), remove_command(), add_alias(), remove_alias()).      *)
AliasesOwned ==
  \A a \in DOMAIN alias : \E n \in DOMAIN cmds : a \in cmds[n].aliases

(* Every command object lists its aliases: what the induction needs besides.            *)
CommandsList == \A n \in DOMAIN cmds : "aliases" \in DOMAIN cmds[n]
=============================================================================
