------------------------------ MODULE MCDaemon ------------------------------
(***************************************************************************)
(* The daemon with a few command lines: directories apart, equal, nested,  *)
(* nested behind a trailing slash, dotted, or one of the sandbox's files;  *)
(* sockets apart, among the roots, with no directory, and too long; each   *)
(* option given not at all, once and twice.                                *)
(***************************************************************************)
EXTENDS Daemon

Line(command, roots, socket, uid, gid) ==
  [command |-> command, roots |-> roots, socket |-> socket, uid |-> uid, gid |-> gid]
Once(j, r, t) ==
  [o \in Storage |->
     << CASE o = "journal" -> j [] o = "revisions" -> r [] o = "transactions" -> t >>]
A == <<"a">>
B == <<"b">>
C == <<"c">>
Socket == <<"d", "s">>

\* Roots in every relation that the overlap tests tell apart.
Rooted ==
  {Line("serve-read-only", Once(j, r, C), <<Socket>>, <<1>>, <<>>) :
     j \in {A, <<"a", "">>, <<"..", "a">>}, r \in {A, B, <<"a", "b">>, PfDevice, <<>>}}

\* Both ways to grant access, for both commands.
Granted ==
  {Line(c, Once(A, B, C), <<Socket>>, uid, gid) :
     c \in {"check-config", "serve-read-only"}, uid \in {<<1>>, <<-1>>},
     gid \in {<<>>, <<2>>, <<-1>>, <<2, 2>>}}

Sockets ==
  {Line("serve-read-only", Once(A, B, C), s, <<1>>, <<>>) :
     s \in {<<>>, <<Socket, Socket>>, << <<"a", "s">> >>, << <<"s">> >>,
            << <<"d", "">> >>, << <<"d", "e", "s">> >>}}

Incomplete ==
  {Line("serve-read-only", [Once(A, B, C) EXCEPT ![o] = v], <<Socket>>, <<1>>, <<>>) :
     o \in Storage, v \in {<<>>, <<A, A>>}}

MCArguments ==
  Rooted \cup Granted \cup Sockets \cup Incomplete
  \cup {Line(c, Once(A, B, C), <<Socket>>, <<1>>, <<>>) : c \in {"help", "version"}}

Good == [plain |-> TRUE, mine |-> TRUE, group |-> 2, may |-> {"g+x"}, stable |-> TRUE]
MCFacts ==
  {Good, [Good EXCEPT !.plain = FALSE], [Good EXCEPT !.mine = FALSE],
   [Good EXCEPT !.group = 1], [Good EXCEPT !.stable = FALSE], [Good EXCEPT !.may = {}],
   [Good EXCEPT !.may = {"g+w", "g+x"}], [Good EXCEPT !.may = {"g+x", "o+x"}]}
=============================================================================
