---------------------------- MODULE MCNickNet ----------------------------
(* Small instances of NickNet for TLC. *)
EXTENDS NickNet, TLC
CONSTANTS a, b, c, u, v, h1, h2, h3

\* Three servers in a row, clients at the ends.
Row == {{a, b}, {b, c}}
Ends == (u :> a) @@ (v :> c)

\* A client of the server in the middle.
Middle == u :> b

Login(n, h, t) == [nick |-> n, user |-> h, ts |-> t]
AllLogins == [x \in Clients |-> {Login(n, h, t) : n \in Nicks, h \in UserHosts, t \in 1..MaxTime}]

\* Both clients want the same nick: v as the same user and later, or as another
\* one at the same time or later (the row has two ends, so that earlier is the
\* mirror image); or v has another nick and may kill u by his.
Rivals ==
    (u :> {Login("n", h1, 1)})
      @@ (v :> {Login("n", h1, 2), Login("n", h2, 1), Login("n", h3, 2), Login("m", h2, 1)})
==========================================================================
