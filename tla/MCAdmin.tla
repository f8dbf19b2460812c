-------------------------------- MODULE MCAdmin --------------------------------
(***************************************************************************)
(* Durations of six bits.  A second is twelve, so that as with the real    *)
(* ones (64 bits and 1,000,000,000) a power of two of seconds wraps to     *)
(* nothing, and others to fractions of a second or to a negative duration; *)
(* the limits are a second and five sixths, and a second and a third.      *)
(* Each of the inputs is varied alone: every token with a call of no page, *)
(* every page with a token and without, every setting at its limits, a     *)
(* fraction over them, and where it wraps.                                 *)
(***************************************************************************)
EXTENDS Admin, TLC

CONSTANTS c1, c2, own, other

All == {"create", "read", "delete"}

Token(valid, scope, scp) == [valid |-> valid, scope |-> scope, scp |-> scp]

Good == Token(TRUE, All, Absent)
ReadOnly == Token(TRUE, {"read"}, Absent)
Forged == Token(FALSE, All, Absent)

MCTokens == {Good, ReadOnly, Forged, Token(TRUE, Absent, All), Token(TRUE, {}, All),
             Token(TRUE, Absent, Absent)}

MCCallers == {c1, c2}
MCAllowed == {own}
MCHosts == {own, other}
MCSymmetry == Permutations(MCCallers)

Setting(t, w) == [ttl |-> t, wait |-> w, malformed |-> FALSE, long |-> FALSE]

NoSetting == Setting(0, 0)
TooLong == [NoSetting EXCEPT !.long = TRUE]
Malformed == [NoSetting EXCEPT !.malformed = TRUE]

With(ttls, waits) == {Setting(t, 0) : t \in ttls} \union {Setting(0, w) : w \in waits}

Call(op, bearer, host, body) == [op |-> op, bearer |-> bearer, host |-> host, body |-> body]

\* Of the numbers of seconds 2 is over the limits, 3 wraps to -28, 6 to 8, 16 to 0.
MCRequests ==
  {Call(op, b, NoHost, NoSetting) : op \in Ops, b \in MCTokens \union {Empty, NoToken}}
  \union {Call(op, b, h, NoSetting) : op \in Ops, b \in {Good, NoToken}, h \in MCHosts}
  \union {Call("create", Good, NoHost, body) :
            body \in With({-1, 1, 2, 3, 6, 16}, {-1, 1, 2, 3, 6, 16}) \union {TooLong, Malformed}}

Ask(explicit, cached, s) ==
  [explicit |-> explicit, cached |-> cached, ttl |-> s.ttl, wait |-> s.wait, long |-> s.long]

MCAsks ==
  {Ask(e, k, NoSetting) : e \in {NoToken, Good, Forged}, k \in {NoToken, Good, ReadOnly}}
  \union {Ask(Good, NoToken, s) :
            s \in With({-32, -12, -11, 11, 12, 22, 23, 24, 31}, {-12, -11, 11, 12, 16, 17, 24, 31})
                 \union {TooLong}}

================================================================================
