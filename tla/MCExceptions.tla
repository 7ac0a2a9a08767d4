---------------------------- MODULE MCExceptions ----------------------------
(***************************************************************************)
(* An instance of Exceptions.  Words have 6 bits, enough for all page      *)
(* fault error codes and the selectors; the registers all differ, so that  *)
(* one taken for another shows.                                            *)
(***************************************************************************)
EXTENDS Exceptions

MCMainRegs ==
  [eax |-> 17, ecx |-> 35, edx |-> 63, ebx |-> 42, ebp |-> 7, esi |-> 5, edi |-> 6,
   ds |-> 24, es |-> 25, fs |-> 26, gs |-> 27, cs |-> 32, eip |-> 33, eflags |-> 1]

(* The exceptions exception_messages has a name for.                       *)
MCVectors == ((0 .. 20) \ {15}) \cup {30}

(* All page fault codes.                                                   *)
MCErrCodes == [v \in MCVectors |->
  IF v = 14 THEN 0 .. 31 ELSE IF v \in PushesError THEN {0, 40} ELSE {0}]

(* Address 0, one that is not mapped and one that is.                      *)
MCPhys == (0 :> 0) @@ (50 :> 0) @@ (9 :> 41)

Arg(n, s) == [n |-> n, s |-> s]
As(k) == [i \in 1 .. k |-> "a"]

(* 0, the ends of the signed and unsigned range, one and two digits.       *)
Directives ==
  {[kind |-> k, arg |-> Arg(0, <<>>)] : k \in {"%", "u", "d", "x", "p", "s"}}
  \cup {[kind |-> k, arg |-> Arg(n, <<>>)] : k \in {"u", "d", "x"}, n \in {10, 32, 63}}
  \cup {[kind |-> "p", arg |-> Arg(63, <<>>)], [kind |-> "other", arg |-> Arg(0, <<"z">>)]}
  \cup {[kind |-> k, arg |-> Arg(0, <<"h", "i">>)] : k \in {"text", "c", "s"}}

(* INT_MAX is 31: texts that just fit, and conversions that do not.        *)
Long == {[kind |-> k, arg |-> Arg(0, As(n))] : k \in {"text", "s"}, n \in {30, 31, 32}}
Checked == {d \in Directives : d.kind \in {"%", "text", "c", "s", "other"}}

MCFormats ==
  {<<>>, <<[kind |-> "other", arg |-> Arg(0, <<>>)]>>}
  \cup {<<a>> : a \in Directives \cup Long}
  \cup {<<a, b>> : a \in Directives, b \in Directives}
  \cup {<<a, b>> : a \in Long, b \in Checked}

MCSegmentRequests ==
  [base : {{}, {0, 15}, {16, 23}, {7, 16}, {24, 31}},
   limit : {{}, 0 .. 19, 0 .. 31, {15, 16}, {19}},
   flag : {Segment \cup SEG_CODE_EXRD, Segment \cup SEG_PRIV(3) \cup SEG_DATA_RDWR,
           0 .. 15, {0, 12}}]
=============================================================================
