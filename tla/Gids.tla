-------------------------------- MODULE Gids --------------------------------
(* generateGid: the ids of requests, of instances I, of Ts and of workers.  *)
(* All threads draw from one atomic counter; the id is a hash, fixed for    *)
(* the life of the process, plus the draw, in unsigned arithmetic of Word   *)
(* values. Zero is not handed out: the thread draws again.                  *)
EXTENDS Integers

CONSTANTS
  Word,      \* 2^32, the values of an unsigned int
  IntHash    \* gidKeyHash % INT32_MAX, once gidKeyHash is set

Sum(draw) ==
  IF IntHash + draw >= Word THEN IntHash + draw - Word ELSE IntHash + draw

\* What a call returns that drew first and, if it needed another, again.
Gid(first, again) == IF Sum(first) # 0 THEN Sum(first) ELSE Sum(again)
=============================================================================
