----------------------------- MODULE Goroutines -----------------------------
(***************************************************************************)
(* What the lookups of one process share (WhoisCache, AsnResolver): the    *)
(* goroutines that make them and the clock these read.                     *)
(***************************************************************************)

CONSTANTS
  Callers,    \* the goroutines that serve requests
  MaxClock,   \* bound of the models: the clock stops there
  None        \* the nil of every map and pointer

VARIABLE clock   \* time.Now()

=============================================================================
