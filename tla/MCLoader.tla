------------------------------ MODULE MCLoader ------------------------------
(***************************************************************************)
(* Runs of the loader: segments of two bytes, a memory of at most four     *)
(* segments, bytes 0 and 1.                                                *)
(***************************************************************************)
EXTENDS LoaderProps

MCTyped ==
  {".exit\n", ".run\n", ".help .mem\n", "hello\n", ".none\n", ".rst\n", ".rst -afu\n", ".rst x\n",
   ".sr\n", ".sr -r f 1\n", ".sr -r f -1\n", ".sr -r none 0\n", ".sr -s g 1 2\n", ".sr -s g 2 1\n",
   ".mem\n", ".mem -b 1 0\n", ".mem -b 2 0:2\n", ".mem -b ' 2' 1\n", ".mem -b -2 0\n", ".mem -h 0:1 3\n", ".mem 1:0 -a\n",
   ".wait 0 1 2\n", ".wait 1 1 0\n", ".wait -m 1\n", ".wait x 1\n", ".wait 5 0x3 -1\n",
   ".resize 3\n", ".resize 2\n", ".resize 9\n", ".mem '0\n"}

MCStarts ==
  {[args |-> <<"cload">>, script |-> <<>>],
   [args |-> <<"cload", "-i">>, script |-> <<>>],
   [args |-> <<"cload", "-o", "x">>, script |-> <<>>],
   [args |-> <<"cload", "-i", "s">>, script |-> <<".resize 2\n", ".sr -r f 1\n", ".run\n", ".wait 0 1 2\n">>],
   [args |-> <<"cload", "-i", "s">>, script |-> <<".run\n", ".exit\n", ".wait 0 1 1\n">>],
   [args |-> <<"cload", "-i", "s">>, script |-> <<".run\n", ".resize 3\n", ".mem '\n">>]}

MCFiles == [f \in {"f", "s"} |-> IF f = "f" THEN <<1, 1>> ELSE <<0>>]
=============================================================================
