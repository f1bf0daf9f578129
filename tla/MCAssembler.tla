---------------------------- MODULE MCAssembler ----------------------------
(***************************************************************************)
(* Runs of the assembler: every source of at most two lines out of Lines,  *)
(* and a few longer ones, under one set of options, and a few sources      *)
(* under every set of options.                                             *)
(***************************************************************************)
EXTENDS AsmProps

Line ==
  {"add $t0, $t1, $2\n", "xor $1 $2 $9\n", "slt $1 $2 $3 ; low\n", "addi $s1 $1 -3\n",
   "subi $1 $2 l\n", "andni $9 $1 0xfff\n", "ld $10 ($a1) 0\n", "st $1 2($2) 0\n",
   "stu $1 ($2 0\n", "lbi $12 -0x1\n", "slbi $1 o17\n", "beqz $2 -2\n", "bgez $9 1\n",
   "l: nop\n", "l:\n", "jal l\n", "j m\n", "m: j 5\n", "startf 5 1\n", "starti 7\n", "halt 1\n",
   "'l:' nop\n", "add $ 1 2\n", "nop \\\n", "\n", "; a long comment on halt\n", "halt"}

(* A label before and after its uses, a program that fills the memory, one *)
(* that overflows it, a label with a colon in it, and a source whose last  *)
(* line lacks its newline.                                                 *)
LongSources ==
  {"l: nop\njal l\nsubi $1 $2 l\n", "jal m\n; c\nm: lbi $3 0x7\nhalt\n",
   "j l\nnop\nhalt\nl:\n", "l: m: nop\nj m\n", "nop\nnop\nnop\nnop\n",
   "a:b: nop\nj 1\n", "nop\n\nl:\nm:\nxori $1 $2 l\njalr $1 0\nj m\n", "nop\nlbi $3 12"}

Options ==
  {<<>>, <<"-i">>, <<"-i", "b.s">>, <<"-i", "a.s", "-o">>, <<"-i", "a.s", "-s">>,
   <<"-i", "a.s", "-s", "hex">>, <<"-i", "a.s", "-s", "mif", "-b", "3">>,
   <<"-i", "a.s", "-s", "mif", "-b", "8", "-o", "f">>, <<"-i", "a.s", "-s", "mif", "-s", "x">>,
   <<"-i", "a.s", "-b", "0">>, <<"-i", "a.s", "-b", "x">>, <<"-i", "a.s", "-b">>,
   <<"-i", "a.s", "-s", "mif", "-b", "-1">>, <<"-i", "a.s", "-b", " +6w", "-s", "mif">>,
   <<"-i", "a.s", "-b", "256">>, <<"-i", "a.s", "-o", "ro">>,
   <<"-o", "-i", "a.s">>}

MCCases ==
  [args : {<<"class", "-i", "a.s", "-s", "mif", "-b", "3">>},
   source : {""} \cup Line \cup {a \o b : a \in Line \ {"halt"}, b \in Line} \cup LongSources]
  \cup [args : {<<"class">> \o o : o \in Options}, source : LongSources]
=============================================================================
