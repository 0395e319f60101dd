----------------------------- MODULE MCAliasNames -----------------------------
(* Bounds: lists of up to 650 tools, beyond the 600 at which aliases may   *)
(* meet; heads with and without digits at their end, of every length.      *)
EXTENDS AliasNames

MCByteNames ==
  {<<10>>, <<10, 6>>, <<10, 6, 0>>, <<6>>, <<6, 6>>, <<10, 1>>, <<10, 1, 2>>,
   <<1, 2>>, <<10, 0, 0>>, <<10, 11, 12>>, <<10, 11, 12, 13>>}
MCPoolSize  == 24
MCMaxTools  == 650
=============================================================================
