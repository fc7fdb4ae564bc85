------------------------------ MODULE MCPacing ------------------------------
(* Instances of PacingLimiter for TLC: the configurations are MCPacing.cfg  *)
(* and MCPacingSlowRate.cfg.                                                *)
EXTENDS PacingLimiter
=============================================================================
