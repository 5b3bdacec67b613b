---------------------------- MODULE MCBlockRead ----------------------------
(* Values of the constants of BlockRead that a .cfg cannot write.          *)
EXTENDS BlockRead

\* Copy 1 starts in an unrotated row and wraps around the devices; copy 2
\* has its parity rotated.
MCOffset == <<2, 4>>
=============================================================================
