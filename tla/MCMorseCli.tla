------------------------------ MODULE MCMorseCli ------------------------------
(* A build with every transport, the driver's first, as the Makefile links them. *)
EXTENDS MorseCli

MCBuilt == <<"nl80211", "uart_slip", "ftdi_spi">>

===============================================================================
