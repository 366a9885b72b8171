----------------------------- MODULE LoraRadio ------------------------------
(***************************************************************************)
(* The SX1262 driver (src/main/sx1262.c) and the chip and the air behind   *)
(* it, which are external: one shared half-duplex channel.  A radio is in  *)
(* receive, standby, channel activity detection (CAD) or transmit mode,    *)
(* latches interrupt flags until they are read, and has one buffer that    *)
(* received and transmitted frames share.  Every command that leaves       *)
(* receive mode goes through standby, which ends a reception or a          *)
(* transmission in progress.                                               *)
(***************************************************************************)
EXTENDS Integers, FiniteSets

CONSTANTS Nodes,        \* the trunk nodes, positive integers
          NoFrame,      \* no frame, and what a foreign transmission leaves
          TxTimeoutMs   \* the timeout given to SetTx

VARIABLES radio,        \* of each node
          faults        \* losses, noise, failed commands still to happen

Modes == {"rx", "standby", "cad", "tx"}
Irqs == {"CAD_DONE", "CAD_DETECTED", "TX_DONE", "CRC_ERR", "RX_DONE", "TIMEOUT"}
Events == {"CAD_BUSY", "CAD_CLEAR", "TX_DONE", "CRC_ERROR", "RX_DONE", "TIMEOUT"}

\* hear: who has heard the transmission from its start.  cut: this radio has
\* been in standby since the last step of its task.
IdleRadio == [mode |-> "rx", irq |-> {}, buf |-> NoFrame, hear |-> {}, cut |-> FALSE]

\* sx1262_detect found none.
NoRadio == [IdleRadio EXCEPT !.mode = "standby"]

RadioInit == radio = [n \in Nodes |-> IdleRadio]

-----------------------------------------------------------------------------
(* Commands of the driver, on one radio.                                    *)

sx1262_transmit(r, f) == [r EXCEPT !.mode = "tx", !.buf = f, !.cut = TRUE]

\* The write of the buffer failed: standby, receive path off.
TransmitFails(r) == [r EXCEPT !.mode = "standby", !.cut = TRUE]

sx1262_start_cad(r) == [r EXCEPT !.mode = "cad", !.cut = TRUE]

CadFails(r) == [r EXCEPT !.mode = "standby", !.cut = TRUE]

sx1262_resume_rx(r) ==
  [r EXCEPT !.mode = "rx", !.cut = @ \/ r.mode # "rx"]

\* All flags read are cleared; only the first of them is reported.
sx1262_poll_event(r) ==
  CASE "CAD_DONE" \in r.irq ->
         IF "CAD_DETECTED" \in r.irq THEN "CAD_BUSY" ELSE "CAD_CLEAR"
    [] r.irq \cap {"CAD_DONE", "TX_DONE"} = {"TX_DONE"} -> "TX_DONE"
    [] r.irq \cap {"CAD_DONE", "TX_DONE", "CRC_ERR"} = {"CRC_ERR"} -> "CRC_ERROR"
    [] r.irq \cap {"CAD_DONE", "TX_DONE", "CRC_ERR", "RX_DONE"} = {"RX_DONE"} -> "RX_DONE"
    [] r.irq = {"TIMEOUT"} -> "TIMEOUT"
    [] OTHER -> "NONE"

\* The last frame in the buffer, or none when a read fails.
sx1262_read_packet(r, ok) == IF ok THEN r.buf ELSE NoFrame

\* The radios after node n has left its own as r.  A transmission that n
\* starts is heard by those in receive mode, unless the channel is taken; it
\* spoils every other.  A radio that left receive mode hears nothing out.
SetRadio(n, r) ==
  LET starts == r.cut /\ r.mode = "tx"
      taken == \E m \in Nodes \ {n} : radio[m].mode = "tx"
      hear == IF taken THEN {} ELSE {m \in Nodes \ {n} : radio[m].mode = "rx"}
  IN  radio' = [m \in Nodes |->
        IF m = n
          THEN [r EXCEPT !.cut = FALSE,
                         !.hear = IF starts THEN hear
                                  ELSE IF r.mode = "tx" THEN @ ELSE {}]
          ELSE [radio[m] EXCEPT !.hear = IF starts THEN {}
                                         ELSE IF r.cut THEN @ \ {n} ELSE @]]

-----------------------------------------------------------------------------
(* The chip and the air.  A frame is on the air for longer than the task    *)
(* sleeps (50 ms) and than activity detection takes, so those end, and the  *)
(* flags they leave are read, before it does.                               *)

\* Activity detection ends.  It finds a transmission that is on the air, or
\* noise.
CadDone(n) ==
  /\ radio[n].mode = "cad"
  /\ \E noise \in IF faults > 0 THEN BOOLEAN ELSE {FALSE} :
       LET busy == noise \/ \E m \in Nodes \ {n} : radio[m].mode = "tx"
       IN  /\ radio' = [radio EXCEPT
                  ![n].mode = "standby",
                  ![n].irq = @ \cup {"CAD_DONE"} \cup
                             (IF busy THEN {"CAD_DETECTED"} ELSE {})]
           /\ faults' = faults - (IF noise THEN 1 ELSE 0)

\* What a receiver is left with: the frame, nothing, a checksum error, or a
\* frame of some other protocol that was stronger.
Received(r, f, how) ==
  CASE how = "whole" -> [r EXCEPT !.irq = @ \cup {"RX_DONE"}, !.buf = f]
    [] how = "lost" -> r
    [] how = "crc" -> [r EXCEPT !.irq = @ \cup {"RX_DONE", "CRC_ERR"}, !.buf = NoFrame]
    [] how = "foreign" -> [r EXCEPT !.irq = @ \cup {"RX_DONE"}, !.buf = NoFrame]

\* A transmission ends and whoever heard all of it has the frame.
TxDone(n, air) ==
  /\ radio[n].mode = "tx"
  /\ \A m \in Nodes : radio[m].irq = {} /\ radio[m].mode # "cad"
  /\ air <= TxTimeoutMs
  /\ \E how \in IF faults > 0 /\ radio[n].hear # {}
                  THEN {"whole", "lost", "crc", "foreign"} ELSE {"whole"} :
       /\ radio' = [m \in Nodes |->
            IF m = n THEN [radio[n] EXCEPT !.mode = "standby", !.hear = {},
                                           !.irq = @ \cup {"TX_DONE"}]
            ELSE IF m \in radio[n].hear THEN Received(radio[m], radio[n].buf, how)
            ELSE radio[m]]
       /\ faults' = faults - (IF how = "whole" THEN 0 ELSE 1)

\* The transmit timeout: of a frame that takes longer, and of a stuck
\* amplifier.
TxTimeout(n, air) ==
  /\ radio[n].mode = "tx"
  /\ \A m \in Nodes : radio[m].irq = {} /\ radio[m].mode # "cad"
  /\ air > TxTimeoutMs \/ faults > 0
  /\ radio' = [radio EXCEPT ![n].mode = "standby", ![n].hear = {},
                            ![n].irq = @ \cup {"TIMEOUT"}]
  /\ faults' = IF air > TxTimeoutMs THEN faults ELSE faults - 1
=============================================================================
