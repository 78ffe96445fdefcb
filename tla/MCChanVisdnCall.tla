--------------------------- MODULE MCChanVisdnCall ---------------------------
(* Model-checking instance of ChanVisdnCall: three indications may wait in *)
(* the queue, enough for ALERTING, CONNECT and DISCONNECT to be pending     *)
(* together when the q931 thread comes round.                              *)
EXTENDS ChanVisdnCall

MCMaxQueued == 3

\* Two digits, and a DTMF queue with room for one: a second digit held
\* back is dropped, as visdn_queue_dtmf does when the queue is full.
MCMaxDigits == 2
MCDtmfQueueSize == 2

\* One digit in the passing run: its questions are about the queues and the
\* B channel, and the drop of a second digit is the DTMF run's business.
MCCallMaxDigits == 1

\* One indication: RINGING, PROCEEDING, PROGRESS, a BUSY or in-band
\* information, racing the q931 thread and the answer.
MCMaxIndicates == 1

=============================================================================
