\* MPMCChannel with one sender and one receiver, and with two senders and
\* one receiver; the constants of each are fixed in MC_MPMCChannelPair.
CONSTANTS
  s1 = s1
  s2 = s2
  r1 = r1

SPECIFICATION Spec
 
 
PROPERTY AllCallsReturn
