SPECIFICATION Spec
INVARIANTS TypeOK WrongOnlyIfLost
PROPERTIES LedSettles AlarmFollowsBattery
