SPECIFICATION Spec
CONSTANTS
    i1 = i1
    i2 = i2
    Invocations = {i1, i2}
    Transports = {"telnyx", "twilio"}
    MaxBookings = 1
    MaxDeliveries = 2
    MaxAttempts = 2
    Faults = {"throws", "killed", "unwritten"}

    
PROPERTIES
    JobSettles
    ConfirmedCallIsRecapped
CHECK_DEADLOCK FALSE
